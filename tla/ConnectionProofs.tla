--------------------------- MODULE ConnectionProofs ---------------------------
(***************************************************************************)
(* Theorems about Connection, for any set of connections, versions and     *)
(* payloads.  Each invariant is proved inductive relative to the ones      *)
(* before it; fairness is never used.                                      *)
(***************************************************************************)
EXTENDS Connection, SequenceTheorems, TLAPS

(* Reverse, of which idle's flush is built, keeps the elements' type and     *)
(* their number.                                                             *)
LEMMA ReverseType ==
  ASSUME NEW S, NEW s \in Seq(S)
  PROVE  Reverse(s) \in Seq(S) /\ Len(Reverse(s)) = Len(s)
<1>1. \A i \in 1 .. Len(s) : s[(Len(s) - i) + 1] \in S
  BY ElementOfSeq, LenProperties
<1>2. Reverse(s) \in [1 .. Len(s) -> S]
  BY <1>1 DEF Reverse
<1> QED  BY <1>2, LenProperties

(* Every message that the program sends is one of Messages.                  *)
LEMMA MessageTypes ==
  /\ WhoAmI \in Messages
  /\ WhoAmIAck \in Messages
  /\ GetDatas \subseteq Messages
  /\ <<>> \in Seq(GetDatas)
  /\ <<>> \in Seq(Messages)
  /\ <<WhoAmI>> \in Seq(Messages)
  /\ <<WhoAmIAck>> \in Seq(Messages)
  /\ <<WhoAmI, WhoAmIAck>> \in Seq(Messages)
  /\ \A m \in GetDatas : <<m>> \in Seq(Messages)
BY DEF Messages

(* A sequence extended twice keeps its type and is no shorter.               *)
LEMMA ExtendTwice ==
  ASSUME NEW S, NEW s \in Seq(S), NEW t \in Seq(S), NEW u \in Seq(S)
  PROVE  s \o t \o u \in Seq(S) /\ Len(s) <= Len(s \o t \o u)
<1>1. s \o t \in Seq(S) /\ Len(s \o t) = Len(s) + Len(t)
  BY ConcatProperties
<1>2. (s \o t) \o u \in Seq(S) /\ Len((s \o t) \o u) = Len(s \o t) + Len(u)
  BY <1>1, ConcatProperties
<1>3. Len(s) \in Nat /\ Len(t) \in Nat /\ Len(u) \in Nat
  BY LenProperties
<1> QED  BY <1>1, <1>2, <1>3

(* Flush keeps the types of the buffer and of the wire, and only extends     *)
(* the wire.                                                                 *)
LEMMA FlushType ==
  ASSUME TypeOK, NEW c \in Conns, NEW sent \in Seq(Messages), Flush(c, sent)
  PROVE  /\ bufferedMessages' \in [Conns -> Seq(GetDatas)]
         /\ written' \in [Conns -> Seq(Messages)]
         /\ \A d \in Conns : Len(written[d]) <= Len(written'[d])
<1> DEFINE new == written[c] \o sent \o Reverse(bufferedMessages[c])
<1>1. Reverse(bufferedMessages[c]) \in Seq(Messages)
  <2>1. bufferedMessages[c] \in Seq(Messages)
    BY MessageTypes, SeqMonotonic DEF TypeOK
  <2> QED  BY <2>1, ReverseType
<1>2. new \in Seq(Messages) /\ Len(written[c]) <= Len(new)
  BY <1>1, ExtendTwice DEF TypeOK
<1>3. written' = [written EXCEPT ![c] = new]
  BY DEF Flush
<1> HIDE DEF new
<1>4. written' \in [Conns -> Seq(Messages)]
  BY <1>2, <1>3 DEF TypeOK
<1>5. \A d \in Conns : Len(written[d]) <= Len(written'[d])
  BY <1>2, <1>3, LenProperties DEF TypeOK
<1>6. bufferedMessages' \in [Conns -> Seq(GetDatas)]
  BY MessageTypes DEF Flush, TypeOK
<1> QED  BY <1>4, <1>5, <1>6

Maps == IsMap(unregistred) /\ IsMap(connectedNodes) /\ IsMap(connectedRelays)

(* A map with one more connection, or one less, still maps endpoints.        *)
LEMMA MapChanged ==
  ASSUME NEW map, IsMap(map), NEW c \in Conns
  PROVE  IsMap(Insert(map, remote[c], c)) /\ IsMap(Erase(map, remote[c]))
BY DEF IsMap, Insert, Erase

(* registerConnection moves c between maps of connections.                   *)
LEMMA RegisterType ==
  ASSUME TypeOK, NEW c \in Conns, NEW type, RegisterConnection(c, type),
         remote' = remote
  PROVE  Maps'
<1>1. \A map : IsMap(map) => IsMap(map)'
  BY DEF IsMap
<1>2. CASE UNCHANGED registry
  BY <1>1, <1>2 DEF TypeOK, IsMap, Maps, registry
<1>3. CASE /\ connectedNodes' = InsertIf(type = "nodepeer", connectedNodes, remote[c], c)
           /\ connectedRelays' = InsertIf(type = "relaypeer", connectedRelays, remote[c], c)
           /\ unregistred' = Erase(unregistred, remote[c])
  <2>1. /\ IsMap(InsertIf(type = "nodepeer", connectedNodes, remote[c], c))
        /\ IsMap(InsertIf(type = "relaypeer", connectedRelays, remote[c], c))
        /\ IsMap(Erase(unregistred, remote[c]))
    BY MapChanged DEF TypeOK, InsertIf
  <2> QED  BY <1>3, <2>1 DEF Maps, IsMap
<1> QED  BY <1>2, <1>3 DEF RegisterConnection

\* What leaves the registry alone.
LEMMA MapsKept == TypeOK /\ remote' = remote /\ UNCHANGED registry => Maps'
BY DEF TypeOK, IsMap, Maps, registry

(* updateStatus, from each of the five statuses, keeps every type.           *)
LEMMA UpdateStatusType ==
  ASSUME TypeOK, NEW c \in Conns, NEW version \in Int, NEW type \in PeerTypes,
         UpdateStatus(c, version, type), remote' = remote
  PROVE  /\ status' \in [Conns -> Statuses]
         /\ peerType' \in [Conns -> PeerTypes]
         /\ versionUsed' \in [Conns -> Int]
         /\ bufferedMessages' \in [Conns -> Seq(GetDatas)]
         /\ written' \in [Conns -> Seq(Messages)]
         /\ \A d \in Conns : Len(written[d]) <= Len(written'[d])
         /\ Maps'
<1> DEFINE settled == IF peerType[c] = "peer" THEN type ELSE peerType[c]
<1>1. peerType' \in [Conns -> PeerTypes]
  BY DEF TypeOK, UpdateStatus
<1>2. \A used \in Int : Lower(used, version) \in Int
  BY DEF Lower
<1>3. CASE FromIdle(c, version)
  <2>1. written[c] \o <<WhoAmI, WhoAmIAck>> \in Seq(Messages)
    BY MessageTypes, ConcatProperties DEF TypeOK
  <2>2. Len(written[c]) <= Len(written[c] \o <<WhoAmI, WhoAmIAck>>)
    <3>1. Len(written[c]) \in Nat /\ Len(<<WhoAmI, WhoAmIAck>>) \in Nat
      BY MessageTypes, LenProperties DEF TypeOK
    <3> QED  BY <3>1, MessageTypes, ConcatProperties DEF TypeOK
  <2>3. \A d \in Conns : Len(written[d]) <= Len(written'[d])
    BY <1>3, <2>2, LenProperties DEF TypeOK, FromIdle
  <2>4. versionUsed' \in [Conns -> Int]
    BY <1>2, <1>3 DEF TypeOK, FromIdle
  <2>5. Maps'
    BY <1>3, MapsKept DEF FromIdle
  <2> QED  BY <1>1, <1>3, <2>1, <2>3, <2>4, <2>5 DEF TypeOK, FromIdle, Statuses
<1>4. CASE FromWaitingAck(c, version, settled)
  <2>1. Flush(c, <<>>) /\ RegisterConnection(c, settled)
    BY <1>4 DEF FromWaitingAck
  <2>2. status' \in [Conns -> Statuses] /\ versionUsed' \in [Conns -> Int]
    BY <1>2, <1>4 DEF TypeOK, FromWaitingAck, Statuses
  <2> QED  BY <1>1, <2>1, <2>2, MessageTypes, FlushType, RegisterType
<1>5. CASE FromInitiated(c)
  <2>1. \A d \in Conns : Len(written[d]) <= Len(written'[d])
    BY <1>5, LenProperties DEF TypeOK, FromInitiated, wire
  <2>2. Maps'
    BY <1>5, MapsKept DEF FromInitiated
  <2> QED  BY <1>1, <1>5, <2>1, <2>2 DEF TypeOK, FromInitiated, wire, Statuses
<1>6. CASE FromWaiting(c, version, settled)
  <2>1. Flush(c, <<WhoAmIAck>>) /\ RegisterConnection(c, settled)
    BY <1>6 DEF FromWaiting
  <2>2. status' \in [Conns -> Statuses] /\ versionUsed' \in [Conns -> Int]
    BY <1>2, <1>6 DEF TypeOK, FromWaiting, Statuses
  <2> QED  BY <1>1, <2>1, <2>2, MessageTypes, FlushType, RegisterType
<1>7. CASE FromAck(c)
  <2>1. Flush(c, <<>>)
    BY <1>7 DEF FromAck
  <2>2. /\ status' \in [Conns -> Statuses] /\ versionUsed' \in [Conns -> Int]
        /\ Maps'
    BY <1>7, MapsKept DEF TypeOK, FromAck, registry
  <2> QED  BY <1>1, <2>1, <2>2, MessageTypes, FlushType
<1> QED  BY <1>3, <1>4, <1>5, <1>6, <1>7 DEF UpdateStatus

\* idle() after a silent handler keeps the queue and the wire well typed.
LEMMA IdlingType ==
  ASSUME TypeOK, NEW c \in Conns, Idling(c)
  PROVE  /\ bufferedMessages' \in [Conns -> Seq(GetDatas)]
         /\ written' \in [Conns -> Seq(Messages)]
         /\ \A d \in Conns : Len(written[d]) <= Len(written'[d])
<1>1. CASE status[c] = "Ack"
  BY <1>1, MessageTypes, FlushType DEF Idling
<1>2. CASE status[c] # "Ack"
  BY <1>2, LenProperties DEF Idling, TypeOK, wire
<1> QED  BY <1>1, <1>2

\* The state that Node's constructor leaves is well typed.
LEMMA TypeInit == Init => TypeOK
<1> SUFFICES ASSUME Init PROVE TypeOK
  OBVIOUS
<1>1. written \in [Conns -> Seq(Messages)]
  BY MessageTypes DEF Init
<1>2. \A c \in Conns : completed[c] <= Len(written[c])
  BY <1>1, LenProperties DEF Init
<1>3. Maps
  BY OutboundAssumption DEF Init, Maps, IsMap, NoEntry
<1> QED
  BY <1>1, <1>2, <1>3, MessageTypes, OutboundAssumption, RemotesAssumption, MaxInvsAssumption
  DEF Init, TypeOK, Maps, Links, Statuses, PeerTypes, VERSION

\* Every handler, and every event of the network, keeps the types.
LEMMA TypeStep == TypeOK /\ [Next]_vars => TypeOK'
<1> SUFFICES ASSUME TypeOK, [Next]_vars PROVE TypeOK'
  OBVIOUS
<1>0. ASSUME \A d \in Conns : Len(written[d]) <= Len(written'[d]),
             written' \in [Conns -> Seq(Messages)], completed' = completed
      PROVE  \A d \in Conns : completed'[d] <= Len(written'[d])
  BY <1>0, LenProperties DEF TypeOK
<1>1. ASSUME NEW c \in Conns, NEW version \in Int, NEW type \in PeerTypes,
             UpdateStatus(c, version, type),
             UNCHANGED <<running, link, remote, completed, reads, replies>>
      PROVE  TypeOK'
  <2>1. /\ status' \in [Conns -> Statuses]
        /\ peerType' \in [Conns -> PeerTypes]
        /\ versionUsed' \in [Conns -> Int]
        /\ bufferedMessages' \in [Conns -> Seq(GetDatas)]
        /\ written' \in [Conns -> Seq(Messages)]
        /\ \A d \in Conns : Len(written[d]) <= Len(written'[d])
        /\ Maps'
    BY <1>1, UpdateStatusType
  <2> QED  BY <1>0, <1>1, <2>1 DEF TypeOK, Maps, replies
<1>2. ASSUME NEW c \in Conns, OnWhoAmI(c) \/ OnWhoAmIAck(c) PROVE TypeOK'
  <2>1. \E version \in Int, type \in PeerTypes : UpdateStatus(c, version, type)
    BY <1>2, VersionsAssumption DEF OnWhoAmI, ReceiveWhoAmI, Readable, OnWhoAmIAck, PeerTypes
  <2> QED  BY <1>1, <1>2, <2>1 DEF OnWhoAmI, ReceiveWhoAmI, OnWhoAmIAck
<1>3. ASSUME NEW c \in Conns, OnInv(c) PROVE TypeOK'
  <2>1. PICK inv \in Invs \cup {Blank} :
          LET reply == GetData(Unknown(inv))
          IN  IF status[c] = "Ack"
              THEN /\ Flush(c, <<reply>>)
                   /\ answered' = [answered EXCEPT ![c] = Append(@, reply)]
                   /\ UNCHANGED heldBack
              ELSE /\ bufferedMessages' = [bufferedMessages EXCEPT ![c] = Append(@, reply)]
                   /\ heldBack' = [heldBack EXCEPT ![c] = Append(@, reply)]
                   /\ UNCHANGED <<written, answered>>
    BY <1>3 DEF OnInv, ReceiveInv, Readable
  <2> DEFINE reply == GetData(Unknown(inv))
  <2>2. reply \in GetDatas
    BY DEF GetDatas
  <2> HIDE DEF reply
  <2>3. heldBack' \in [Conns -> Seq(GetDatas)] /\ answered' \in [Conns -> Seq(GetDatas)]
    <3>1. \/ heldBack' = heldBack /\ answered' = [answered EXCEPT ![c] = Append(@, reply)]
          \/ heldBack' = [heldBack EXCEPT ![c] = Append(@, reply)] /\ answered' = answered
      BY <2>1 DEF reply
    <3>2. \A d \in Conns : heldBack[d] \in Seq(GetDatas) /\ answered[d] \in Seq(GetDatas)
      BY DEF TypeOK
    <3>3. Append(heldBack[c], reply) \in Seq(GetDatas) /\ Append(answered[c], reply) \in Seq(GetDatas)
      BY <2>2, <3>2, AppendProperties
    <3> QED  BY <3>1, <3>3 DEF TypeOK
  <2>4. /\ bufferedMessages' \in [Conns -> Seq(GetDatas)]
        /\ written' \in [Conns -> Seq(Messages)]
        /\ \A d \in Conns : Len(written[d]) <= Len(written'[d])
    <3>1. CASE status[c] = "Ack"
      <4>1. Flush(c, <<reply>>)
        BY <2>1, <3>1 DEF reply
      <4> QED  BY <2>2, <4>1, MessageTypes, FlushType
    <3>2. CASE status[c] # "Ack"
      <4>1. bufferedMessages' = [bufferedMessages EXCEPT ![c] = Append(@, reply)] /\ written' = written
        BY <2>1, <3>2 DEF reply
      <4> QED  BY <2>2, <4>1, LenProperties DEF TypeOK
    <3> QED  BY <3>1, <3>2
  <2>5. Maps'
    BY <1>3, MapsKept DEF OnInv, ReceiveInv
  <2> QED  BY <1>0, <1>3, <2>3, <2>4, <2>5 DEF OnInv, ReceiveInv, TypeOK, Maps, replies
<1>4. ASSUME NEW c \in Conns, OnUnknown(c) PROVE TypeOK'
  <2>1. Maps'
    BY <1>4, MapsKept DEF OnUnknown
  <2> QED  BY <1>0, <1>4, <2>1, IdlingType DEF OnUnknown, TypeOK, Maps, replies
<1>5. ASSUME NEW c \in Conns, HandleWrite(c) PROVE TypeOK'
  <2>1. /\ bufferedMessages' \in [Conns -> Seq(GetDatas)]
        /\ written' \in [Conns -> Seq(Messages)]
        /\ \A d \in Conns : Len(written[d]) <= Len(written'[d])
    BY <1>5, IdlingType DEF HandleWrite
  <2>2. completed' \in [Conns -> Nat] /\ \A d \in Conns : completed'[d] <= Len(written[d])
    BY <1>5, LenProperties DEF HandleWrite, WritePending, TypeOK
  <2>3. \A d \in Conns : completed'[d] <= Len(written'[d])
    <3> TAKE d \in Conns
    <3>1. written[d] \in Seq(Messages) /\ written'[d] \in Seq(Messages)
      BY <2>1 DEF TypeOK
    <3>2. Len(written[d]) \in Nat /\ Len(written'[d]) \in Nat /\ completed'[d] \in Nat
      BY <2>2, <3>1, LenProperties
    <3>3. completed'[d] <= Len(written[d]) /\ Len(written[d]) <= Len(written'[d])
      BY <2>1, <2>2
    <3> QED  BY <3>2, <3>3
  <2>4. reads' \in [Conns -> Nat]
    BY <1>5 DEF HandleWrite, StartRead, TypeOK
  <2>5. Maps'
    BY <1>5, MapsKept DEF HandleWrite
  <2> QED  BY <1>5, <2>1, <2>2, <2>3, <2>4, <2>5 DEF HandleWrite, TypeOK, Maps, replies
<1>6. ASSUME NEW c \in Conns, HandleAccept(c) PROVE TypeOK'
  <2>1. IsMap(Insert(unregistred, remote[c], c))
    BY MapChanged DEF TypeOK
  <2>2. Maps'
    BY <1>6, <2>1 DEF HandleAccept, TypeOK, Maps, IsMap
  <2> QED  BY <1>6, <2>2 DEF HandleAccept, StartRead, TypeOK, Maps, Links, wire, replies
<1>7. ASSUME NEW c \in Conns, AcceptFails(c) \/ Throw(c) PROVE TypeOK'
  <2>1. Maps'
    BY <1>7, MapsKept DEF AcceptFails, Throw
  <2> QED  BY <1>7, <2>1 DEF AcceptFails, Throw, TypeOK, Maps, wire, replies
<1>8. ASSUME NEW c \in Conns, PeerEnds(c) PROVE TypeOK'
  <2>1. Maps'
    BY <1>8, MapsKept DEF PeerEnds
  <2> QED  BY <1>8, <2>1 DEF PeerEnds, TypeOK, Maps, Links, wire, replies
<1>9. CASE UNCHANGED vars
  <2>1. Maps'
    BY <1>9, MapsKept DEF vars
  <2> QED  BY <1>9, <2>1 DEF vars, wire, replies, TypeOK, Maps
<1> QED
  BY <1>1, <1>2, <1>3, <1>4, <1>5, <1>6, <1>7, <1>8, <1>9 DEF Next

(* Every variable of the node keeps its type, and no write completes more    *)
(* often than it was started, whatever the peers send and in whatever order  *)
(* the handlers run.                                                         *)
THEOREM TypeCorrect == Spec => []TypeOK
BY TypeInit, TypeStep, PTL DEF Spec

-----------------------------------------------------------------------------
(* The wire of an acknowledged connection: the handshake, then the replies   *)
(* held back from the last to the first, then the later ones in order.       *)
Hello == <<WhoAmI, WhoAmIAck>>
AckWire(w, held, later) == w = Hello \o Reverse(held) \o later

\* An empty queue is flushed as nothing.
LEMMA ReverseEmpty == Reverse(<<>>) = <<>>
<1>1. Reverse(<<>>) \in Seq({}) /\ Len(Reverse(<<>>)) = 0
  BY ReverseType, EmptySeq
<1> QED  BY <1>1, EmptySeq

\* The two handshake messages of one side are messages, and two.
LEMMA HelloType == Hello \in Seq(Messages) /\ Len(Hello) = 2
BY MessageTypes DEF Hello

(* The replies, as they stand or turned round, are messages.                 *)
LEMMA RepliesType ==
  ASSUME NEW r \in Seq(GetDatas)
  PROVE  r \in Seq(Messages) /\ Reverse(r) \in Seq(Messages)
<1>1. r \in Seq(Messages)
  BY MessageTypes, SeqMonotonic
<1> QED  BY <1>1, ReverseType

(* The flush that ends the handshake puts every reply on the wire.           *)
LEMMA AckWireStart ==
  ASSUME NEW held \in Seq(GetDatas)
  PROVE  AckWire(Hello \o Reverse(held), held, <<>>)
<1>1. Hello \o Reverse(held) \in Seq(Messages)
  BY RepliesType, HelloType, ConcatProperties
<1>2. Hello \o Reverse(held) \o <<>> = Hello \o Reverse(held)
  BY <1>1, ConcatEmptySeq
<1> QED  BY <1>2 DEF AckWire

(* A reply built after the handshake is appended to both sides.              *)
LEMMA AckWireAppend ==
  ASSUME NEW w, NEW held \in Seq(GetDatas), NEW later \in Seq(GetDatas),
         NEW x \in GetDatas, AckWire(w, held, later)
  PROVE  AckWire(w \o <<x>>, held, Append(later, x))
<1> DEFINE front == Hello \o Reverse(held)
<1>1. front \in Seq(Messages)
  BY HelloType, RepliesType, ConcatProperties
<1>2. later \in Seq(Messages) /\ <<x>> \in Seq(Messages)
  BY RepliesType, MessageTypes
<1> HIDE DEF front
<1>3. (front \o later) \o <<x>> = front \o (later \o <<x>>)
  BY <1>1, <1>2, ConcatAssociative
<1>4. w = front \o later
  BY DEF AckWire, front
<1>5. w \o <<x>> = front \o Append(later, x)
  BY <1>3, <1>4, AppendIsConcat
<1> QED  BY <1>5 DEF AckWire, front

(* The handshake messages stay in front.                                     *)
LEMMA AckWireFront ==
  ASSUME NEW w, NEW held \in Seq(GetDatas), NEW later \in Seq(GetDatas),
         AckWire(w, held, later)
  PROVE  w \in Seq(Messages) /\ Len(w) >= 2 /\ SubSeq(w, 1, 2) = Hello
<1> DEFINE turned == Reverse(held)
<1>1. turned \in Seq(Messages) /\ later \in Seq(Messages)
  BY RepliesType
<1> DEFINE rest == turned \o later
<1>2. rest \in Seq(Messages) /\ Len(rest) \in Nat
  BY <1>1, ConcatProperties, LenProperties
<1>3. w = Hello \o rest
  <2>1. w = (Hello \o turned) \o later
    BY DEF AckWire
  <2>2. \A s, t, u \in Seq(Messages) : (s \o t) \o u = s \o (t \o u)
    BY ConcatAssociative
  <2> HIDE DEF turned
  <2> QED  BY <1>1, <2>1, <2>2, HelloType
<1> HIDE DEF rest
<1>4. Hello \o rest \in Seq(Messages) /\ Len(Hello \o rest) = Len(Hello) + Len(rest)
  BY <1>2, HelloType, ConcatProperties
<1>5. SubSeq(Hello \o rest, 1, 2) = SubSeq(Hello, 1, 2)
  <2>1. 1 \in 1 .. Len(Hello) /\ 2 \in 1 .. Len(Hello)
    BY HelloType
  <2> QED  BY <1>2, <2>1, HelloType, SubSeqOfConcat1
<1>6. SubSeq(Hello, 1, 2) = Hello
  BY HelloType, SubSeqFull
<1> QED  BY <1>2, <1>3, <1>4, <1>5, <1>6, HelloType

-----------------------------------------------------------------------------
(* The inductive form of HandshakeFirst and RepliesKept, connection by       *)
(* connection.                                                               *)
WireAt(c) ==
  IF status[c] = "Ack"
  THEN bufferedMessages[c] = <<>> /\ AckWire(written[c], heldBack[c], answered[c])
  ELSE /\ written[c] = Greeting(c)
       /\ bufferedMessages[c] = heldBack[c] /\ answered[c] = <<>>

WireInv == \A c \in Conns : WireAt(c)

\* The inductive form contains both invariants, connection by connection.
LEMMA WireInvImplies ==
  ASSUME TypeOK, WireInv PROVE HandshakeFirst /\ RepliesKept
<1> SUFFICES ASSUME NEW c \in Conns
             PROVE  /\ IF status[c] = "Ack"
                       THEN Len(written[c]) >= 2 /\ SubSeq(written[c], 1, 2) = Greeting(c)
                       ELSE written[c] = Greeting(c)
                    /\ IF status[c] = "Ack"
                       THEN /\ bufferedMessages[c] = <<>>
                            /\ written[c] = Greeting(c) \o Reverse(heldBack[c]) \o answered[c]
                       ELSE bufferedMessages[c] = heldBack[c] /\ answered[c] = <<>>
  BY DEF HandshakeFirst, RepliesKept
<1>1. CASE status[c] = "Ack"
  <2>1. Greeting(c) = Hello
    BY <1>1 DEF Greeting, Hello
  <2>2. bufferedMessages[c] = <<>> /\ AckWire(written[c], heldBack[c], answered[c])
    BY <1>1 DEF WireInv, WireAt
  <2>3. Len(written[c]) >= 2 /\ SubSeq(written[c], 1, 2) = Hello
    BY <2>2, AckWireFront DEF TypeOK
  <2> QED  BY <1>1, <2>1, <2>2, <2>3 DEF AckWire
<1>2. CASE status[c] # "Ack"
  BY <1>2 DEF WireInv, WireAt
<1> QED  BY <1>1, <1>2

(* A handler of c leaves the other connections as they are.                  *)
LEMMA WireFrame ==
  ASSUME WireInv, NEW c \in Conns, NEW d \in Conns,
         status'[d] = status[d], written'[d] = written[d],
         bufferedMessages'[d] = bufferedMessages[d],
         heldBack'[d] = heldBack[d], answered'[d] = answered[d]
  PROVE  WireAt(d)'
BY DEF WireInv, WireAt, Greeting

(* The step to Ack: what was left of the handshake, then the flush.          *)
LEMMA WireFlush ==
  ASSUME TypeOK, WireInv, NEW c \in Conns, NEW sent, Flush(c, sent),
         written[c] \o sent = Hello, bufferedMessages[c] = heldBack[c],
         answered[c] = <<>>, status'[c] = "Ack",
         heldBack' = heldBack, answered' = answered
  PROVE  WireAt(c)'
<1>1. /\ written'[c] = Hello \o Reverse(heldBack[c])
      /\ bufferedMessages'[c] = <<>>
  BY DEF Flush, TypeOK
<1>2. AckWire(Hello \o Reverse(heldBack[c]), heldBack[c], <<>>)
  BY AckWireStart DEF TypeOK
<1>3. AckWire(written'[c], heldBack'[c], answered'[c])
  BY <1>1, <1>2
<1> QED  BY <1>1, <1>3 DEF WireAt

(* Nothing waits once a connection is acknowledged: Flush writes only what   *)
(* the handler itself sends.                                                 *)
LEMMA WireSend ==
  ASSUME TypeOK, WireInv, NEW c \in Conns, NEW sent \in Seq(Messages), Flush(c, sent),
         status[c] = "Ack"
  PROVE  written'[c] = written[c] \o sent /\ bufferedMessages'[c] = <<>>
<1>1. bufferedMessages[c] = <<>>
  BY DEF WireInv, WireAt
<1>2. written'[c] = (written[c] \o sent) \o Reverse(<<>>) /\ bufferedMessages'[c] = <<>>
  BY <1>1 DEF Flush, TypeOK
<1>3. (written[c] \o sent) \o <<>> = written[c] \o sent
  BY ConcatProperties, ConcatEmptySeq DEF TypeOK
<1> QED  BY <1>2, <1>3, ReverseEmpty

\* After the handshake nothing waits, so the idle() of a silent handler writes
\* nothing: on every connection the queue and the wire stay as they are.
LEMMA WireKeep ==
  ASSUME TypeOK, WireInv, NEW c \in Conns, Idling(c)
  PROVE  \A d \in Conns : written'[d] = written[d] /\ bufferedMessages'[d] = bufferedMessages[d]
<1>1. CASE status[c] = "Ack"
  <2>1. Flush(c, <<>>)
    BY <1>1 DEF Idling
  <2>2. written'[c] = written[c] \o <<>> /\ bufferedMessages'[c] = <<>>
    BY <1>1, <2>1, MessageTypes, WireSend
  <2>3. written[c] \o <<>> = written[c]
    BY ConcatEmptySeq DEF TypeOK
  <2>4. bufferedMessages[c] = <<>>
    BY <1>1 DEF WireInv, WireAt
  <2> QED  BY <2>1, <2>2, <2>3, <2>4 DEF Flush, TypeOK
<1>2. CASE status[c] # "Ack"
  BY <1>2 DEF Idling, wire
<1> QED  BY <1>1, <1>2

\* updateStatus keeps the wire in step with the status, case by case: each
\* status writes its own part of the greeting, the last one the queue.
LEMMA WireUpdate ==
  ASSUME TypeOK, WireInv, NEW c \in Conns, NEW version \in Int, NEW type \in PeerTypes,
         UpdateStatus(c, version, type),
         heldBack' = heldBack, answered' = answered
  PROVE  WireInv'
<1> DEFINE settled == IF peerType[c] = "peer" THEN type ELSE peerType[c]
<1>1. ASSUME NEW d \in Conns, d # c PROVE WireAt(d)'
  <2>1. status'[d] = status[d] /\ written'[d] = written[d]
        /\ bufferedMessages'[d] = bufferedMessages[d]
    BY <1>1 DEF TypeOK, UpdateStatus, FromIdle, FromWaitingAck, FromInitiated, FromWaiting,
                FromAck, Flush, wire
  <2> QED  BY <2>1, WireFrame
<1>2. CASE FromIdle(c, version)
  <2>1. written[c] = <<>> /\ bufferedMessages[c] = heldBack[c] /\ answered[c] = <<>>
    BY <1>2 DEF FromIdle, WireInv, WireAt, Greeting
  <2>2. status'[c] = "WaitingAck" /\ written'[c] = <<>> \o Hello
        /\ bufferedMessages'[c] = heldBack'[c] /\ answered'[c] = <<>>
    BY <1>2, <2>1 DEF FromIdle, TypeOK, Hello
  <2>3. <<>> \o Hello = Hello
    BY HelloType, ConcatEmptySeq
  <2>4. WireAt(c)'
    BY <2>2, <2>3 DEF WireAt, Greeting, Hello
  <2> QED  BY <1>1, <2>4 DEF WireInv
<1>3. CASE FromWaitingAck(c, version, settled)
  <2>1. written[c] = Hello /\ bufferedMessages[c] = heldBack[c] /\ answered[c] = <<>>
    BY <1>3 DEF FromWaitingAck, WireInv, WireAt, Greeting, Hello
  <2>2. status'[c] = "Ack" /\ Flush(c, <<>>)
    BY <1>3 DEF FromWaitingAck, TypeOK
  <2>3. written[c] \o <<>> = Hello
    BY <2>1, HelloType, ConcatEmptySeq
  <2>4. WireAt(c)'
    BY <2>1, <2>2, <2>3, WireFlush
  <2> QED  BY <1>1, <2>4 DEF WireInv
<1>4. CASE FromInitiated(c)
  <2>1. status'[c] = "Waiting" /\ status[c] = "Initiated"
        /\ written' = written /\ bufferedMessages' = bufferedMessages
    BY <1>4 DEF FromInitiated, TypeOK, wire
  <2>2. WireAt(c)'
    BY <2>1 DEF WireInv, WireAt, Greeting
  <2> QED  BY <1>1, <2>2 DEF WireInv
<1>5. CASE FromWaiting(c, version, settled)
  <2>1. written[c] = <<WhoAmI>> /\ bufferedMessages[c] = heldBack[c] /\ answered[c] = <<>>
    BY <1>5 DEF FromWaiting, WireInv, WireAt, Greeting
  <2>2. status'[c] = "Ack" /\ Flush(c, <<WhoAmIAck>>)
    BY <1>5 DEF FromWaiting, TypeOK
  <2>3. written[c] \o <<WhoAmIAck>> = Hello
    <3>1. /\ <<WhoAmI>> \o <<WhoAmIAck>> \in Seq(Messages)
          /\ Len(<<WhoAmI>> \o <<WhoAmIAck>>) = 2
          /\ (<<WhoAmI>> \o <<WhoAmIAck>>)[1] = WhoAmI
          /\ (<<WhoAmI>> \o <<WhoAmIAck>>)[2] = WhoAmIAck
      BY MessageTypes, ConcatProperties
    <3>2. Hello[1] = WhoAmI /\ Hello[2] = WhoAmIAck
      BY DEF Hello
    <3> DEFINE both == <<WhoAmI>> \o <<WhoAmIAck>>
    <3> HIDE DEF both
    <3>3. \A i \in 1 .. 2 : both[i] = Hello[i]
      BY <3>1, <3>2 DEF both
    <3>4. both \in Seq(Messages) /\ Len(both) = Len(Hello)
      BY <3>1, HelloType DEF both
    <3>5. both = Hello
      BY <3>3, <3>4, HelloType, SeqEqual
    <3> QED  BY <2>1, <3>5 DEF both
  <2>4. WireAt(c)'
    BY <2>1, <2>2, <2>3, WireFlush
  <2> QED  BY <1>1, <2>4 DEF WireInv
<1>6. CASE FromAck(c)
  <2>1. status[c] = "Ack" /\ status' = status /\ Flush(c, <<>>)
    BY <1>6 DEF FromAck
  <2>2. \A d \in Conns : written'[d] = written[d] /\ bufferedMessages'[d] = bufferedMessages[d]
    BY <2>1, WireKeep DEF Idling
  <2>3. \A d \in Conns : WireAt(d)'
    BY <2>1, <2>2, WireFrame
  <2> QED  BY <2>3 DEF WireInv
<1> QED  BY <1>2, <1>3, <1>4, <1>5, <1>6 DEF UpdateStatus

\* The bound connections have written their WhoAmI, the others nothing.
LEMMA WireInit == Init => WireInv
<1> SUFFICES ASSUME Init, NEW c \in Conns PROVE WireAt(c)
  BY DEF WireInv
<1> QED  BY DEF Init, WireAt, Greeting

\* Every handler keeps what is written in step with the status and the replies.
LEMMA WireStep == TypeOK /\ WireInv /\ [Next]_vars => WireInv'
<1> SUFFICES ASSUME TypeOK, WireInv, [Next]_vars PROVE WireInv'
  OBVIOUS
<1>1. ASSUME NEW c \in Conns, OnWhoAmI(c) PROVE WireInv'
  <2>1. PICK version \in Int, type \in PeerTypes : UpdateStatus(c, version, type)
    BY <1>1, VersionsAssumption DEF OnWhoAmI, ReceiveWhoAmI, Readable, PeerTypes
  <2>2. heldBack' = heldBack /\ answered' = answered
    BY <1>1 DEF OnWhoAmI, ReceiveWhoAmI, replies
  <2> QED  BY <2>1, <2>2, WireUpdate
<1>2. ASSUME NEW c \in Conns, OnWhoAmIAck(c) PROVE WireInv'
  <2>1. UpdateStatus(c, 0, "peer") /\ "peer" \in PeerTypes
        /\ heldBack' = heldBack /\ answered' = answered
    BY <1>2 DEF OnWhoAmIAck, PeerTypes, replies
  <2> QED  BY <2>1, WireUpdate
<1>3. ASSUME NEW c \in Conns, OnInv(c) PROVE WireInv'
  <2>1. PICK inv \in Invs \cup {Blank} :
          LET reply == GetData(Unknown(inv))
          IN  IF status[c] = "Ack"
              THEN /\ Flush(c, <<reply>>)
                   /\ answered' = [answered EXCEPT ![c] = Append(@, reply)]
                   /\ UNCHANGED heldBack
              ELSE /\ bufferedMessages' = [bufferedMessages EXCEPT ![c] = Append(@, reply)]
                   /\ heldBack' = [heldBack EXCEPT ![c] = Append(@, reply)]
                   /\ UNCHANGED <<written, answered>>
    BY <1>3 DEF OnInv, ReceiveInv, Readable
  <2> DEFINE reply == GetData(Unknown(inv))
  <2>2. reply \in GetDatas
    BY DEF GetDatas
  <2>3. status' = status
        /\ \A d \in Conns : d # c => heldBack'[d] = heldBack[d] /\ answered'[d] = answered[d]
    BY <1>3, <2>1 DEF OnInv, ReceiveInv, TypeOK
  <2>4. (status[c] = "Ack" =>
           /\ Flush(c, <<reply>>)
           /\ heldBack'[c] = heldBack[c] /\ answered'[c] = Append(answered[c], reply))
        /\ (status[c] # "Ack" =>
              /\ bufferedMessages' = [bufferedMessages EXCEPT ![c] = Append(@, reply)]
              /\ heldBack'[c] = Append(heldBack[c], reply) /\ answered'[c] = answered[c]
              /\ written' = written)
    BY <2>1 DEF TypeOK
  <2> HIDE DEF reply
  <2>5. ASSUME NEW d \in Conns, d # c PROVE WireAt(d)'
    <3>1. written'[d] = written[d] /\ bufferedMessages'[d] = bufferedMessages[d]
      BY <2>4, <2>5 DEF Flush, TypeOK
    <3> QED  BY <2>3, <2>5, <3>1, WireFrame
  <2>6. CASE status[c] = "Ack"
    <3>1. written'[c] = written[c] \o <<reply>> /\ bufferedMessages'[c] = <<>>
      BY <2>2, <2>4, <2>6, MessageTypes, WireSend
    <3>2. AckWire(written[c], heldBack[c], answered[c])
      BY <2>6 DEF WireInv, WireAt
    <3>3. AckWire(written[c] \o <<reply>>, heldBack[c], Append(answered[c], reply))
      BY <2>2, <3>2, AckWireAppend DEF TypeOK
    <3>4. AckWire(written'[c], heldBack'[c], answered'[c])
      BY <2>4, <2>6, <3>1, <3>3
    <3>5. WireAt(c)'
      BY <2>3, <2>6, <3>1, <3>4 DEF WireAt
    <3> QED  BY <2>5, <3>5 DEF WireInv
  <2>7. CASE status[c] # "Ack"
    <3>1. bufferedMessages'[c] = Append(bufferedMessages[c], reply) /\ written' = written
      BY <2>4, <2>7 DEF TypeOK
    <3>2. WireAt(c)'
      BY <2>3, <2>4, <2>7, <3>1 DEF WireInv, WireAt, Greeting
    <3> QED  BY <2>5, <3>2 DEF WireInv
  <2> QED  BY <2>6, <2>7
<1>4. ASSUME NEW c \in Conns, OnUnknown(c) \/ HandleWrite(c) PROVE WireInv'
  <2>1. Idling(c) /\ status' = status
        /\ heldBack' = heldBack /\ answered' = answered
    BY <1>4 DEF OnUnknown, HandleWrite, replies
  <2>2. \A d \in Conns : WireAt(d)'
    BY <2>1, WireKeep, WireFrame
  <2> QED  BY <2>2 DEF WireInv
<1>5. ASSUME NEW c \in Conns,
             HandleAccept(c) \/ AcceptFails(c) \/ Throw(c) \/ PeerEnds(c)
      PROVE  WireInv'
  <2>1. status' = status /\ heldBack' = heldBack /\ answered' = answered
        /\ written' = written /\ bufferedMessages' = bufferedMessages
    BY <1>5 DEF HandleAccept, AcceptFails, Throw, PeerEnds, wire, replies
  <2>2. \A d \in Conns : WireAt(d)'
    BY <2>1, WireFrame
  <2> QED  BY <2>2 DEF WireInv
<1>6. CASE UNCHANGED vars
  BY <1>6 DEF vars, wire, replies, WireInv, WireAt, Greeting
<1> QED
  BY <1>1, <1>2, <1>3, <1>4, <1>5, <1>6 DEF Next

(* In every behaviour, for every number of connections and of messages: the  *)
(* handshake messages of a connection come first on its wire, once each and  *)
(* in order (sendMessage, updateStatus).                                     *)
THEOREM HandshakeFirstHolds == Spec => []HandshakeFirst
<1>1. Spec => [](TypeOK /\ WireInv)
  BY TypeInit, TypeStep, WireInit, WireStep, PTL DEF Spec
<1>2. TypeOK /\ WireInv => HandshakeFirst
  BY WireInvImplies
<1> QED  BY <1>1, <1>2, PTL

(* No reply of onInv is lost, duplicated or overtaken but by the one         *)
(* last-to-first flush at the end of the handshake (sendMessage, idle).      *)
THEOREM RepliesKeptHolds == Spec => []RepliesKept
<1>1. Spec => [](TypeOK /\ WireInv)
  BY TypeInit, TypeStep, WireInit, WireStep, PTL DEF Spec
<1>2. TypeOK /\ WireInv => RepliesKept
  BY WireInvImplies
<1> QED  BY <1>1, <1>2, PTL

-----------------------------------------------------------------------------
(* The registry.                                                             *)
\* A connection that is not accepted yet has handled nothing.
Unlinked == \A c \in Conns : link[c] = "none" => status[c] = "Idle"

\* How connections may change while the registry stays or gains c: one that is
\* linked stays so, one that is registered keeps its status and type.
Steady ==
  /\ remote' = remote
  /\ \A d \in Conns : link[d] # "none" => link'[d] # "none"
  /\ \A d \in Conns, t \in PeerTypes \ {"peer"} : Registered(d, t) => Registered(d, t)'

\* What the registry holds, as long as no entry changes.
LEMMA ShapeKept ==
  ASSUME TypeOK, RegistryShape, Steady, UNCHANGED registry,
         \A d \in Conns : link'[d] # "none" => link[d] # "none"
  PROVE  RegistryShape'
<1> USE DEF registry
<1>1. Entries'
  BY DEF RegistryShape, Entries, TypeOK, IsMap, Steady
<1>2. /\ \A key \in DOMAIN connectedNodes' : Registered(connectedNodes[key], "nodepeer")'
      /\ \A key \in DOMAIN connectedRelays' : Registered(connectedRelays[key], "relaypeer")'
  BY DEF RegistryShape, TypeOK, IsMap, Steady, PeerTypes
<1>3. EndpointsKnown'
  BY DEF RegistryShape, EndpointsKnown, Steady, PeerTypes
<1>4. ASSUME NEW c \in Conns, link'[c] # "none", Alone(c)' PROVE InOneMap(c)'
  <2>1. link[c] # "none" /\ Alone(c)
    BY <1>4 DEF Alone, Steady
  <2>2. InOneMap(c)
    BY <2>1 DEF RegistryShape
  <2>3. /\ Holds(unregistred, c)' <=> Holds(unregistred, c)
        /\ Holds(connectedNodes, c)' <=> Holds(connectedNodes, c)
        /\ Holds(connectedRelays, c)' <=> Holds(connectedRelays, c)
    BY DEF Holds, Steady
  <2>4. Registered(c, "walletpeer") => Registered(c, "walletpeer")'
    BY DEF Steady, PeerTypes
  <2> QED  BY <2>2, <2>3, <2>4 DEF InOneMap
<1> QED  BY <1>1, <1>2, <1>3, <1>4 DEF RegistryShape

\* What a step to Ack finds: c is not registered, and no connection of its
\* endpoint is if it is alone.
LEMMA NotYetRegistered ==
  ASSUME TypeOK, RegistryShape, NEW c \in Conns, status[c] # "Ack"
  PROVE  /\ ~Holds(connectedNodes, c) /\ ~Holds(connectedRelays, c)
         /\ link[c] # "none" /\ Alone(c) => Holds(unregistred, c)
         /\ Alone(c) => /\ remote[c] \notin DOMAIN connectedNodes
                        /\ remote[c] \notin DOMAIN connectedRelays
<1>1. ~Holds(connectedNodes, c) /\ ~Holds(connectedRelays, c)
  BY DEF RegistryShape, Registered, Holds
<1>2. link[c] # "none" /\ Alone(c) => Holds(unregistred, c)
  BY <1>1 DEF RegistryShape, InOneMap, Registered
<1>3. ASSUME Alone(c), NEW map \in {connectedNodes, connectedRelays}, remote[c] \in DOMAIN map
      PROVE  FALSE
  <2>1. map[remote[c]] \in Conns /\ remote[map[remote[c]]] = remote[c]
        /\ link[map[remote[c]]] # "none"
    BY <1>3 DEF RegistryShape, Entries, TypeOK, IsMap
  <2>2. map[remote[c]] = c
    BY <1>3, <2>1 DEF Alone
  <2> QED  BY <1>1, <1>3, <2>2 DEF Holds
<1> QED  BY <1>1, <1>2, <1>3

(* The step to Ack: c takes the entry of its endpoint out of unregistred,    *)
(* whosever it is, and its own place where that is free.                     *)
LEMMA ShapeRegistered ==
  ASSUME TypeOK, RegistryShape, Steady, link' = link,
         NEW c \in Conns, NEW type \in PeerTypes, link[c] # "none", status[c] # "Ack",
         status'[c] = "Ack", peerType'[c] = type, RegisterConnection(c, type)
  PROVE  RegistryShape'
<1>1. CASE UNCHANGED registry
  BY <1>1, ShapeKept
<1>2. CASE /\ type # "peer" /\ remote[c] \in DOMAIN unregistred
           /\ connectedNodes' = InsertIf(type = "nodepeer", connectedNodes, remote[c], c)
           /\ connectedRelays' = InsertIf(type = "relaypeer", connectedRelays, remote[c], c)
           /\ unregistred' = Erase(unregistred, remote[c])
  <2>1. /\ DOMAIN unregistred' = DOMAIN unregistred \ {remote[c]}
        /\ \A k \in DOMAIN unregistred' : unregistred'[k] = unregistred[k]
    BY <1>2 DEF Erase
  <2>2. /\ DOMAIN connectedNodes \subseteq DOMAIN connectedNodes'
        /\ \A k \in DOMAIN connectedNodes : connectedNodes'[k] = connectedNodes[k]
        /\ \A k \in DOMAIN connectedNodes' \ DOMAIN connectedNodes :
             k = remote[c] /\ connectedNodes'[k] = c /\ type = "nodepeer"
        /\ type = "nodepeer" => remote[c] \in DOMAIN connectedNodes'
    BY <1>2 DEF InsertIf, Insert
  <2>3. /\ DOMAIN connectedRelays \subseteq DOMAIN connectedRelays'
        /\ \A k \in DOMAIN connectedRelays : connectedRelays'[k] = connectedRelays[k]
        /\ \A k \in DOMAIN connectedRelays' \ DOMAIN connectedRelays :
             k = remote[c] /\ connectedRelays'[k] = c /\ type = "relaypeer"
        /\ type = "relaypeer" => remote[c] \in DOMAIN connectedRelays'
    BY <1>2 DEF InsertIf, Insert
  <2>4. Registered(c, type)'
    BY DEF Registered
  <2>5. Entries'
    <3>1. ASSUME NEW map \in {unregistred, connectedNodes, connectedRelays}, NEW key \in DOMAIN map
          PROVE  map[key] \in Conns /\ remote'[map[key]] = key /\ link'[map[key]] # "none"
      BY DEF RegistryShape, Entries, TypeOK, IsMap, Steady
    <3> QED  BY <2>1, <2>2, <2>3, <3>1 DEF Entries, Steady
  <2>6. /\ \A key \in DOMAIN connectedNodes' : Registered(connectedNodes[key], "nodepeer")'
        /\ \A key \in DOMAIN connectedRelays' : Registered(connectedRelays[key], "relaypeer")'
    BY <2>2, <2>3, <2>4 DEF RegistryShape, TypeOK, IsMap, Steady, PeerTypes
  <2>7. EndpointsKnown'
    <3> SUFFICES ASSUME NEW d \in Conns, link'[d] # "none"
                 PROVE  \/ remote'[d] \in DOMAIN unregistred' \cup DOMAIN connectedNodes'
                                            \cup DOMAIN connectedRelays'
                        \/ \E w \in Conns : remote'[w] = remote'[d] /\ Registered(w, "walletpeer")'
      BY DEF EndpointsKnown
    <3>1. CASE remote[d] = remote[c]
      BY <1>2, <2>2, <2>3, <2>4, <3>1 DEF Steady, PeerTypes
    <3>2. CASE remote[d] # remote[c]
      BY <2>1, <2>2, <2>3, <3>2 DEF RegistryShape, EndpointsKnown, Steady, PeerTypes
    <3> QED  BY <3>1, <3>2
  <2>8. ASSUME NEW d \in Conns, link'[d] # "none", Alone(d)' PROVE InOneMap(d)'
    <3>1. link[d] # "none" /\ Alone(d)
      BY <2>8 DEF Alone, Steady
    <3>2. CASE d = c
      <4>1. remote[c] \notin DOMAIN connectedNodes /\ remote[c] \notin DOMAIN connectedRelays
        BY <3>1, <3>2, NotYetRegistered
      <4>2. ~Holds(unregistred, c)'
        BY <2>1 DEF Holds, Steady
      <4>3. type = "nodepeer" => Holds(connectedNodes, c)'
        BY <2>2, <4>1 DEF Holds, Steady
      <4>4. type = "relaypeer" => Holds(connectedRelays, c)'
        BY <2>3, <4>1 DEF Holds, Steady
      <4> QED  BY <1>2, <2>4, <3>2, <4>2, <4>3, <4>4 DEF InOneMap, PeerTypes
    <3>3. CASE d # c
      <4>1. remote[d] # remote[c]
        BY <3>1, <3>3 DEF Alone
      <4>2. /\ Holds(unregistred, d)' <=> Holds(unregistred, d)
            /\ Holds(connectedNodes, d)' <=> Holds(connectedNodes, d)
            /\ Holds(connectedRelays, d)' <=> Holds(connectedRelays, d)
        BY <2>1, <2>2, <2>3, <4>1 DEF Holds, Steady
      <4>3. InOneMap(d)
        BY <3>1 DEF RegistryShape
      <4>4. Registered(d, "walletpeer") => Registered(d, "walletpeer")'
        BY DEF Steady, PeerTypes
      <4> QED  BY <4>2, <4>3, <4>4 DEF InOneMap
    <3> QED  BY <3>2, <3>3
  <2> QED  BY <2>5, <2>6, <2>7, <2>8 DEF RegistryShape
<1> QED  BY <1>1, <1>2 DEF RegisterConnection

(* updateStatus moves a connection in the registry at most once, with the    *)
(* step to Ack.                                                              *)
LEMMA UpdateSteady ==
  ASSUME TypeOK, NEW c \in Conns, NEW version, NEW type \in PeerTypes,
         UpdateStatus(c, version, type), UNCHANGED <<link, remote>>
  PROVE  /\ Steady
         /\ \/ UNCHANGED registry
            \/ /\ status[c] # "Ack" /\ status'[c] = "Ack"
               /\ \E t \in PeerTypes : peerType'[c] = t /\ RegisterConnection(c, t)
<1> DEFINE settled == IF peerType[c] = "peer" THEN type ELSE peerType[c]
<1>1. peerType' = [peerType EXCEPT ![c] = settled] /\ settled \in PeerTypes
  BY DEF UpdateStatus, TypeOK
<1>2. /\ \E s \in Statuses : status' = [status EXCEPT ![c] = s]
      /\ status[c] = "Ack" => status' = status
      /\ \/ UNCHANGED registry
         \/ status[c] # "Ack" /\ status'[c] = "Ack" /\ RegisterConnection(c, settled)
  BY DEF UpdateStatus, FromIdle, FromWaitingAck, FromInitiated, FromWaiting, FromAck, TypeOK,
         Statuses
<1>3. ASSUME NEW d \in Conns, NEW t \in PeerTypes \ {"peer"}, Registered(d, t)
      PROVE  Registered(d, t)'
  BY <1>1, <1>2, <1>3 DEF Registered, TypeOK
<1>4. Steady
  BY <1>3 DEF Steady
<1>5. peerType'[c] = settled
  BY <1>1 DEF TypeOK
<1> QED  BY <1>1, <1>2, <1>4, <1>5

\* Node's constructor leaves the endpoints of the bound connections in
\* unregistred.
LEMMA RegistryInit == Init => RegistryShape /\ Unlinked
<1> SUFFICES ASSUME Init PROVE RegistryShape /\ Unlinked
  OBVIOUS
<1>1. \A c \in Conns : link[c] # "none" <=> c \in Outbound
  BY DEF Init
<1>2. /\ DOMAIN unregistred = {remote[c] : c \in Outbound}
      /\ \A key \in DOMAIN unregistred :
           unregistred[key] \in Outbound /\ remote[unregistred[key]] = key
      /\ DOMAIN connectedNodes = {} /\ DOMAIN connectedRelays = {}
  BY DEF Init, NoEntry
<1>3. Entries /\ EndpointsKnown
  BY <1>1, <1>2, OutboundAssumption DEF Entries, EndpointsKnown
<1>4. \A c \in Conns : link[c] # "none" /\ Alone(c) => InOneMap(c)
  BY <1>1, <1>2, OutboundAssumption DEF Alone, InOneMap, Holds
<1> QED  BY <1>1, <1>2, <1>3, <1>4 DEF RegistryShape, Unlinked, Init

(* An acceptance puts the connection in, unless its endpoint is there.       *)
LEMMA ShapeAccepted ==
  ASSUME TypeOK, RegistryShape, NEW c \in Conns, HandleAccept(c)
  PROVE  RegistryShape'
<1>1. /\ link[c] = "none" /\ link' = [link EXCEPT ![c] = "open"]
      /\ UNCHANGED <<remote, status, peerType, connectedNodes, connectedRelays>>
      /\ unregistred' = Insert(unregistred, remote[c], c)
  BY DEF HandleAccept
<1>2. Steady /\ \A d \in Conns : d # c => (link'[d] # "none" <=> link[d] # "none")
  BY <1>1 DEF Steady, TypeOK, Registered
<1>3. /\ DOMAIN unregistred' = DOMAIN unregistred \cup {remote[c]}
      /\ \A k \in DOMAIN unregistred : unregistred'[k] = unregistred[k]
      /\ remote[c] \notin DOMAIN unregistred => unregistred'[remote[c]] = c
  BY <1>1 DEF Insert
<1>4. ASSUME NEW map \in {unregistred, connectedNodes, connectedRelays}, NEW key \in DOMAIN map
      PROVE  map[key] \in Conns /\ remote[map[key]] = key /\ link[map[key]] # "none"
  BY DEF RegistryShape, Entries, TypeOK, IsMap
<1>5. Entries'
  <2>1. \A d \in Conns : d = c \/ link[d] # "none" => link'[d] # "none"
    BY <1>1 DEF TypeOK
  <2>2. ASSUME NEW key \in DOMAIN unregistred'
        PROVE  remote'[unregistred'[key]] = key /\ link'[unregistred'[key]] # "none"
    BY <1>1, <1>3, <1>4, <2>1
  <2> QED  BY <1>1, <1>4, <2>1, <2>2 DEF Entries
<1>6. /\ \A key \in DOMAIN connectedNodes' : Registered(connectedNodes[key], "nodepeer")'
      /\ \A key \in DOMAIN connectedRelays' : Registered(connectedRelays[key], "relaypeer")'
  BY <1>1 DEF RegistryShape, Registered
<1>7. EndpointsKnown'
  BY <1>1, <1>2, <1>3 DEF RegistryShape, EndpointsKnown, Steady, Registered
<1>8. ASSUME NEW d \in Conns, link'[d] # "none", Alone(d)' PROVE InOneMap(d)'
  <2>1. CASE d = c
    <3>1. ASSUME NEW map \in {unregistred, connectedNodes, connectedRelays},
                 remote[c] \in DOMAIN map
          PROVE  FALSE
      BY <1>1, <1>2, <1>4, <1>8, <2>1, <3>1 DEF Alone
    <3> QED  BY <1>1, <1>3, <2>1, <3>1 DEF InOneMap, Holds
  <2>2. CASE d # c
    <3>1. remote[d] # remote[c]
      BY <1>1, <1>8, <2>2 DEF Alone, TypeOK
    <3>2. InOneMap(d)
      BY <1>2, <1>8, <2>2 DEF RegistryShape, Alone, Steady
    <3>3. Holds(unregistred, d)' <=> Holds(unregistred, d)
      BY <1>1, <1>3, <3>1 DEF Holds
    <3> QED  BY <1>1, <3>2, <3>3 DEF InOneMap, Holds, Registered
  <2> QED  BY <2>1, <2>2
<1> QED  BY <1>5, <1>6, <1>7, <1>8 DEF RegistryShape

\* Only an acceptance and the step to Ack change a map.
LEMMA RegistryStep ==
  TypeOK /\ RegistryShape /\ Unlinked /\ [Next]_vars => RegistryShape' /\ Unlinked'
<1> SUFFICES ASSUME TypeOK, RegistryShape, Unlinked, [Next]_vars
             PROVE  RegistryShape' /\ Unlinked'
  OBVIOUS
<1>1. ASSUME NEW c \in Conns, OnWhoAmI(c) \/ OnWhoAmIAck(c) PROVE RegistryShape' /\ Unlinked'
  <2>1. PICK version \in Int, type \in PeerTypes : UpdateStatus(c, version, type)
    BY <1>1, VersionsAssumption DEF OnWhoAmI, ReceiveWhoAmI, Readable, OnWhoAmIAck, PeerTypes
  <2>2. UNCHANGED <<link, remote>> /\ link[c] # "none"
    BY <1>1 DEF OnWhoAmI, ReceiveWhoAmI, OnWhoAmIAck, Handles
  <2>3. RegistryShape'
    BY <2>1, <2>2, UpdateSteady, ShapeKept, ShapeRegistered
  <2>4. \A d \in Conns : d # c => status'[d] = status[d]
    BY <2>1 DEF UpdateStatus, FromIdle, FromWaitingAck, FromInitiated, FromWaiting, FromAck,
                TypeOK
  <2> QED  BY <2>2, <2>3, <2>4 DEF Unlinked
<1>2. ASSUME NEW c \in Conns,
             OnInv(c) \/ OnUnknown(c) \/ HandleWrite(c) \/ AcceptFails(c) \/ Throw(c)
      PROVE  RegistryShape' /\ Unlinked'
  <2>1. UNCHANGED <<link, remote, status, peerType, registry>>
    BY <1>2 DEF OnInv, ReceiveInv, OnUnknown, HandleWrite, AcceptFails, Throw
  <2> QED  BY <2>1, ShapeKept DEF Steady, Unlinked, Registered
<1>3. ASSUME NEW c \in Conns, HandleAccept(c) PROVE RegistryShape' /\ Unlinked'
  BY <1>3, ShapeAccepted DEF HandleAccept, Unlinked, TypeOK
<1>4. ASSUME NEW c \in Conns, PeerEnds(c) PROVE RegistryShape' /\ Unlinked'
  <2>1. UNCHANGED <<remote, status, peerType, registry>>
        /\ \A d \in Conns : link'[d] # "none" <=> link[d] # "none"
    BY <1>4 DEF PeerEnds, TypeOK
  <2> QED  BY <2>1, ShapeKept DEF Steady, Unlinked, Registered
<1>5. CASE UNCHANGED vars
  <2>1. UNCHANGED <<link, remote, status, peerType, registry>>
    BY <1>5 DEF vars
  <2> QED  BY <2>1, ShapeKept DEF Steady, Unlinked, Registered
<1> QED
  BY <1>1, <1>2, <1>3, <1>4, <1>5 DEF Next

(* For any number of connections, whichever of them share an endpoint: every *)
(* entry of the registry leads to a connection of its endpoint, only         *)
(* acknowledged ones of the right type are registered, no endpoint is lost,  *)
(* and a connection alone at its endpoint is in exactly one map or is a      *)
(* registered wallet (registerConnection, handleAccept).                     *)
THEOREM RegistryShapeHolds == Spec => []RegistryShape
<1>1. Spec => []TypeOK
  BY TypeCorrect
<1>2. Init => RegistryShape /\ Unlinked
  BY RegistryInit
<1>3. TypeOK /\ RegistryShape /\ Unlinked /\ [Next]_vars => RegistryShape' /\ Unlinked'
  BY RegistryStep
<1> QED  BY <1>1, <1>2, <1>3, PTL DEF Spec

\* A connection that is acknowledged gains no place, and loses at most its entry
\* in unregistred, to another of its endpoint.
Final(c) ==
  /\ status'[c] = "Ack"
  /\ Holds(connectedNodes', c) => Holds(connectedNodes, c)
  /\ Holds(connectedRelays', c) => Holds(connectedRelays, c)
  /\ Holds(unregistred', c) => Holds(unregistred, c)
  /\ Holds(unregistred, c) =>
       \/ Holds(unregistred', c)
       \/ \E d \in Conns \ {c} :
            remote[d] = remote[c] /\ status[d] # "Ack" /\ status'[d] = "Ack"

(* What every step does to acknowledged connections and to registered ones.  *)
LEMMA AckStep ==
  ASSUME TypeOK, Unlinked, [Next]_vars
  PROVE  /\ Keeps(connectedNodes, connectedNodes')
         /\ Keeps(connectedRelays, connectedRelays')
         /\ \A c \in Conns : status[c] = "Ack" => Final(c)
<1> DEFINE Goal == /\ Keeps(connectedNodes, connectedNodes')
                   /\ Keeps(connectedRelays, connectedRelays')
                   /\ \A c \in Conns : status[c] = "Ack" => Final(c)
<1>1. ASSUME UNCHANGED <<status, registry>> PROVE Goal
  BY <1>1 DEF Keeps, Final, registry
<1>2. ASSUME NEW c \in Conns, NEW version \in Int, NEW type \in PeerTypes,
             UpdateStatus(c, version, type)
      PROVE  Goal
  <2>1. /\ \A d \in Conns : d # c \/ status[c] = "Ack" => status'[d] = status[d]
        /\ \/ UNCHANGED registry
           \/ /\ status[c] # "Ack" /\ status'[c] = "Ack"
              /\ \E t \in PeerTypes : RegisterConnection(c, t)
    BY <1>2 DEF UpdateStatus, FromIdle, FromWaitingAck, FromInitiated, FromWaiting, FromAck,
                TypeOK, PeerTypes
  <2>2. CASE UNCHANGED registry
    BY <2>1, <2>2 DEF Keeps, Final, registry
  <2>3. CASE /\ status[c] # "Ack" /\ status'[c] = "Ack"
             /\ \E t \in PeerTypes :
                  /\ connectedNodes' = InsertIf(t = "nodepeer", connectedNodes, remote[c], c)
                  /\ connectedRelays' = InsertIf(t = "relaypeer", connectedRelays, remote[c], c)
             /\ unregistred' = Erase(unregistred, remote[c])
    <3>1. /\ Keeps(connectedNodes, connectedNodes')
          /\ \A k \in DOMAIN connectedNodes' : k \in DOMAIN connectedNodes \/ connectedNodes'[k] = c
      BY <2>3 DEF Keeps, InsertIf, Insert
    <3>2. /\ Keeps(connectedRelays, connectedRelays')
          /\ \A k \in DOMAIN connectedRelays' :
               k \in DOMAIN connectedRelays \/ connectedRelays'[k] = c
      BY <2>3 DEF Keeps, InsertIf, Insert
    <3>3. /\ DOMAIN unregistred' = DOMAIN unregistred \ {remote[c]}
          /\ \A k \in DOMAIN unregistred' : unregistred'[k] = unregistred[k]
      BY <2>3 DEF Erase
    <3>4. ASSUME NEW d \in Conns, status[d] = "Ack" PROVE Final(d)
      <4>1. d # c /\ status'[d] = "Ack"
        BY <2>1, <2>3, <3>4
      <4>2. /\ Holds(connectedNodes', d) => Holds(connectedNodes, d)
            /\ Holds(connectedRelays', d) => Holds(connectedRelays, d)
        BY <3>1, <3>2, <4>1 DEF Holds, Keeps
      <4>3. CASE remote[d] = remote[c]
        BY <2>3, <3>3, <4>1, <4>2, <4>3 DEF Final, Holds
      <4>4. CASE remote[d] # remote[c]
        BY <3>3, <4>1, <4>2, <4>4 DEF Final, Holds
      <4> QED  BY <4>3, <4>4
    <3> QED  BY <3>1, <3>2, <3>4
  <2> QED  BY <2>1, <2>2, <2>3 DEF RegisterConnection
<1>3. ASSUME NEW c \in Conns, OnWhoAmI(c) \/ OnWhoAmIAck(c)
      PROVE  \E version \in Int, type \in PeerTypes : UpdateStatus(c, version, type)
  BY <1>3, VersionsAssumption DEF OnWhoAmI, ReceiveWhoAmI, Readable, OnWhoAmIAck, PeerTypes
<1>4. ASSUME NEW c \in Conns,
             OnInv(c) \/ OnUnknown(c) \/ HandleWrite(c) \/ AcceptFails(c) \/ Throw(c)
               \/ PeerEnds(c)
      PROVE  UNCHANGED <<status, registry>>
  BY <1>4 DEF OnInv, ReceiveInv, OnUnknown, HandleWrite, AcceptFails, Throw, PeerEnds
<1>5. ASSUME NEW c \in Conns, HandleAccept(c) PROVE Goal
  <2>1. /\ status[c] = "Idle"
        /\ UNCHANGED <<status, connectedNodes, connectedRelays>>
        /\ unregistred' = Insert(unregistred, remote[c], c)
    BY <1>5 DEF HandleAccept, Unlinked
  <2>2. /\ Keeps(unregistred, unregistred')
        /\ \A k \in DOMAIN unregistred' : k \in DOMAIN unregistred \/ unregistred'[k] = c
    BY <2>1 DEF Keeps, Insert
  <2>3. ASSUME NEW d \in Conns, status[d] = "Ack" PROVE Final(d)
    BY <2>1, <2>2, <2>3 DEF Final, Holds, Keeps
  <2> QED  BY <2>1, <2>3 DEF Keeps
<1>6. ASSUME UNCHANGED vars PROVE Goal
  BY <1>1, <1>6 DEF vars
<1> HIDE DEF Goal
<1>7. Goal
  <2>1. CASE Next
    <3>1. PICK c \in Conns :
            \/ OnWhoAmI(c) \/ OnWhoAmIAck(c) \/ OnInv(c) \/ OnUnknown(c)
            \/ HandleWrite(c) \/ HandleAccept(c) \/ AcceptFails(c) \/ Throw(c) \/ PeerEnds(c)
      BY <2>1 DEF Next
    <3>2. CASE OnWhoAmI(c) \/ OnWhoAmIAck(c)
      BY <1>2, <1>3, <3>2
    <3>3. CASE HandleAccept(c)
      BY <1>5, <3>3
    <3> QED  BY <1>1, <1>4, <3>1, <3>2, <3>3
  <2> QED  BY <1>6, <2>1
<1> QED  BY <1>7 DEF Goal

(* An acknowledged connection stays acknowledged and in its place, but that  *)
(* another one of its endpoint may take its entry out of unregistred; who is *)
(* registered stays so for good (updateStatus, registerConnection).          *)
THEOREM AckIsFinalHolds == Spec => AckIsFinal
<1>1. TypeOK /\ Unlinked /\ [Next]_vars =>
        [/\ Keeps(connectedNodes, connectedNodes')
         /\ Keeps(connectedRelays, connectedRelays')
         /\ \A c \in Conns : status[c] = "Ack" => Final(c)]_vars
  BY AckStep
<1>2. Spec => [](TypeOK /\ RegistryShape /\ Unlinked)
  BY TypeInit, TypeStep, RegistryInit, RegistryStep, PTL DEF Spec
<1> QED  BY <1>1, <1>2, PTL DEF Spec, AckIsFinal, Final

-----------------------------------------------------------------------------
(* Reads are started once for an accepted connection and once per completed  *)
(* write; an outbound connection is linked from the start, which is what     *)
(* keeps handleAccept away from it.                                          *)
OutboundLinked == \A c \in Outbound : link[c] # "none"

\* No read is outstanding when the node starts.
LEMMA ReadsInit == Init => ReadsGrow /\ OutboundLinked
BY OutboundAssumption DEF Init, ReadsGrow, OutboundLinked

\* A read replaces itself, and each completed write adds one.
LEMMA ReadsStep ==
  TypeOK /\ ReadsGrow /\ OutboundLinked /\ [Next]_vars => ReadsGrow' /\ OutboundLinked'
<1> SUFFICES ASSUME TypeOK, ReadsGrow, OutboundLinked, [Next]_vars
             PROVE  ReadsGrow' /\ OutboundLinked'
  OBVIOUS
<1>1. ASSUME NEW c \in Conns,
             OnWhoAmI(c) \/ OnWhoAmIAck(c) \/ OnInv(c) \/ OnUnknown(c)
               \/ AcceptFails(c) \/ Throw(c)
      PROVE  ReadsGrow' /\ OutboundLinked'
  <2>1. UNCHANGED <<reads, completed, link>>
    BY <1>1 DEF OnWhoAmI, ReceiveWhoAmI, OnWhoAmIAck, OnInv, ReceiveInv, OnUnknown,
                 AcceptFails, Throw
  <2> QED  BY <2>1 DEF ReadsGrow, OutboundLinked
<1>2. ASSUME NEW c \in Conns, HandleWrite(c) PROVE ReadsGrow' /\ OutboundLinked'
  <2>1. link' = link /\ completed' = [completed EXCEPT ![c] = @ + 1]
        /\ reads' = [reads EXCEPT ![c] = @ + 1]
    BY <1>2 DEF HandleWrite, StartRead
  <2>2. /\ reads'[c] = reads[c] + 1 /\ completed'[c] = completed[c] + 1
        /\ reads[c] \in Nat /\ completed[c] \in Nat
        /\ \A d \in Conns : d # c => reads'[d] = reads[d] /\ completed'[d] = completed[d]
    BY <2>1 DEF TypeOK
  <2>3. ReadsGrow'
    BY <2>1, <2>2 DEF ReadsGrow
  <2> QED  BY <2>1, <2>3 DEF OutboundLinked
<1>3. ASSUME NEW c \in Conns, HandleAccept(c) PROVE ReadsGrow' /\ OutboundLinked'
  <2>1. link[c] = "none" /\ link' = [link EXCEPT ![c] = "open"] /\ completed' = completed
        /\ reads' = [reads EXCEPT ![c] = @ + 1]
    BY <1>3 DEF HandleAccept, StartRead
  <2>2. c \notin Outbound
    BY <2>1 DEF OutboundLinked
  <2> QED  BY <2>1, <2>2, OutboundAssumption DEF ReadsGrow, OutboundLinked, TypeOK
<1>4. ASSUME NEW c \in Conns, PeerEnds(c) PROVE ReadsGrow' /\ OutboundLinked'
  <2>1. reads' = reads /\ completed' = completed /\ link[c] # "none"
        /\ \E l \in {"closed", "reset"} : link' = [link EXCEPT ![c] = l]
    BY <1>4 DEF PeerEnds
  <2>2. \A d \in Conns : link'[d] = "none" <=> link[d] = "none"
    BY <2>1 DEF TypeOK
  <2>3. ReadsGrow'
    BY <2>1, <2>2 DEF ReadsGrow
  <2>4. OutboundLinked'
    BY <2>2, OutboundAssumption DEF OutboundLinked
  <2> QED  BY <2>3, <2>4
<1>5. CASE UNCHANGED vars
  BY <1>5 DEF vars, ReadsGrow, OutboundLinked
<1> QED
  BY <1>1, <1>2, <1>3, <1>4, <1>5 DEF Next

(* The number of overlapping reads of a connection is its completed writes,  *)
(* plus one if it was accepted: it is bounded by nothing but the traffic     *)
(* (handleWrite, idle).                                                      *)
THEOREM ReadsGrowHolds == Spec => []ReadsGrow
BY TypeInit, TypeStep, ReadsInit, ReadsStep, PTL DEF Spec
=============================================================================
