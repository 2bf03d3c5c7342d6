---------------------------- MODULE HandshakeProofs ----------------------------
(***************************************************************************)
(* Theorems about ConnectionIO and Handshake.                              *)
(*                                                                         *)
(* Of ConnectionIO, for any set of connections, any messages and any       *)
(* bounds: it does nothing that Connection does not allow, and the         *)
(* handshake is read as it was sent.                                       *)
(*                                                                         *)
(* Of Handshake, for any types that the processes may have parsed before:  *)
(* the two ends go through the exchange of Greeting, and no end is ahead   *)
(* of what the other one has said.  Each end takes steps of ConnectionIO,  *)
(* so that its invariant, IInv, holds of both; Coupled adds what the wire  *)
(* between them makes of it.                                               *)
(***************************************************************************)
EXTENDS Handshake, SequenceTheorems, TLAPS

-----------------------------------------------------------------------------
\* One end of a connection, whatever the peer sends: nothing up to the next
\* heading uses the assumptions of Handshake.

Kinds == MessageTypes \cup {"nothing", "garbage", "none"}

\* What a handler may be given, what may have arrived, and what is read.
Message ==
  [type : Kinds, version : Versions \cup {0}, services : C!PeerTypes,
   inv : Invs \cup {C!Blank}]
Parts == {"header", "payload"}
Chunk == [part : Parts, msg : Message]
Reading == [part : Parts, of : Message, type : Kinds, fresh : BOOLEAN]

Types ==
  /\ inbox \in [Conns -> Seq(Chunk)]
  /\ pending \in [Conns -> Seq(Reading)]
  /\ aligned \in [Conns -> BOOLEAN]
  /\ parsed \subseteq Kinds
  /\ sent \in [Conns -> Seq(Traffic)]
  /\ handled \in [Conns -> Seq(Message)]

-----------------------------------------------------------------------------
(* The messages that the model makes are messages.                           *)
LEMMA MessagesMade ==
  /\ Traffic \subseteq Message
  /\ Nothing \in Message /\ Garbage \in Message
  /\ \A t \in Kinds : BlankOf(t) \in Message /\ BlankOf(t).type = t
  /\ \A m \in Message, t \in Kinds : As(m, t) \in Message
BY TrafficAssumption
   DEF Kinds, MessageTypes, Message, Nothing, Garbage, BlankOf, Other, As, C!PeerTypes, C!Blank

(* So are the reads and the chunks.                                          *)
LEMMA ReadsMade ==
  /\ HeaderRead \in Reading
  /\ \A of \in Message, t \in Kinds : PayloadRead(of, t) \in Reading
  /\ \A m \in Message : Chunks(m) \in Seq(Chunk)
<1>1. HeaderRead \in Reading
  BY MessagesMade DEF Kinds, HeaderRead, Reading, Parts
<1>2. \A of \in Message, t \in Kinds : PayloadRead(of, t) \in Reading
  BY DEF PayloadRead, Reading, Parts
<1>3. ASSUME NEW m \in Message PROVE Chunks(m) \in Seq(Chunk)
  <2>1. \A part \in Parts : <<[part |-> part, msg |-> m]>> \in Seq(Chunk)
    BY DEF Chunk
  <2>2. <<>> \in Seq(Chunk)
    OBVIOUS
  <2> QED  BY <2>1, <2>2, ConcatProperties DEF Chunks, Parts
<1> QED  BY <1>1, <1>2, <1>3

(* The types that a header may say.                                          *)
LEMMA TypesParsed ==
  ASSUME Types
  PROVE  StrayTypes \subseteq Kinds /\ \A t \in Kinds : ParsedAs(t) \subseteq Kinds
BY DEF Kinds, MessageTypes, Types, StrayTypes, ParsedAs

(* The read that completes, and the others.                                  *)
LEMMA Served ==
  ASSUME Types, NEW c \in Conns, pending[c] # <<>>
  PROVE  /\ Oldest(c) \in Reading
         /\ Tail(pending[c]) \in Seq(Reading) /\ Others(c) \in Seq(Reading)
         /\ Len(Tail(pending[c])) + 1 = Len(pending[c])
         /\ Len(Others(c)) + 1 = Len(pending[c])
<1>1. /\ pending[c] \in Seq(Reading) /\ Head(pending[c]) \in Reading
      /\ Tail(pending[c]) \in Seq(Reading)
      /\ Len(Tail(pending[c])) + 1 = Len(pending[c])
      /\ Len(Tail(pending[c])) \in Nat
  BY DEF Types
<1>2. \A i \in 1 .. Len(Tail(pending[c])) :
        [Tail(pending[c])[i] EXCEPT !.fresh = FALSE] \in Reading
  <2> TAKE i \in 1 .. Len(Tail(pending[c]))
  <2>1. Tail(pending[c])[i] \in Reading
    BY <1>1, ElementOfSeq
  <2> QED  BY <2>1 DEF Reading
<1>3. Others(c) \in Seq(Reading) /\ Len(Others(c)) = Len(Tail(pending[c]))
  BY <1>1, <1>2 DEF Others, Stale
<1> QED  BY <1>1, <1>3 DEF Oldest

(* What handleMessage and handleHeader leave is of its type.                 *)
LEMMA MessageTypesKept ==
  ASSUME Types, NEW c \in Conns, NEW m \in Message, NEW rest \in Seq(Reading),
         HandleMessage(c, m, rest)
  PROVE  pending' \in [Conns -> Seq(Reading)] /\ handled' \in [Conns -> Seq(Message)]
<1>1. Append(rest, HeaderRead) \in Seq(Reading)
  BY ReadsMade, AppendProperties
<1>2. Append(handled[c], m) \in Seq(Message)
  BY AppendProperties DEF Types
<1> QED  BY <1>1, <1>2 DEF HandleMessage, Types

LEMMA HeaderTypesKept ==
  ASSUME Types, NEW c \in Conns, NEW of \in Message, NEW t \in Kinds,
         NEW rest \in Seq(Reading), HandleHeader(c, of, t, rest)
  PROVE  /\ pending' \in [Conns -> Seq(Reading)] /\ handled' \in [Conns -> Seq(Message)]
         /\ parsed' \subseteq Kinds
<1>1. parsed' \subseteq Kinds
  BY DEF HandleHeader, Types
<1>2. CASE of = Nothing
  BY <1>1, <1>2, MessagesMade, MessageTypesKept DEF HandleHeader
<1>3. CASE of # Nothing
  <2>1. Append(rest, PayloadRead(of, t)) \in Seq(Reading)
    BY ReadsMade, AppendProperties
  <2> QED  BY <1>1, <1>3, <2>1 DEF HandleHeader, Types
<1> QED  BY <1>2, <1>3

(* The chunk at the head of an inbox carries a message.                      *)
LEMMA ChunkRead ==
  ASSUME Types, NEW c \in Conns, inbox[c] # <<>>
  PROVE  /\ Head(inbox[c]) \in Chunk /\ Head(inbox[c]).msg \in Message
         /\ Tail(inbox[c]) \in Seq(Chunk)
<1>1. inbox[c] \in Seq(Chunk)
  BY DEF Types
<1>2. Head(inbox[c]) \in Chunk /\ Tail(inbox[c]) \in Seq(Chunk)
  BY <1>1, HeadTailProperties
<1> QED  BY <1>2 DEF Chunk

(* A message as another kind is of one that may be read.                     *)
LEMMA StrayPayload ==
  ASSUME Types, NEW c \in Conns, pending[c] # <<>>
  PROVE  StrayPayloads(c) \subseteq Message
<1>1. Oldest(c).type \in Kinds
  BY Served DEF Reading
<1>2. \A i \in DOMAIN sent[c] : sent[c][i] \in Message
  BY ElementOfSeq, MessagesMade DEF Types
<1> QED  BY <1>1, <1>2, MessagesMade DEF StrayPayloads

LEMMA TypeStep == Types /\ [Next]_vars => Types'
<1> SUFFICES ASSUME Types, [Next]_vars PROVE Types'
  OBVIOUS
<1>1. ASSUME NEW c \in Conns, ReadHeader(c) PROVE Types'
  <2>1. /\ Head(inbox[c]) \in Chunk /\ Head(inbox[c]).msg \in Message
        /\ Tail(inbox[c]) \in Seq(Chunk) /\ Others(c) \in Seq(Reading)
    BY <1>1, ChunkRead, Served DEF ReadHeader, Serves
  <2> DEFINE m == Head(inbox[c]).msg
  <2>2. PICK t \in ParsedAs(m.type) :
          HandleHeader(c, IF HasPayload(m) THEN m ELSE Nothing, t, Others(c))
    BY <1>1 DEF ReadHeader
  <2>3. t \in Kinds
    BY <2>1, TypesParsed DEF Message, Kinds
  <2> QED
    BY <1>1, <2>1, <2>2, <2>3, MessagesMade, HeaderTypesKept DEF ReadHeader, Consume, Types
<1>2. ASSUME NEW c \in Conns, ReadPayload(c) PROVE Types'
  <2>1. Tail(inbox[c]) \in Seq(Chunk) /\ Oldest(c) \in Reading /\ Others(c) \in Seq(Reading)
    BY <1>2, ChunkRead, Served DEF ReadPayload, Serves
  <2>2. As(Oldest(c).of, Oldest(c).type) \in Message
    BY <2>1, MessagesMade DEF Reading
  <2> QED  BY <1>2, <2>1, <2>2, MessageTypesKept DEF ReadPayload, Consume, Types
<1>3. ASSUME NEW c \in Conns, MissHeader(c) PROVE Types'
  <2>1. Tail(inbox[c]) \in Seq(Chunk) /\ Others(c) \in Seq(Reading)
    BY <1>3, ChunkRead, Served DEF MissHeader, Serves
  <2>2. PICK t \in StrayTypes, of \in {Nothing, Garbage} : HandleHeader(c, of, t, Others(c))
    BY <1>3 DEF MissHeader
  <2>3. t \in Kinds /\ of \in Message
    BY TypesParsed, MessagesMade
  <2>4. aligned' \in [Conns -> BOOLEAN]
    BY <1>3 DEF MissHeader, Types, HasPayload
  <2> QED  BY <1>3, <2>1, <2>2, <2>3, <2>4, HeaderTypesKept DEF MissHeader, Types
<1>4. ASSUME NEW c \in Conns, Misread(c) PROVE Types'
  <2>1. Others(c) \in Seq(Reading) /\ pending[c] # <<>>
    BY <1>4, Served DEF Misread, Serves
  <2>2. inbox' \in [Conns -> Seq(Chunk)]
    <3>1. PICK k \in 2 .. Len(inbox[c]) + 1 :
            inbox' = [inbox EXCEPT ![c] = SubSeq(@, k, Len(@))]
      BY <1>4 DEF Misread
    <3>2. inbox[c] \in Seq(Chunk)
      BY DEF Types
    <3>3. SubSeq(inbox[c], k, Len(inbox[c])) \in Seq(Chunk)
      BY <3>2, SubSeqProperties
    <3> QED  BY <3>1, <3>3 DEF Types
  <2>3. CASE \E t \in StrayTypes, of \in {Nothing, Garbage} : HandleHeader(c, of, t, Others(c))
    BY <1>4, <2>1, <2>2, <2>3, TypesParsed, MessagesMade, HeaderTypesKept DEF Misread, Types
  <2>4. CASE /\ \E m \in StrayPayloads(c) : HandleMessage(c, m, Others(c))
             /\ UNCHANGED parsed
    BY <1>4, <2>1, <2>2, <2>4, StrayPayload, MessageTypesKept DEF Misread, Types
  <2> QED  BY <1>4, <2>3, <2>4 DEF Misread
<1>5. ASSUME NEW c \in Conns, EndOfFile(c) PROVE Types'
  <2>1. Tail(pending[c]) \in Seq(Reading) /\ Oldest(c) \in Reading
    BY <1>5, Served DEF EndOfFile
  <2>2. CASE \E t \in StrayTypes : HandleHeader(c, Nothing, t, Tail(pending[c]))
    BY <1>5, <2>1, <2>2, TypesParsed, MessagesMade, HeaderTypesKept DEF EndOfFile, Types
  <2>3. CASE /\ HandleMessage(c, BlankOf(Oldest(c).type), Tail(pending[c]))
             /\ UNCHANGED parsed
    <3>1. BlankOf(Oldest(c).type) \in Message
      BY <2>1, MessagesMade DEF Reading
    <3> QED  BY <1>5, <2>1, <2>3, <3>1, MessageTypesKept DEF EndOfFile, Types
  <2> QED  BY <1>5, <2>2, <2>3 DEF EndOfFile
<1>6. ASSUME NEW c \in Conns, HandleWrite(c) \/ HandleAccept(c) PROVE Types'
  <2>1. Append(pending[c], HeaderRead) \in Seq(Reading)
    BY ReadsMade, AppendProperties DEF Types
  <2> QED  BY <1>6, <2>1 DEF HandleWrite, HandleAccept, StartRead, Types
<1>7. ASSUME NEW c \in Conns, Fails(c) \/ PeerEnds(c) PROVE Types'
  BY <1>7 DEF Fails, PeerEnds, ioVars, Types
<1>8. ASSUME NEW c \in Conns, PeerSends(c) PROVE Types'
  <2>1. PICK m \in Traffic : /\ sent' = [sent EXCEPT ![c] = Append(@, m)]
                             /\ inbox' = [inbox EXCEPT ![c] = @ \o Chunks(m)]
    BY <1>8 DEF PeerSends
  <2>2. m \in Message
    BY MessagesMade
  <2>3. Append(sent[c], m) \in Seq(Traffic) /\ inbox[c] \o Chunks(m) \in Seq(Chunk)
    BY <2>2, ReadsMade, AppendProperties, ConcatProperties DEF Types
  <2> QED  BY <1>8, <2>1, <2>3 DEF PeerSends, Types
<1>9. CASE UNCHANGED vars
  BY <1>9 DEF vars, ioVars, Types
<1> QED  BY <1>1, <1>2, <1>3, <1>4, <1>5, <1>6, <1>7, <1>8, <1>9 DEF Next

-----------------------------------------------------------------------------
(* handleMessage is one of Connection's handlers, if after the end of file   *)
(* the message is blank.                                                     *)
LEMMA MessageImplements ==
  ASSUME NEW c \in Conns, NEW m \in Message, NEW rest, HandleMessage(c, m, rest),
         link[c] = "open" \/ m = BlankOf(m.type)
  PROVE  C!Next
<1>1. CASE m.type = "whoami" /\ C!ReceiveWhoAmI(c, m.version, m.services)
  <2>1. /\ m.version \in C!Readable(c, Versions, 0)
        /\ m.services \in C!Readable(c, C!PeerTypes, "peer")
    BY DEF C!Readable, Message, BlankOf, Other
  <2>2. C!OnWhoAmI(c)
    BY <1>1, <2>1 DEF C!OnWhoAmI
  <2> QED  BY <2>2 DEF C!Next
<1>2. CASE m.type = "inv" /\ C!ReceiveInv(c, m.inv)
  <2>1. m.inv \in C!Readable(c, Invs, C!Blank)
    BY DEF C!Readable, Message, BlankOf, Other, C!Blank
  <2>2. C!OnInv(c)
    BY <1>2, <2>1 DEF C!OnInv
  <2> QED  BY <2>2 DEF C!Next
<1>3. CASE C!OnWhoAmIAck(c) \/ C!OnUnknown(c)
  BY <1>3 DEF C!Next
<1> QED  BY <1>1, <1>2, <1>3 DEF HandleMessage, Dispatch

(* handleHeader calls handleMessage, or replaces its read by another one.    *)
LEMMA HeaderImplements ==
  ASSUME Types, NEW c \in Conns, NEW of \in Message, NEW t \in Kinds,
         NEW rest \in Seq(Reading), Len(rest) + 1 = Len(pending[c]),
         HandleHeader(c, of, t, rest)
  PROVE  C!Next \/ UNCHANGED C!vars
<1>1. CASE of = Nothing
  BY <1>1, MessagesMade, MessageImplements DEF HandleHeader
<1>2. CASE of # Nothing
  <2>1. /\ pending' = [pending EXCEPT ![c] = Append(rest, PayloadRead(of, t))]
        /\ UNCHANGED connection
    BY <1>2 DEF HandleHeader
  <2>2. Len(Append(rest, PayloadRead(of, t))) = Len(pending[c])
    BY ReadsMade, AppendProperties
  <2>3. \A d \in Conns : Len(pending'[d]) = Len(pending[d])
    BY <2>1, <2>2 DEF Types
  <2> QED
    BY <2>1, <2>3 DEF connection, C!vars, C!wire, C!replies, C!registry
<1> QED  BY <1>1, <1>2

LEMMA ConnectionStep ==
  ASSUME Types, [Next]_vars
  PROVE  [C!Next]_(C!vars)
<1>1. ASSUME NEW c \in Conns, ReadHeader(c) PROVE [C!Next]_(C!vars)
  <2>1. /\ Head(inbox[c]).msg \in Message
        /\ Others(c) \in Seq(Reading) /\ Len(Others(c)) + 1 = Len(pending[c])
    BY <1>1, ChunkRead, Served DEF ReadHeader, Serves
  <2> DEFINE m == Head(inbox[c]).msg
  <2>2. PICK t \in ParsedAs(m.type) :
          HandleHeader(c, IF HasPayload(m) THEN m ELSE Nothing, t, Others(c))
    BY <1>1 DEF ReadHeader
  <2>3. t \in Kinds
    BY <2>1, TypesParsed DEF Message, Kinds
  <2> QED  BY <2>1, <2>2, <2>3, MessagesMade, HeaderImplements
<1>2. ASSUME NEW c \in Conns, ReadPayload(c) PROVE [C!Next]_(C!vars)
  <2>1. Oldest(c) \in Reading
    BY <1>2, Served DEF ReadPayload, Serves
  <2>2. As(Oldest(c).of, Oldest(c).type) \in Message
    BY <2>1, MessagesMade DEF Reading
  <2> QED  BY <1>2, <2>2, MessageImplements DEF ReadPayload, Serves
<1>3. ASSUME NEW c \in Conns, MissHeader(c) PROVE [C!Next]_(C!vars)
  <2>1. Others(c) \in Seq(Reading) /\ Len(Others(c)) + 1 = Len(pending[c])
    BY <1>3, Served DEF MissHeader, Serves
  <2> QED  BY <1>3, <2>1, TypesParsed, MessagesMade, HeaderImplements DEF MissHeader
<1>4. ASSUME NEW c \in Conns, Misread(c) PROVE [C!Next]_(C!vars)
  <2>1. /\ Others(c) \in Seq(Reading) /\ Len(Others(c)) + 1 = Len(pending[c])
        /\ StrayPayloads(c) \subseteq Message /\ link[c] = "open"
    BY <1>4, Served, StrayPayload DEF Misread, Serves
  <2>2. CASE \E t \in StrayTypes, of \in {Nothing, Garbage} : HandleHeader(c, of, t, Others(c))
    BY <2>1, <2>2, TypesParsed, MessagesMade, HeaderImplements
  <2>3. CASE \E m \in StrayPayloads(c) : HandleMessage(c, m, Others(c))
    BY <2>1, <2>3, MessageImplements
  <2> QED  BY <1>4, <2>2, <2>3 DEF Misread
<1>5. ASSUME NEW c \in Conns, EndOfFile(c) PROVE [C!Next]_(C!vars)
  <2>1. /\ Tail(pending[c]) \in Seq(Reading) /\ Oldest(c) \in Reading
        /\ Len(Tail(pending[c])) + 1 = Len(pending[c])
    BY <1>5, Served DEF EndOfFile
  <2>2. CASE \E t \in StrayTypes : HandleHeader(c, Nothing, t, Tail(pending[c]))
    BY <2>1, <2>2, TypesParsed, MessagesMade, HeaderImplements
  <2>3. CASE HandleMessage(c, BlankOf(Oldest(c).type), Tail(pending[c]))
    <3>1. Oldest(c).type \in Kinds
      BY <2>1 DEF Reading
    <3> QED  BY <2>3, <3>1, MessagesMade, MessageImplements
  <2> QED  BY <1>5, <2>2, <2>3 DEF EndOfFile
<1>6. ASSUME NEW c \in Conns, HandleWrite(c) \/ HandleAccept(c) \/ Fails(c) \/ PeerEnds(c)
      PROVE  [C!Next]_(C!vars)
  BY <1>6 DEF HandleWrite, HandleAccept, Fails, PeerEnds, C!Next
<1>7. ASSUME NEW c \in Conns, PeerSends(c) PROVE [C!Next]_(C!vars)
  BY <1>7 DEF PeerSends, connection, C!vars, C!wire, C!replies, C!registry
<1>8. CASE UNCHANGED vars
  BY <1>8 DEF vars, ioVars, connection, C!vars, C!wire, C!replies, C!registry
<1> QED  BY <1>1, <1>2, <1>3, <1>4, <1>5, <1>6, <1>7, <1>8 DEF Next

(* In the beginning nothing has arrived and nothing is read.                 *)
LEMMA InitTypes ==
  ASSUME NEW types \in SUBSET Kinds, InitAfter(types)
  PROVE  Types
BY DEF InitAfter, Types

(* The connection with its overlapping, stale or misaligned reads takes only *)
(* steps that Connection allows (handleHeader, handleMessage, handleWrite,   *)
(* idle): what ConnectionProofs shows of steps holds of the bytes as well.   *)
THEOREM ConnectionImplemented == Spec => ImplementsConnection
<1>1. Init => Types /\ C!Init
  BY InitTypes DEF Init, InitAfter, Kinds
<1>2. Types /\ [Next]_vars => Types'
  BY TypeStep
<1>3. Types /\ [Next]_vars => [C!Next]_(C!vars)
  BY ConnectionStep
<1> QED  BY <1>1, <1>2, <1>3, PTL DEF Spec, ImplementsConnection

-----------------------------------------------------------------------------
\* The chunks of a WhoAmI and the WhoAmIAck that follows it, as far as they have
\* been sent, and that of them all but the first k are in front of an inbox.
Due(msgs) == IF Len(msgs) = 0 THEN 0 ELSE IF Len(msgs) = 1 THEN 2 ELSE 3
DueChunk(msgs, i) ==
  [part |-> IF i = 2 THEN "payload" ELSE "header", msg |-> msgs[IF i = 3 THEN 2 ELSE 1]]
Arriving(chunks, msgs, k) ==
  /\ k <= Due(msgs) /\ Due(msgs) <= k + Len(chunks)
  /\ Len(msgs) < 2 => k + Len(chunks) = Due(msgs)
  /\ \A i \in 1 .. 3 : k < i /\ i <= Due(msgs) => chunks[i - k] = DueChunk(msgs, i)

HeadersOnly(readings) == \A i \in DOMAIN readings : readings[i] = HeaderRead

\* Before c answers anything, one read at most is outstanding: that of the bound
\* connection for its only write, that of the accepted one for its acceptance.
Unanswered(c) ==
  /\ status[c] # "Ack" /\ handled[c] = <<>>
  /\ c \in Outbound => link[c] = "open"
  /\ Len(written[c]) = IF c \in Outbound THEN 1 ELSE 0
  /\ completed[c] \in 0 .. Len(written[c]) /\ Len(pending[c]) <= 1
  /\ Len(pending[c]) = completed[c] + IF c \in Outbound \/ link[c] = "none" THEN 0 ELSE 1

\* How far the handshake of the peer has been read.
NothingRead(c) ==
  /\ Unanswered(c) /\ HeadersOnly(pending[c])
  /\ Arriving(inbox[c], sent[c], 0)
HeaderSeen(c) ==
  /\ link[c] = "open" /\ Unanswered(c)
  /\ Len(pending[c]) = 1
  /\ \E t \in {"whoami", "whoamiack"} : pending[c][1] = PayloadRead(sent[c][1], t)
  /\ 1 <= Len(sent[c]) /\ Arriving(inbox[c], sent[c], 1)
Greeted(c) ==
  /\ link[c] = "open" /\ HeadersOnly(pending[c])
  /\ Len(handled[c]) = 1 /\ Taken(handled[c][1], sent[c][1])
  /\ 1 <= Len(sent[c]) /\ Arriving(inbox[c], sent[c], 2)
Acknowledged(c) ==
  /\ link[c] = "open"
  /\ 2 <= Len(handled[c]) /\ 2 <= Len(sent[c])
  /\ Taken(handled[c][1], sent[c][1]) /\ Taken(handled[c][2], sent[c][2])

Begins(c) ==
  \A i \in DOMAIN sent[c] \cap 1 .. 2 : sent[c][i].type = <<"whoami", "whoamiack">>[i]
Stage(c) ==
  link[c] \in {"none", "open"} /\ Begins(c) =>
    \/ aligned[c] /\ (NothingRead(c) \/ HeaderSeen(c) \/ Greeted(c))
    \/ Acknowledged(c)
Intact(c) ==
  Begins(c) =>
    \A i \in DOMAIN handled[c] \cap 1 .. 2 :
      i \in DOMAIN sent[c] /\ Taken(handled[c][i], sent[c][i])

Domains ==
  /\ DOMAIN link = Conns /\ DOMAIN status = Conns
  /\ DOMAIN written = Conns /\ DOMAIN completed = Conns

\* The inductive invariant behind HandshakeIntact.
IInv == Types /\ Domains /\ \A c \in Conns : Stage(c) /\ Intact(c)

(* What is due of two messages, one or none.                                 *)
LEMMA DueCases ==
  ASSUME NEW S, NEW msgs \in Seq(S)
  PROVE  \/ Len(msgs) = 0 /\ Due(msgs) = 0
         \/ Len(msgs) = 1 /\ Due(msgs) = 2
         \/ Len(msgs) >= 2 /\ Due(msgs) = 3
<1>1. \A n \in Nat : (n = 0 \/ n = 1 \/ n >= 2) /\ (n >= 2 => n # 0 /\ n # 1)
  OBVIOUS
<1>2. Len(msgs) \in Nat
  BY LenProperties
<1>3. Len(msgs) = 0 \/ Len(msgs) = 1 \/ Len(msgs) >= 2
  BY <1>1, <1>2
<1>4. Len(msgs) >= 2 => Len(msgs) # 0 /\ Len(msgs) # 1
  BY <1>1, <1>2
<1> QED  BY <1>3, <1>4 DEF Due

(* Taking the first chunk of what is due leaves the others.                  *)
LEMMA ArrivingTail ==
  ASSUME NEW chunks \in Seq(Chunk), NEW msgs \in Seq(Traffic), NEW k \in 0 .. 2,
         Arriving(chunks, msgs, k), chunks # <<>>, k = 2 => 2 <= Len(msgs),
         k = 1 => 1 <= Len(msgs)
  PROVE  /\ Head(chunks) = DueChunk(msgs, k + 1) /\ 1 <= Len(msgs)
         /\ k < 2 => Arriving(Tail(chunks), msgs, k + 1)
<1>1. /\ Len(msgs) \in Nat /\ Len(chunks) \in Nat /\ 1 <= Len(chunks)
      /\ Head(chunks) = chunks[1]
      /\ Len(Tail(chunks)) = Len(chunks) - 1
      /\ \A i \in 1 .. Len(chunks) - 1 : Tail(chunks)[i] = chunks[i + 1]
  BY HeadTailProperties, EmptySeq
<1>2. k + 1 <= Due(msgs) /\ Due(msgs) \in 2 .. 3 /\ 1 <= Len(msgs)
  <2>1. \/ Len(msgs) = 0 /\ Due(msgs) = 0
        \/ Len(msgs) = 1 /\ Due(msgs) = 2
        \/ Len(msgs) >= 2 /\ Due(msgs) = 3
    BY DueCases
  <2>2. /\ k <= Due(msgs) /\ Due(msgs) <= k + Len(chunks)
        /\ Len(msgs) < 2 => k + Len(chunks) = Due(msgs)
    BY DEF Arriving
  <2>3. \A n, d, left \in Nat : \A j \in 0 .. 2 :
          /\ (n = 0 /\ d = 0) \/ (n = 1 /\ d = 2) \/ (n >= 2 /\ d = 3)
          /\ j <= d /\ d <= j + left /\ (n < 2 => j + left = d)
          /\ left >= 1 /\ (j = 2 => 2 <= n) /\ (j = 1 => 1 <= n)
          => j + 1 <= d /\ d \in 2 .. 3 /\ 1 <= n
    OBVIOUS
  <2>4. Due(msgs) \in Nat
    BY <2>1
  <2> QED  BY <1>1, <2>1, <2>2, <2>3, <2>4
<1>3. Head(chunks) = DueChunk(msgs, k + 1)
  BY <1>1, <1>2 DEF Arriving
<1>4. ASSUME k < 2, NEW i \in 1 .. 3, k + 1 < i, i <= Due(msgs)
      PROVE  Tail(chunks)[i - (k + 1)] = DueChunk(msgs, i)
  <2>1. i - (k + 1) \in 1 .. Len(chunks) - 1 /\ i - (k + 1) + 1 = i - k
    BY <1>1, <1>2, <1>4 DEF Arriving
  <2>2. chunks[i - k] = DueChunk(msgs, i)
    BY <1>4 DEF Arriving
  <2> QED  BY <1>1, <2>1, <2>2
<1> QED  BY <1>1, <1>2, <1>3, <1>4 DEF Arriving

(* What is sent comes after what is due, or is due itself.                   *)
LEMMA ArrivingMore ==
  ASSUME NEW chunks \in Seq(Chunk), NEW msgs \in Seq(Traffic), NEW m \in Traffic,
         NEW k \in 0 .. 2, Arriving(chunks, msgs, k),
         Len(msgs) = 0 => HasPayload(m), Len(msgs) = 1 => ~HasPayload(m)
  PROVE  Arriving(chunks \o Chunks(m), Append(msgs, m), k)
<1> DEFINE more == Append(msgs, m)
           longer == chunks \o Chunks(m)
<1>1. /\ Len(msgs) \in Nat /\ Len(chunks) \in Nat
      /\ Len(more) = Len(msgs) + 1 /\ more[Len(msgs) + 1] = m
      /\ \A i \in 1 .. Len(msgs) : more[i] = msgs[i]
  BY AppendProperties
<1>2. m \in Message /\ Chunks(m) \in Seq(Chunk)
  BY MessagesMade, ReadsMade
<1>3. /\ HasPayload(m) => Len(Chunks(m)) = 2
      /\ ~HasPayload(m) => Len(Chunks(m)) = 1
      /\ Chunks(m)[1] = [part |-> "header", msg |-> m]
      /\ HasPayload(m) => Chunks(m)[2] = [part |-> "payload", msg |-> m]
  BY DEF Chunks
<1>4. /\ Len(longer) = Len(chunks) + Len(Chunks(m))
      /\ \A i \in 1 .. Len(chunks) : longer[i] = chunks[i]
      /\ \A i \in 1 .. Len(Chunks(m)) : longer[Len(chunks) + i] = Chunks(m)[i]
  BY <1>2, ConcatProperties
<1> SUFFICES Arriving(longer, more, k)
  OBVIOUS
<1> HIDE DEF more, longer
<1>5. CASE Len(msgs) = 0
  <2>1. k = 0 /\ Len(chunks) = 0 /\ Due(more) = 2 /\ Len(Chunks(m)) = 2
    BY <1>1, <1>3, <1>5 DEF Arriving, Due
  <2>2. longer[1] = DueChunk(more, 1)
    BY <1>1, <1>3, <1>4, <1>5, <2>1 DEF DueChunk
  <2>3. longer[2] = DueChunk(more, 2)
    BY <1>1, <1>3, <1>4, <1>5, <2>1 DEF DueChunk
  <2>4. Len(longer) = 2 /\ Len(more) = 1
    BY <1>1, <1>4, <1>5, <2>1
  <2>5. \A i \in 1 .. 3 : 0 < i /\ i <= 2 => longer[i - 0] = DueChunk(more, i)
    BY <2>2, <2>3
  <2> QED  BY <2>1, <2>4, <2>5 DEF Arriving
<1>6. CASE Len(msgs) = 1
  <2>1. /\ k + Len(chunks) = 2 /\ Due(msgs) = 2 /\ Due(more) = 3 /\ Len(Chunks(m)) = 1
    BY <1>1, <1>3, <1>6 DEF Arriving, Due
  <2>2. longer[3 - k] = DueChunk(more, 3)
    BY <1>1, <1>3, <1>4, <1>6, <2>1 DEF DueChunk
  <2>3. ASSUME NEW i \in 1 .. 2, k < i
        PROVE  longer[i - k] = DueChunk(more, i)
    <3>1. i - k \in 1 .. Len(chunks) /\ chunks[i - k] = DueChunk(msgs, i)
      BY <1>1, <2>1, <2>3 DEF Arriving
    <3>2. DueChunk(more, i) = DueChunk(msgs, i)
      BY <1>1, <1>6 DEF DueChunk
    <3> QED  BY <1>4, <3>1, <3>2
  <2> QED  BY <1>1, <1>4, <2>1, <2>2, <2>3 DEF Arriving
<1>7. CASE Len(msgs) >= 2
  <2>1. Due(msgs) = 3 /\ Due(more) = 3 /\ 3 <= k + Len(chunks)
    BY <1>1, <1>7 DEF Arriving, Due
  <2>2. ASSUME NEW i \in 1 .. 3, k < i
        PROVE  longer[i - k] = DueChunk(more, i)
    <3>1. i - k \in 1 .. Len(chunks) /\ chunks[i - k] = DueChunk(msgs, i)
      BY <1>1, <2>1, <2>2 DEF Arriving
    <3>2. DueChunk(more, i) = DueChunk(msgs, i)
      BY <1>1, <1>7 DEF DueChunk
    <3> QED  BY <1>4, <3>1, <3>2
  <2>3. Len(Chunks(m)) \in Nat
    BY <1>3
  <2> QED  BY <1>1, <1>4, <1>7, <2>1, <2>2, <2>3 DEF Arriving
<1> QED  BY DueCases, <1>5, <1>6, <1>7

-----------------------------------------------------------------------------
\* A step of Connection for c: nothing of it shows at another connection.
ConnectionAt(c) ==
  /\ Domains'
  /\ \A d \in Conns \ {c} : /\ link'[d] = link[d] /\ status'[d] = status[d]
                            /\ written'[d] = written[d] /\ completed'[d] = completed[d]
SameAt(d) ==
  /\ link'[d] = link[d] /\ status'[d] = status[d]
  /\ written'[d] = written[d] /\ completed'[d] = completed[d]
  /\ inbox'[d] = inbox[d] /\ pending'[d] = pending[d] /\ aligned'[d] = aligned[d]
  /\ sent'[d] = sent[d] /\ handled'[d] = handled[d]

(* The handlers that MessageHandler calls.                                   *)
LEMMA DispatchLocal ==
  ASSUME Domains, NEW c \in Conns, NEW m, Dispatch(c, m)
  PROVE  ConnectionAt(c) /\ link' = link /\ completed' = completed
<1>1. ASSUME NEW out, C!Flush(c, out)
      PROVE  DOMAIN written' = Conns /\ \A d \in Conns \ {c} : written'[d] = written[d]
  BY <1>1 DEF C!Flush, Domains
<1>2. ASSUME NEW version, NEW type, C!UpdateStatus(c, version, type)
      PROVE  /\ DOMAIN status' = Conns /\ DOMAIN written' = Conns
             /\ \A d \in Conns \ {c} : status'[d] = status[d] /\ written'[d] = written[d]
  <2>1. /\ status' = status \/ \E s : status' = [status EXCEPT ![c] = s]
        /\ \/ written' = written
           \/ \E out : C!Flush(c, out)
           \/ written' = [written EXCEPT ![c] = @ \o <<C!WhoAmI, C!WhoAmIAck>>]
    BY <1>2 DEF C!UpdateStatus, C!FromIdle, C!FromWaitingAck, C!FromInitiated,
                C!FromWaiting, C!FromAck, C!wire
  <2> QED  BY <1>1, <2>1 DEF Domains
<1>3. CASE m.type = "whoami" /\ C!ReceiveWhoAmI(c, m.version, m.services)
  BY <1>2, <1>3 DEF C!ReceiveWhoAmI, ConnectionAt, Domains
<1>4. CASE C!OnWhoAmIAck(c)
  BY <1>2, <1>4 DEF C!OnWhoAmIAck, ConnectionAt, Domains
<1>5. CASE m.type = "inv" /\ C!ReceiveInv(c, m.inv)
  <2>1. written' = written \/ \E out : C!Flush(c, out)
    BY <1>5 DEF C!ReceiveInv
  <2> QED  BY <1>1, <1>5, <2>1 DEF C!ReceiveInv, ConnectionAt, Domains
<1>6. CASE C!OnUnknown(c)
  <2>1. written' = written \/ \E out : C!Flush(c, out)
    BY <1>6 DEF C!OnUnknown, C!Idling, C!wire
  <2> QED  BY <1>1, <1>6, <2>1 DEF C!OnUnknown, ConnectionAt, Domains
<1> QED  BY <1>3, <1>4, <1>5, <1>6 DEF Dispatch

(* What a handler of c leaves at the other connections.                      *)
LEMMA MessageLocal ==
  ASSUME Types, Domains, NEW c \in Conns, NEW m, NEW rest, HandleMessage(c, m, rest)
  PROVE  /\ ConnectionAt(c) /\ link' = link /\ completed' = completed
         /\ \A d \in Conns \ {c} : pending'[d] = pending[d] /\ handled'[d] = handled[d]
         /\ pending'[c] = Append(rest, HeaderRead)
         /\ handled'[c] = IF link[c] = "open" THEN Append(handled[c], m) ELSE handled[c]
BY DispatchLocal DEF HandleMessage, Types

LEMMA HeaderLocal ==
  ASSUME Types, Domains, NEW c \in Conns, NEW of, NEW t, NEW rest,
         HandleHeader(c, of, t, rest)
  PROVE  /\ ConnectionAt(c) /\ link' = link /\ completed' = completed
         /\ \A d \in Conns \ {c} : pending'[d] = pending[d] /\ handled'[d] = handled[d]
         /\ IF of = Nothing
            THEN /\ pending'[c] = Append(rest, HeaderRead)
                 /\ handled'[c] = IF link[c] = "open" THEN Append(handled[c], BlankOf(t))
                                  ELSE handled[c]
            ELSE /\ pending'[c] = Append(rest, PayloadRead(of, t))
                 /\ handled' = handled /\ status' = status /\ written' = written
<1>1. CASE of = Nothing
  BY <1>1, MessageLocal DEF HandleHeader
<1>2. CASE of # Nothing
  BY <1>2 DEF HandleHeader, connection, ConnectionAt, Domains, Types
<1> QED  BY <1>1, <1>2

(* The rest of Connection's steps.                                           *)
LEMMA OthersLocal ==
  ASSUME Domains, NEW c \in Conns,
         C!HandleWrite(c) \/ C!HandleAccept(c) \/ C!AcceptFails(c) \/ C!Throw(c)
           \/ C!PeerEnds(c)
  PROVE  ConnectionAt(c)
<1>1. CASE C!HandleWrite(c)
  <2>1. written' = written \/ C!Flush(c, <<>>)
    BY <1>1 DEF C!HandleWrite, C!Idling, C!wire
  <2>2. DOMAIN written' = Conns /\ \A d \in Conns \ {c} : written'[d] = written[d]
    BY <2>1 DEF C!Flush, Domains
  <2> QED  BY <1>1, <2>2 DEF C!HandleWrite, ConnectionAt, Domains
<1>2. CASE C!HandleAccept(c) \/ C!AcceptFails(c) \/ C!Throw(c) \/ C!PeerEnds(c)
  BY <1>2 DEF C!HandleAccept, C!AcceptFails, C!Throw, C!PeerEnds, C!wire, ConnectionAt,
              Domains
<1> QED  BY <1>1, <1>2

(* A connection that a step leaves alone keeps its place in the handshake.   *)
LEMMA StageKept ==
  ASSUME NEW d \in Conns, SameAt(d), Stage(d), Intact(d)
  PROVE  Stage(d)' /\ Intact(d)'
BY DEF SameAt, Stage, Intact, Begins, NothingRead, HeaderSeen, Greeted, Acknowledged,
       Unanswered, HeadersOnly

(* An open connection that is in its place has handled what was sent.        *)
LEMMA StageIntact ==
  ASSUME Types', NEW c \in Conns, link'[c] \in {"none", "open"}, Stage(c)'
  PROVE  Intact(c)'
<1> SUFFICES ASSUME Begins(c)', NEW i \in (DOMAIN handled[c])' \cap 1 .. 2
             PROVE  i \in (DOMAIN sent[c])' /\ Taken(handled'[c][i], sent'[c][i])
  BY DEF Intact
<1>1. handled'[c] \in Seq(Message) /\ sent'[c] \in Seq(Traffic)
  BY DEF Types
<1>2. /\ DOMAIN handled'[c] = 1 .. Len(handled'[c]) /\ Len(handled'[c]) \in Nat
      /\ DOMAIN sent'[c] = 1 .. Len(sent'[c]) /\ Len(sent'[c]) \in Nat
  BY <1>1, LenProperties
<1>3. CASE Unanswered(c)'
  BY <1>2, <1>3 DEF Unanswered
<1>4. CASE Greeted(c)'
  BY <1>2, <1>4 DEF Greeted
<1>5. CASE Acknowledged(c)'
  BY <1>2, <1>5 DEF Acknowledged
<1> QED  BY <1>3, <1>4, <1>5 DEF Stage, NothingRead, HeaderSeen

LEMMA FirstTwoKept ==
  ASSUME NEW S, NEW s \in Seq(S), 2 <= Len(s), NEW longer,
         longer = s \/ \E x \in S : longer = Append(s, x)
  PROVE  2 <= Len(longer) /\ longer[1] = s[1] /\ longer[2] = s[2]
<1>1. CASE longer = s
  BY <1>1
<1>2. ASSUME NEW x \in S, longer = Append(s, x)
      PROVE  2 <= Len(longer) /\ longer[1] = s[1] /\ longer[2] = s[2]
  <2>1. Len(s) \in Nat /\ 1 \in 1 .. Len(s) /\ 2 \in 1 .. Len(s)
    BY LenProperties
  <2>2. Len(longer) = Len(s) + 1 /\ \A i \in 1 .. Len(s) : longer[i] = s[i]
    BY <1>2, AppendProperties
  <2>3. \A n \in Nat : 2 <= n => 2 <= n + 1
    OBVIOUS
  <2> QED  BY <2>1, <2>2, <2>3
<1> QED  BY <1>1, <1>2

(* Once both messages are handled, they stay the first two.                  *)
LEMMA AcknowledgedKept ==
  ASSUME Types, NEW c \in Conns, Acknowledged(c), link'[c] = "open",
         \/ sent'[c] = sent[c]
         \/ \E m \in Traffic : sent'[c] = Append(sent[c], m),
         \/ handled'[c] = handled[c]
         \/ \E m \in Message : handled'[c] = Append(handled[c], m)
  PROVE  Acknowledged(c)'
<1>1. handled[c] \in Seq(Message) /\ sent[c] \in Seq(Traffic)
  BY DEF Types
<1>2. 2 <= Len(handled[c]) /\ 2 <= Len(sent[c])
  BY DEF Acknowledged
<1>3. 2 <= Len(handled'[c]) /\ handled'[c][1] = handled[c][1] /\ handled'[c][2] = handled[c][2]
  BY <1>1, <1>2, FirstTwoKept
<1>4. 2 <= Len(sent'[c]) /\ sent'[c][1] = sent[c][1] /\ sent'[c][2] = sent[c][2]
  BY <1>1, <1>2, FirstTwoKept
<1> QED  BY <1>3, <1>4 DEF Acknowledged

(* The only read leaves none when it completes; the one that replaces it is  *)
(* the only one again.                                                       *)
LEMMA OnlyRead ==
  ASSUME Types, NEW c \in Conns, Len(pending[c]) = 1
  PROVE  /\ Oldest(c) = pending[c][1]
         /\ Tail(pending[c]) = <<>> /\ Others(c) = <<>>
         /\ \A x : Append(Others(c), x) = <<x>>
<1>1. pending[c] \in Seq(Reading) /\ pending[c] # <<>>
  <2>1. Len(<<>>) = 0 /\ 0 # 1
    BY EmptySeq
  <2> QED  BY <2>1 DEF Types
<1>2. Tail(pending[c]) \in Seq(Reading) /\ Len(Tail(pending[c])) = 0
  BY <1>1, HeadTailProperties
<1>3. Others(c) \in Seq(Reading) /\ Len(Others(c)) = 0
  BY <1>1, <1>2, Served
<1>4. Tail(pending[c]) = <<>> /\ Others(c) = <<>>
  BY <1>2, <1>3, EmptySeq
<1>5. \A x : Append(<<>>, x) = <<x>>
  OBVIOUS
<1> QED  BY <1>1, <1>4, <1>5, HeadTailProperties DEF Oldest

(* The chunk that is due first, whatever it meets, is the first one.         *)
LEMMA NextDue ==
  ASSUME Types, NEW c \in Conns, Begins(c), inbox[c] # <<>>
  PROVE  /\ Arriving(inbox[c], sent[c], 0) =>
              /\ 1 <= Len(sent[c]) /\ Head(inbox[c]).part = "header"
              /\ Head(inbox[c]).msg = sent[c][1] /\ sent[c][1].type = "whoami"
              /\ Arriving(Tail(inbox[c]), sent[c], 1)
         /\ 1 <= Len(sent[c]) /\ Arriving(inbox[c], sent[c], 1) =>
              /\ Head(inbox[c]).part = "payload" /\ Head(inbox[c]).msg = sent[c][1]
              /\ Arriving(Tail(inbox[c]), sent[c], 2)
         /\ 1 <= Len(sent[c]) /\ Arriving(inbox[c], sent[c], 2) =>
              /\ 2 <= Len(sent[c]) /\ Head(inbox[c]).part = "header"
              /\ Head(inbox[c]).msg = sent[c][2] /\ sent[c][2].type = "whoamiack"
<1>1. /\ inbox[c] \in Seq(Chunk) /\ sent[c] \in Seq(Traffic)
      /\ DOMAIN sent[c] = 1 .. Len(sent[c]) /\ Len(sent[c]) \in Nat
      /\ Len(inbox[c]) \in Nat /\ Len(inbox[c]) >= 1
  BY EmptySeq DEF Types
<1>2. /\ 1 <= Len(sent[c]) => sent[c][1].type = "whoami"
      /\ 2 <= Len(sent[c]) => sent[c][2].type = "whoamiack"
  BY <1>1 DEF Begins
<1>3. ASSUME Arriving(inbox[c], sent[c], 0)
      PROVE  /\ 1 <= Len(sent[c]) /\ Head(inbox[c]).part = "header"
             /\ Head(inbox[c]).msg = sent[c][1] /\ sent[c][1].type = "whoami"
             /\ Arriving(Tail(inbox[c]), sent[c], 1)
  <2>1. /\ Head(inbox[c]) = DueChunk(sent[c], 1) /\ 1 <= Len(sent[c])
        /\ Arriving(Tail(inbox[c]), sent[c], 1)
    BY <1>1, <1>3, ArrivingTail
  <2> QED  BY <1>2, <2>1 DEF DueChunk
<1>4. ASSUME 1 <= Len(sent[c]), Arriving(inbox[c], sent[c], 1)
      PROVE  /\ Head(inbox[c]).part = "payload" /\ Head(inbox[c]).msg = sent[c][1]
             /\ Arriving(Tail(inbox[c]), sent[c], 2)
  <2>1. Head(inbox[c]) = DueChunk(sent[c], 2) /\ Arriving(Tail(inbox[c]), sent[c], 2)
    BY <1>1, <1>4, ArrivingTail
  <2> QED  BY <2>1 DEF DueChunk
<1>5. ASSUME 1 <= Len(sent[c]), Arriving(inbox[c], sent[c], 2)
      PROVE  /\ 2 <= Len(sent[c]) /\ Head(inbox[c]).part = "header"
             /\ Head(inbox[c]).msg = sent[c][2] /\ sent[c][2].type = "whoamiack"
  <2>1. 2 <= Len(sent[c])
    <3>1. \/ Len(sent[c]) = 0 /\ Due(sent[c]) = 0
          \/ Len(sent[c]) = 1 /\ Due(sent[c]) = 2
          \/ Len(sent[c]) >= 2 /\ Due(sent[c]) = 3
      BY <1>1, DueCases
    <3>2. Len(sent[c]) < 2 => 2 + Len(inbox[c]) = Due(sent[c])
      BY <1>5 DEF Arriving
    <3>3. \A n, left \in Nat : 1 <= n /\ 1 <= left /\ n = 1 => n # 0 /\ n < 2 /\ 2 + left # 2
      OBVIOUS
    <3> QED  BY <1>1, <1>5, <3>1, <3>2, <3>3
  <2>2. Head(inbox[c]) = DueChunk(sent[c], 3)
    BY <1>1, <1>5, <2>1, ArrivingTail
  <2> QED  BY <1>2, <2>1, <2>2 DEF DueChunk
<1> QED  BY <1>3, <1>4, <1>5

(* A step of one connection leaves the others alone.                         *)
LEMMA Elsewhere ==
  ASSUME Types, Domains, NEW c \in Conns,
         \/ ReadHeader(c) \/ ReadPayload(c) \/ MissHeader(c) \/ Misread(c)
         \/ EndOfFile(c) \/ HandleWrite(c) \/ HandleAccept(c) \/ Fails(c)
         \/ PeerEnds(c) \/ PeerSends(c)
  PROVE  Domains' /\ \A d \in Conns \ {c} : SameAt(d)
<1> DEFINE Handler == /\ ConnectionAt(c)
                      /\ \A d \in Conns \ {c} : /\ pending'[d] = pending[d]
                                                /\ handled'[d] = handled[d]
<1>1. ASSUME NEW of, NEW t, NEW rest, HandleHeader(c, of, t, rest) PROVE Handler
  BY <1>1, HeaderLocal
<1>2. ASSUME NEW m, NEW rest, HandleMessage(c, m, rest) PROVE Handler
  BY <1>2, MessageLocal
<1> HIDE DEF Handler
<1>3. CASE ReadHeader(c) \/ ReadPayload(c) \/ MissHeader(c) \/ Misread(c) \/ EndOfFile(c)
  <2>1. Handler
    BY <1>1, <1>2, <1>3 DEF ReadHeader, ReadPayload, MissHeader, Misread, EndOfFile
  <2>2. \A d \in Conns \ {c} : /\ inbox'[d] = inbox[d] /\ aligned'[d] = aligned[d]
                               /\ sent'[d] = sent[d]
    BY <1>3 DEF ReadHeader, ReadPayload, MissHeader, Misread, EndOfFile, Consume, Types
  <2> QED  BY <2>1, <2>2 DEF Handler, ConnectionAt, SameAt
<1>4. CASE HandleWrite(c) \/ HandleAccept(c)
  <2>1. ConnectionAt(c)
    BY <1>4, OthersLocal DEF HandleWrite, HandleAccept
  <2> QED  BY <1>4, <2>1 DEF HandleWrite, HandleAccept, StartRead, ConnectionAt, SameAt, Types
<1>5. CASE Fails(c) \/ PeerEnds(c)
  <2>1. ConnectionAt(c)
    BY <1>5, OthersLocal DEF Fails, PeerEnds
  <2> QED  BY <1>5, <2>1 DEF Fails, PeerEnds, ioVars, ConnectionAt, SameAt
<1>6. CASE PeerSends(c)
  BY <1>6 DEF PeerSends, connection, SameAt, Domains, Types
<1> QED  BY <1>3, <1>4, <1>5, <1>6

-----------------------------------------------------------------------------
(* A header read meets the header of the WhoAmI or of the WhoAmIAck.         *)
LEMMA HeaderStage ==
  ASSUME IInv, NEW c \in Conns, ReadHeader(c), Begins(c)
  PROVE  Stage(c)'
<1> DEFINE m == Head(inbox[c]).msg
<1>1. /\ Types /\ Domains /\ link[c] = "open" /\ inbox[c] # <<>> /\ pending[c] # <<>>
      /\ Oldest(c).part = "header" /\ sent' = sent
      /\ inbox'[c] = Tail(inbox[c]) /\ aligned' = aligned /\ m \in Message
  BY ChunkRead DEF IInv, ReadHeader, Serves, Consume, Types, Oldest
<1>2. PICK t \in ParsedAs(m.type) :
        HandleHeader(c, IF HasPayload(m) THEN m ELSE Nothing, t, Others(c))
  BY DEF ReadHeader
<1>3. t \in Kinds
  BY <1>1, <1>2, TypesParsed DEF Message, Kinds
<1> DEFINE of == IF HasPayload(m) THEN m ELSE Nothing
<1>4. /\ link' = link /\ completed' = completed /\ link[c] = "open"
      /\ of = Nothing => handled'[c] = Append(handled[c], BlankOf(t))
      /\ of # Nothing => handled' = handled
  BY <1>1, <1>2, HeaderLocal
<1>5. CASE aligned[c] /\ NothingRead(c)
  <2>1. /\ m = sent[c][1] /\ 1 <= Len(sent[c]) /\ m.type = "whoami"
        /\ Arriving(Tail(inbox[c]), sent[c], 1)
    BY <1>1, <1>5, NextDue DEF NothingRead
  <2>2. Len(pending[c]) = 1
    BY <1>1, <1>5 DEF NothingRead, Unanswered, Types
  <2>3. HasPayload(m) /\ m # Nothing /\ t \in {"whoami", "whoamiack"}
    BY <1>2, <2>1 DEF HasPayload, Nothing, Other, ParsedAs
  <2>4. /\ pending'[c] = <<PayloadRead(m, t)>>
        /\ handled' = handled /\ status' = status /\ written' = written
    BY <1>1, <1>2, <2>2, <2>3, HeaderLocal, OnlyRead
  <2>5. Unanswered(c)'
    BY <1>4, <1>5, <2>2, <2>4 DEF NothingRead, Unanswered
  <2>6. HeaderSeen(c)'
    BY <1>1, <1>4, <2>1, <2>3, <2>4, <2>5 DEF HeaderSeen
  <2> QED  BY <1>1, <1>5, <2>6 DEF Stage
<1>6. CASE aligned[c] /\ HeaderSeen(c)
  <2>1. Oldest(c).part = "payload"
    BY <1>1, <1>6, OnlyRead DEF HeaderSeen, PayloadRead
  <2> QED  BY <1>1, <2>1
<1>7. CASE aligned[c] /\ Greeted(c)
  <2>1. /\ m = sent[c][2] /\ 2 <= Len(sent[c]) /\ m.type = "whoamiack"
    BY <1>1, <1>7, NextDue DEF Greeted
  <2>2. m \in Traffic /\ ~HasPayload(m) /\ t = "whoamiack"
    BY <1>1, <1>2, <2>1, ElementOfSeq DEF HasPayload, ParsedAs, Types
  <2>3. BlankOf(t) = m
    BY <2>1, <2>2, TrafficAssumption
  <2>4. handled'[c] = Append(handled[c], m)
    BY <1>4, <2>2, <2>3
  <2>5. /\ Len(handled'[c]) = 2 /\ handled'[c][1] = handled[c][1] /\ handled'[c][2] = m
    <3>1. handled[c] \in Seq(Message) /\ Len(handled[c]) = 1
      BY <1>1, <1>7 DEF Types, Greeted
    <3> QED  BY <1>1, <2>4, <3>1, AppendProperties
  <2>6. Acknowledged(c)'
    BY <1>1, <1>4, <1>7, <2>1, <2>5 DEF Acknowledged, Greeted, Taken
  <2> QED  BY <2>6 DEF Stage
<1>8. CASE Acknowledged(c)
  <2>1. \/ handled'[c] = handled[c]
        \/ \E x \in Message : handled'[c] = Append(handled[c], x)
    <3>1. BlankOf(t) \in Message
      BY <1>3, MessagesMade
    <3> QED  BY <1>4, <3>1
  <2> QED  BY <1>1, <1>4, <1>8, <2>1, AcknowledgedKept DEF Stage
<1> QED  BY <1>1, <1>5, <1>6, <1>7, <1>8 DEF IInv, Stage

(* A payload read meets the payload of the WhoAmI.                           *)
LEMMA PayloadStage ==
  ASSUME IInv, NEW c \in Conns, ReadPayload(c), Begins(c)
  PROVE  Stage(c)'
<1> DEFINE m == As(Oldest(c).of, Oldest(c).type)
<1>1. /\ Types /\ Domains /\ link[c] = "open" /\ inbox[c] # <<>> /\ pending[c] # <<>>
      /\ Oldest(c).part = "payload" /\ sent' = sent
      /\ inbox'[c] = Tail(inbox[c]) /\ aligned' = aligned
      /\ HandleMessage(c, m, Others(c)) /\ Oldest(c) \in Reading
  BY Served DEF IInv, ReadPayload, Serves, Consume, Types, Oldest
<1>2. m \in Message
  BY <1>1, MessagesMade DEF Reading
<1>3. /\ link' = link /\ completed' = completed
      /\ pending'[c] = Append(Others(c), HeaderRead) /\ handled'[c] = Append(handled[c], m)
  BY <1>1, MessageLocal
<1>4. pending[c] \in Seq(Reading) /\ Oldest(c) = pending[c][1] /\ 1 \in DOMAIN pending[c]
  BY <1>1, HeadTailProperties, EmptySeq DEF Types, Oldest
<1>5. ~HeadersOnly(pending[c])
  BY <1>1, <1>4 DEF HeadersOnly, HeaderRead
<1>6. CASE aligned[c] /\ HeaderSeen(c)
  <2>1. PICK t \in {"whoami", "whoamiack"} : Oldest(c) = PayloadRead(sent[c][1], t)
    BY <1>4, <1>6 DEF HeaderSeen
  <2>2. m = As(sent[c][1], t) /\ sent[c][1].type = "whoami" /\ sent[c][1] \in Message
    <3>1. sent[c] \in Seq(Traffic) /\ 1 \in DOMAIN sent[c]
      BY <1>1, <1>6 DEF Types, HeaderSeen
    <3>2. sent[c][1] \in Message
      BY <3>1, ElementOfSeq, MessagesMade
    <3> QED  BY <2>1, <3>1, <3>2 DEF PayloadRead, Begins
  <2>3. Taken(m, sent[c][1])
    <3>1. As(sent[c][1], "whoami") = sent[c][1]
      BY <2>2 DEF As, Message
    <3> QED  BY <2>1, <2>2, <3>1 DEF Taken
  <2>4. Len(handled'[c]) = 1 /\ handled'[c][1] = m
    BY <1>2, <1>3, <1>6, AppendProperties DEF HeaderSeen, Unanswered
  <2>5. HeadersOnly(pending'[c])
    BY <1>1, <1>3, <1>6, OnlyRead DEF HeaderSeen, HeadersOnly
  <2>6. Arriving(Tail(inbox[c]), sent[c], 2)
    BY <1>1, <1>6, NextDue DEF HeaderSeen
  <2> QED  BY <1>1, <1>3, <1>6, <2>3, <2>4, <2>5, <2>6 DEF Stage, Greeted, HeaderSeen
<1>7. CASE Acknowledged(c)
  BY <1>1, <1>2, <1>3, <1>7, AcknowledgedKept DEF Stage
<1> QED  BY <1>1, <1>5, <1>6, <1>7 DEF IInv, Stage, NothingRead, Greeted

(* While the handshake is read, no read is stale or misses its chunk.        *)
LEMMA ReadsMeet ==
  ASSUME IInv, NEW c \in Conns, Begins(c), link[c] = "open",
         inbox[c] # <<>>, pending[c] # <<>>, ~Acknowledged(c)
  PROVE  Meets(c) /\ Oldest(c).fresh
<1>1. /\ Types /\ aligned[c] /\ pending[c] \in Seq(Reading)
      /\ NothingRead(c) \/ HeaderSeen(c) \/ Greeted(c)
  BY DEF IInv, Stage, Types
<1>2. Oldest(c) = pending[c][1] /\ 1 \in DOMAIN pending[c]
  BY <1>1, HeadTailProperties, EmptySeq DEF Oldest
<1>3. CASE HeadersOnly(pending[c]) /\ Head(inbox[c]).part = "header"
  BY <1>1, <1>2, <1>3 DEF HeadersOnly, HeaderRead, Meets
<1>4. CASE NothingRead(c) \/ Greeted(c)
  BY <1>1, <1>3, <1>4, NextDue DEF NothingRead, Greeted
<1>5. CASE HeaderSeen(c)
  <2>1. Head(inbox[c]).part = "payload" /\ Head(inbox[c]).msg = sent[c][1]
    BY <1>1, <1>5, NextDue DEF HeaderSeen
  <2> QED  BY <1>1, <1>2, <1>5, <2>1 DEF HeaderSeen, PayloadRead, Meets
<1> QED  BY <1>1, <1>4, <1>5

(* So stale and misplaced reads come after it, and change nothing of it.     *)
LEMMA StrayStage ==
  ASSUME IInv, NEW c \in Conns, MissHeader(c) \/ Misread(c), Begins(c)
  PROVE  Stage(c)'
<1>1. /\ Types /\ Domains /\ link[c] = "open" /\ inbox[c] # <<>> /\ pending[c] # <<>>
      /\ ~Meets(c) \/ ~Oldest(c).fresh
      /\ sent' = sent /\ Oldest(c) \in Reading
  BY Served DEF IInv, MissHeader, Misread, Serves
<1>2. Acknowledged(c)
  BY <1>1, ReadsMeet
<1>3. /\ link' = link
      /\ \/ handled'[c] = handled[c]
         \/ \E m \in Message : handled'[c] = Append(handled[c], m)
  <2>1. ASSUME NEW t \in StrayTypes, NEW of \in {Nothing, Garbage},
               HandleHeader(c, of, t, Others(c))
        PROVE  /\ link' = link
               /\ handled'[c] = handled[c] \/ \E m \in Message : handled'[c] = Append(handled[c], m)
    <3>1. BlankOf(t) \in Message
      BY <1>1, TypesParsed, MessagesMade
    <3>2. handled'[c] = handled[c] \/ handled'[c] = Append(handled[c], BlankOf(t))
      BY <1>1, <2>1, HeaderLocal
    <3> QED  BY <1>1, <2>1, <3>1, <3>2, HeaderLocal
  <2>2. ASSUME NEW m \in StrayPayloads(c), HandleMessage(c, m, Others(c))
        PROVE  link' = link /\ m \in Message /\ handled'[c] = Append(handled[c], m)
    BY <1>1, <2>2, MessageLocal, StrayPayload
  <2> QED  BY <2>1, <2>2 DEF MissHeader, Misread
<1>4. Acknowledged(c)'
  BY <1>1, <1>2, <1>3, AcknowledgedKept
<1> QED  BY <1>4 DEF Stage

(* Completed writes and the acceptance add header reads; before the first    *)
(* answer there is nothing more to add to one.                               *)
LEMMA StartStage ==
  ASSUME IInv, NEW c \in Conns, HandleWrite(c) \/ HandleAccept(c), Begins(c),
         link'[c] \in {"none", "open"}
  PROVE  Stage(c)'
<1>1. /\ Types /\ Domains /\ Stage(c) /\ pending[c] \in Seq(Reading)
      /\ pending'[c] = Append(pending[c], HeaderRead)
      /\ inbox' = inbox /\ aligned' = aligned /\ sent' = sent /\ handled' = handled
  BY DEF IInv, HandleWrite, HandleAccept, StartRead, Types
<1>2. HeadersOnly(pending[c]) => HeadersOnly(pending'[c])
  BY <1>1, AppendProperties DEF HeadersOnly
<1>3. Len(pending'[c]) = Len(pending[c]) + 1
  BY <1>1, ReadsMade, AppendProperties
<1>4. CASE HandleWrite(c)
  <2>1. /\ link' = link /\ status' = status /\ link[c] \in {"open", "closed"}
        /\ completed[c] < Len(written[c]) /\ completed'[c] = completed[c] + 1
        /\ status[c] # "Ack" => written' = written
    BY <1>1, <1>4 DEF HandleWrite, C!HandleWrite, C!WritePending, C!Idling, C!wire, Domains
  <2>2. link[c] = "open" /\ link'[c] = "open"
    BY <2>1
  <2>3. CASE Unanswered(c)
    <3>1. c \in Outbound /\ completed[c] = 0 /\ Len(pending[c]) = 0
      BY <2>1, <2>3 DEF Unanswered
    <3>2. Unanswered(c)'
      BY <1>1, <1>3, <2>1, <2>2, <2>3, <3>1 DEF Unanswered
    <3>3. ~HeaderSeen(c)
      BY <3>1 DEF HeaderSeen
    <3> QED
      BY <1>1, <1>2, <2>2, <2>3, <3>2, <3>3
         DEF Stage, NothingRead, Greeted, Unanswered, Acknowledged
  <2>4. CASE Greeted(c) \/ Acknowledged(c)
    BY <1>1, <1>2, <2>2, <2>4 DEF Stage, Greeted, Acknowledged
  <2> QED  BY <1>1, <2>2, <2>3, <2>4 DEF Stage, NothingRead, HeaderSeen
<1>5. CASE HandleAccept(c)
  <2>1. /\ link[c] = "none" /\ link'[c] = "open" /\ status' = status
        /\ written' = written /\ completed' = completed
    BY <1>1, <1>5 DEF HandleAccept, C!HandleAccept, C!wire, Domains
  <2>2. aligned[c] /\ NothingRead(c)
    BY <1>1, <2>1 DEF Stage, HeaderSeen, Greeted, Acknowledged
  <2>3. Unanswered(c)'
    <3>1. c \notin Outbound /\ Len(written[c]) = 0 /\ completed[c] = 0 /\ Len(pending[c]) = 0
      BY <2>1, <2>2 DEF NothingRead, Unanswered
    <3> QED  BY <1>1, <1>3, <2>1, <2>2, <3>1 DEF NothingRead, Unanswered
  <2> QED  BY <1>1, <1>2, <2>1, <2>2, <2>3 DEF Stage, NothingRead
<1> QED  BY <1>4, <1>5

(* What the peer sends is due or comes after it.                             *)
LEMMA SendStage ==
  ASSUME IInv, NEW c \in Conns, PeerSends(c), Begins(c)'
  PROVE  Stage(c)'
<1>1. PICK m \in Traffic : /\ sent'[c] = Append(sent[c], m)
                           /\ inbox'[c] = inbox[c] \o Chunks(m)
  BY DEF PeerSends, IInv, Types
<1>2. /\ Types /\ Domains /\ Stage(c) /\ link[c] = "open" /\ link' = link
      /\ status' = status /\ written' = written /\ completed' = completed
      /\ pending' = pending /\ aligned' = aligned /\ handled' = handled
      /\ sent[c] \in Seq(Traffic) /\ inbox[c] \in Seq(Chunk)
  BY DEF IInv, PeerSends, connection, Types
<1>3. /\ Len(sent[c]) \in Nat /\ DOMAIN sent[c] = 1 .. Len(sent[c])
      /\ Len(sent'[c]) = Len(sent[c]) + 1 /\ DOMAIN sent'[c] = 1 .. Len(sent[c]) + 1
      /\ \A i \in 1 .. Len(sent[c]) : sent'[c][i] = sent[c][i]
      /\ sent'[c][Len(sent[c]) + 1] = m
  BY <1>1, <1>2, AppendProperties
<1>4. Begins(c)
  BY <1>3 DEF Begins
<1>5. /\ Len(sent[c]) = 0 => HasPayload(m)
      /\ Len(sent[c]) = 1 => ~HasPayload(m)
  <2>1. CASE Len(sent[c]) = 0
    <3>1. 1 \in DOMAIN sent'[c] \cap 1 .. 2 /\ sent'[c][1] = m
      BY <1>3, <2>1
    <3> QED  BY <2>1, <3>1 DEF Begins, HasPayload
  <2>2. CASE Len(sent[c]) = 1
    <3>1. 2 \in DOMAIN sent'[c] \cap 1 .. 2 /\ sent'[c][2] = m
      BY <1>3, <2>2
    <3> QED  BY <2>2, <3>1 DEF Begins, HasPayload
  <2> QED  BY <2>1, <2>2
<1>6. ASSUME NEW k \in 0 .. 2, Arriving(inbox[c], sent[c], k)
      PROVE  Arriving(inbox'[c], sent'[c], k)
  BY <1>1, <1>2, <1>5, <1>6, ArrivingMore
<1>7. 1 <= Len(sent[c]) => 1 <= Len(sent'[c]) /\ sent'[c][1] = sent[c][1]
  BY <1>3
<1>8. CASE aligned[c] /\ NothingRead(c)
  BY <1>2, <1>6, <1>8 DEF Stage, NothingRead, Unanswered
<1>9. CASE aligned[c] /\ HeaderSeen(c)
  BY <1>2, <1>6, <1>7, <1>9 DEF Stage, HeaderSeen, Unanswered
<1>10. CASE aligned[c] /\ Greeted(c)
  BY <1>2, <1>6, <1>7, <1>10 DEF Stage, Greeted
<1>11. CASE Acknowledged(c)
  <2>1. Acknowledged(c)'
    BY <1>1, <1>2, <1>11, AcknowledgedKept
  <2> QED  BY <2>1 DEF Stage
<1> QED  BY <1>2, <1>4, <1>8, <1>9, <1>10, <1>11 DEF Stage

(* An ended connection handles nothing more that counts, and receives        *)
(* nothing: what was handled stays as it was.                                *)
LEMMA EndedStage ==
  ASSUME IInv, NEW c \in Conns,
         link'[c] \notin {"none", "open"}, sent'[c] = sent[c], handled'[c] = handled[c]
  PROVE  Stage(c)' /\ Intact(c)'
BY DEF IInv, Stage, Intact, Begins

(* Whatever the process has parsed before.                                   *)
LEMMA IInvInit ==
  ASSUME NEW types \in SUBSET Kinds, InitAfter(types)
  PROVE  IInv
<1>1. Types /\ Domains
  BY InitTypes DEF InitAfter, C!Init, Domains
<1>2. ASSUME NEW c \in Conns PROVE Stage(c) /\ Intact(c)
  <2>1. /\ sent[c] = <<>> /\ inbox[c] = <<>> /\ pending[c] = <<>> /\ handled[c] = <<>>
        /\ aligned[c] /\ completed[c] = 0 /\ status[c] # "Ack"
        /\ c \in Outbound => link[c] = "open"
        /\ Len(written[c]) = IF c \in Outbound THEN 1 ELSE 0
        /\ c \notin Outbound => link[c] = "none"
    BY <1>2 DEF InitAfter, C!Init
  <2>2. Len(<<>>) = 0 /\ DOMAIN <<>> = {}
    OBVIOUS
  <2>3. Arriving(<<>>, <<>>, 0)
    BY <2>2 DEF Arriving, Due
  <2>4. NothingRead(c)
    BY <2>1, <2>2, <2>3 DEF NothingRead, Unanswered, HeadersOnly
  <2> QED  BY <2>1, <2>2, <2>4 DEF Stage, Intact
<1> QED  BY <1>1, <1>2 DEF IInv

LEMMA IInvStep == IInv /\ [Next]_vars => IInv'
<1> SUFFICES ASSUME IInv, [Next]_vars PROVE IInv'
  OBVIOUS
<1>1. Types /\ Domains /\ Types'
  BY TypeStep DEF IInv
<1>2. CASE UNCHANGED vars
  <2>1. Domains' /\ \A d \in Conns : SameAt(d)
    BY <1>1, <1>2 DEF vars, ioVars, connection, Domains, SameAt
  <2> QED  BY <1>1, <2>1, StageKept DEF IInv
<1>3. ASSUME NEW c \in Conns,
             \/ ReadHeader(c) \/ ReadPayload(c) \/ MissHeader(c) \/ Misread(c)
             \/ EndOfFile(c) \/ HandleWrite(c) \/ HandleAccept(c) \/ Fails(c)
             \/ PeerEnds(c) \/ PeerSends(c)
      PROVE  IInv'
  <2>1. Domains' /\ \A d \in Conns \ {c} : SameAt(d)
    BY <1>1, <1>3, Elsewhere
  <2>2. ASSUME link'[c] \in {"none", "open"} => Stage(c)',
               \/ link'[c] \in {"none", "open"}
               \/ sent'[c] = sent[c] /\ handled'[c] = handled[c]
        PROVE  IInv'
    <3>1. Stage(c)' /\ Intact(c)'
      BY <1>1, <2>2, StageIntact, EndedStage
    <3>2. \A d \in Conns \ {c} : Stage(d)' /\ Intact(d)'
      BY <2>1, StageKept DEF IInv
    <3> QED  BY <1>1, <2>1, <3>1, <3>2 DEF IInv
  <2>3. CASE ReadHeader(c) \/ ReadPayload(c) \/ MissHeader(c) \/ Misread(c)
    <3>1. link'[c] = "open" /\ sent' = sent
      BY <1>1, <2>3, HeaderLocal, MessageLocal
         DEF ReadHeader, ReadPayload, MissHeader, Misread, Serves
    <3>2. Begins(c)' => Begins(c)
      BY <3>1 DEF Begins
    <3>3. Stage(c)'
      BY <2>3, <3>2, HeaderStage, PayloadStage, StrayStage DEF Stage
    <3> QED  BY <2>2, <3>1, <3>3
  <2>4. CASE EndOfFile(c)
    <3>1. link[c] = "closed" /\ sent' = sent
      BY <2>4 DEF EndOfFile
    <3>2. link' = link /\ handled'[c] = handled[c]
      BY <1>1, <2>4, <3>1, HeaderLocal, MessageLocal DEF EndOfFile
    <3> QED  BY <2>2, <3>1, <3>2
  <2>5. CASE HandleWrite(c) \/ HandleAccept(c)
    <3>1. sent' = sent /\ handled' = handled
      BY <2>5 DEF HandleWrite, HandleAccept
    <3>2. Begins(c)' => Begins(c)
      BY <3>1 DEF Begins
    <3>3. link'[c] \in {"none", "open"} => Stage(c)'
      BY <2>5, <3>2, StartStage DEF Stage
    <3> QED  BY <2>2, <3>1, <3>3
  <2>6. CASE Fails(c)
    <3>1. SameAt(c)
      BY <2>6 DEF Fails, ioVars, C!AcceptFails, C!Throw, C!wire, SameAt
    <3> QED  BY <1>1, <2>1, <3>1, StageKept DEF IInv
  <2>7. CASE PeerEnds(c)
    <3>1. link'[c] \in {"closed", "reset"} /\ sent' = sent /\ handled' = handled
      BY <1>1, <2>7 DEF PeerEnds, ioVars, C!PeerEnds, Domains
    <3> QED  BY <2>2, <3>1
  <2>8. CASE PeerSends(c)
    <3>1. link'[c] = "open"
      BY <2>8 DEF PeerSends, connection
    <3>2. Stage(c)'
      BY <2>8, SendStage DEF Stage
    <3> QED  BY <2>2, <3>1, <3>2
  <2> QED  BY <1>3, <2>3, <2>4, <2>5, <2>6, <2>7, <2>8
<1> QED  BY <1>2, <1>3 DEF Next

(* For any traffic and any order of completions, a WhoAmI and a WhoAmIAck    *)
(* that open what the peer sends are the first two messages handled: the     *)
(* reads overlap only after them (handleHeader, handleMessage, handleWrite). *)
THEOREM HandshakeIntactHolds == Spec => []HandshakeIntact
<1>1. IInv => HandshakeIntact
  BY DEF IInv, Intact, Begins, HandshakeIntact
<1>2. Init => IInv
  BY IInvInit DEF Init
<1> QED  BY <1>1, <1>2, IInvStep, PTL DEF Spec

-----------------------------------------------------------------------------
\* This program at both ends.

\* What an end has written in each status.
Said(s) == IF s = "Idle" THEN <<>>
           ELSE IF s \in {"Initiated", "Waiting"} THEN <<C!WhoAmI>>
           ELSE <<C!WhoAmI, C!WhoAmIAck>>

\* The messages that an end has handled put it in its status, and the status
\* says what it has written.
Standing(c) ==
  LET n == Len(handled[c])
  IN  /\ n \in 0 .. 2
      /\ status[c] =
           IF n = 2 THEN "Ack"
           ELSE IF c = Bound THEN IF n = 0 THEN "Initiated" ELSE "Waiting"
           ELSE IF n = 0 THEN "Idle" ELSE "WaitingAck"
      /\ written[c] = Said(status[c])
      /\ bufferedMessages[c] = <<>>

\* What has been sent to an end is what the other one has written, in order.
Delivered(c) ==
  LET from == written[FarEnd(c)]
  IN  /\ Len(sent[c]) <= Len(from)
      /\ \A i \in 1 .. Len(sent[c]) : sent[c][i] = OnWire(from[i])

\* The chunks that an end has taken from the network: two of the first message,
\* and one of the second.
Consumed(c) ==
  IF Len(handled[c]) > 0 THEN Len(handled[c]) + 1
  ELSE IF pending[c] # <<>> /\ Head(pending[c]).part = "payload" THEN 1 ELSE 0

\* The rest of what was sent to it is still on its way.
Left(c) == Len(inbox[c]) + Consumed(c) = Due(sent[c])

\* How the two ends stand to each other, one open connection between them.
Coupled ==
  /\ running /\ link[Bound] = "open" /\ link[Accepted] \in {"none", "open"}
  /\ DOMAIN bufferedMessages = Conns
  /\ \A c \in Conns : Standing(c) /\ Delivered(c) /\ Left(c)

\* The inductive invariant.
HIInv == IInv /\ Coupled

(* There are two ends, each the far end of the other.                        *)
LEMMA Ends ==
  /\ Bound \in Conns /\ Accepted \in Conns /\ Bound # Accepted
  /\ \A c \in Conns : c = Bound \/ c = Accepted
  /\ \A c \in Conns : FarEnd(c) \in Conns /\ FarEnd(c) # c /\ FarEnd(FarEnd(c)) = c
BY EndsAssumption DEF FarEnd

(* What has been written in any status is the beginning of the handshake.    *)
LEMMA Written ==
  ASSUME NEW s
  PROVE  /\ Len(Said(s)) \in 0 .. 2
         /\ 1 <= Len(Said(s)) => Said(s)[1] = C!WhoAmI
         /\ 2 <= Len(Said(s)) => Said(s)[2] = C!WhoAmIAck
         /\ Len(Said(s)) = IF s = "Idle" THEN 0
                           ELSE IF s \in {"Initiated", "Waiting"} THEN 1 ELSE 2
<1>1. CASE s = "Idle" /\ Said(s) = <<>>
  BY <1>1
<1>2. CASE s \in {"Initiated", "Waiting"} /\ Said(s) = <<C!WhoAmI>>
  BY <1>2
<1>3. CASE s \notin {"Idle", "Initiated", "Waiting"} /\ Said(s) = <<C!WhoAmI, C!WhoAmIAck>>
  BY <1>3
<1> QED  BY <1>1, <1>2, <1>3 DEF Said

(* What has been sent to an end is the beginning of the handshake.           *)
LEMMA Opening ==
  ASSUME HIInv, NEW c \in Conns
  PROVE  /\ Begins(c) /\ Len(sent[c]) \in 0 .. 2
         /\ 1 <= Len(sent[c]) => sent[c][1] = OnWire(C!WhoAmI)
         /\ 2 <= Len(sent[c]) => sent[c][2] = OnWire(C!WhoAmIAck)
<1>1. Standing(FarEnd(c)) /\ Delivered(c) /\ FarEnd(c) \in Conns /\ Types
  BY Ends DEF HIInv, Coupled, IInv
<1> DEFINE from == written[FarEnd(c)]
<1>2. /\ Len(from) \in 0 .. 2
      /\ 1 <= Len(from) => from[1] = C!WhoAmI
      /\ 2 <= Len(from) => from[2] = C!WhoAmIAck
  BY <1>1, Written DEF Standing
<1>3. sent[c] \in Seq(Traffic) /\ Len(sent[c]) \in Nat /\ DOMAIN sent[c] = 1 .. Len(sent[c])
  BY <1>1, LenProperties DEF Types
<1>4. /\ Len(sent[c]) <= Len(from)
      /\ \A i \in 1 .. Len(sent[c]) : sent[c][i] = OnWire(from[i])
  BY <1>1 DEF Delivered
<1> HIDE DEF from
<1>5. /\ Len(sent[c]) \in 0 .. 2
      /\ 1 <= Len(sent[c]) => sent[c][1] = OnWire(C!WhoAmI)
      /\ 2 <= Len(sent[c]) => sent[c][2] = OnWire(C!WhoAmIAck)
  <2>1. Len(sent[c]) \in 0 .. 2
    <3>1. \A n \in Nat, k \in 0 .. 2 : n <= k => n \in 0 .. 2
      OBVIOUS
    <3> QED  BY <1>2, <1>3, <1>4, <3>1
  <2>2. ASSUME 1 <= Len(sent[c]) PROVE sent[c][1] = OnWire(C!WhoAmI)
    <3>1. 1 \in 1 .. Len(sent[c]) /\ from[1] = C!WhoAmI
      BY <1>2, <1>3, <1>4, <2>2
    <3> QED  BY <1>4, <3>1
  <2>3. ASSUME 2 <= Len(sent[c]) PROVE sent[c][2] = OnWire(C!WhoAmIAck)
    <3>1. 2 \in 1 .. Len(sent[c]) /\ from[2] = C!WhoAmIAck
      BY <1>2, <1>3, <1>4, <2>3
    <3> QED  BY <1>4, <3>1
  <2> QED  BY <2>1, <2>2, <2>3
<1>6. OnWire(C!WhoAmI).type = "whoami" /\ OnWire(C!WhoAmIAck).type = "whoamiack"
  BY DEF OnWire, Hail, Other, C!WhoAmI, C!WhoAmIAck
<1>7. Begins(c)
  <2> SUFFICES ASSUME NEW i \in 1 .. 2, i <= Len(sent[c])
               PROVE  sent[c][i].type = <<"whoami", "whoamiack">>[i]
    BY <1>3 DEF Begins
  <2>1. CASE i = 1
    BY <1>5, <1>6, <2>1
  <2>2. CASE i = 2
    BY <1>5, <1>6, <2>2
  <2> QED  BY <2>1, <2>2
<1> QED  BY <1>5, <1>7

-----------------------------------------------------------------------------
(* What the network hands on is something that a peer may send.              *)
LEMMA TransmitSends ==
  ASSUME HIInv, NEW c \in Conns, Transmit(c)
  PROVE  /\ PeerSends(c)
         /\ Len(sent[c]) < Len(written[FarEnd(c)])
         /\ sent' = [sent EXCEPT ![c] = Append(@, OnWire(written[FarEnd(c)][Len(sent[c]) + 1]))]
         /\ inbox' = [inbox EXCEPT ![c] =
                        @ \o Chunks(OnWire(written[FarEnd(c)][Len(sent[c]) + 1]))]
         /\ OnWire(written[FarEnd(c)][Len(sent[c]) + 1]) \in Traffic
<1> DEFINE from == written[FarEnd(c)]
           m == OnWire(from[Len(sent[c]) + 1])
<1>1. Standing(FarEnd(c)) /\ FarEnd(c) \in Conns /\ Len(sent[c]) \in 0 .. 2
  BY Ends, Opening DEF HIInv, Coupled
<1>2. /\ Len(from) \in 0 .. 2
      /\ 1 <= Len(from) => from[1] = C!WhoAmI
      /\ 2 <= Len(from) => from[2] = C!WhoAmIAck
  BY <1>1, Written DEF Standing
<1>3. /\ link[c] = "open" /\ Len(sent[c]) + 1 <= Len(from)
      /\ sent' = [sent EXCEPT ![c] = Append(@, m)]
      /\ inbox' = [inbox EXCEPT ![c] = @ \o Chunks(m)]
      /\ UNCHANGED <<connection, pending, aligned, parsed, handled>>
  BY DEF Transmit
<1> HIDE DEF from
<1>4. Len(sent[c]) \in 0 .. 1 /\ Len(sent[c]) < Len(from)
  BY <1>1, <1>2, <1>3
<1>5. m \in Traffic
  <2>1. CASE Len(sent[c]) = 0
    BY <1>2, <1>4, <2>1, TransmitAssumption
  <2>2. CASE Len(sent[c]) = 1
    BY <1>2, <1>4, <2>2, TransmitAssumption
  <2> QED  BY <1>4, <2>1, <2>2
<1>6. Len(sent[c]) < MaxSent
  <2>1. \A n \in 0 .. 1, k \in Nat : k >= 2 => n < k
    OBVIOUS
  <2> QED  BY <1>4, <2>1, TransmitAssumption
<1> HIDE DEF m
<1>7. PeerSends(c)
  BY <1>3, <1>5, <1>6 DEF PeerSends, HIInv, Coupled
<1> QED  BY <1>3, <1>4, <1>5, <1>7 DEF m, from

(* So every step of the two ends is one of ConnectionIO.                     *)
LEMMA StepAllowed == HIInv /\ [HNext]_vars => [Next]_vars
BY TransmitSends DEF HNext, Next

LEMMA InitAllowed == HInit => IInv
BY TransmitAssumption, IInvInit DEF HInit, Kinds

-----------------------------------------------------------------------------
(* The sequence of what is held back is empty: sending it changes nothing.   *)
LEMMA NothingHeldBack ==
  ASSUME NEW c \in Conns, Domains, DOMAIN bufferedMessages = Conns,
         bufferedMessages[c] = <<>>, NEW S, written[c] \in Seq(S), NEW out \in Seq(S),
         C!Flush(c, out)
  PROVE  /\ written'[c] = written[c] \o out /\ bufferedMessages'[c] = <<>>
         /\ DOMAIN bufferedMessages' = Conns
         /\ \A d \in Conns \ {c} : bufferedMessages'[d] = bufferedMessages[d]
<1>1. C!Reverse(<<>>) = <<>>
  BY DEF C!Reverse
<1>2. (written[c] \o out) \o <<>> = written[c] \o out
  <2>1. \A s \in Seq(S) : s \o <<>> = s
    OBVIOUS
  <2>2. written[c] \o out \in Seq(S)
    OBVIOUS
  <2> QED  BY <2>1, <2>2
<1>3. /\ written' = [written EXCEPT ![c] = @ \o out \o C!Reverse(bufferedMessages[c])]
      /\ bufferedMessages' = [bufferedMessages EXCEPT ![c] = <<>>]
  BY DEF C!Flush
<1> QED  BY <1>1, <1>2, <1>3 DEF Domains

(* An end at which nothing of the handshake changes stands where it stood.   *)
LEMMA StandingKept ==
  ASSUME NEW d \in Conns, Standing(d), status'[d] = status[d], written'[d] = written[d],
         bufferedMessages'[d] = bufferedMessages[d], handled'[d] = handled[d]
  PROVE  Standing(d)'
BY DEF Standing, Said

(* Two messages, one after the other.                                        *)
LEMMA TwoInARow ==
  ASSUME NEW x, NEW y
  PROVE  <<x>> \o <<y>> = <<x, y>>
<1> DEFINE S == {x, y}
<1>1. <<x>> \in Seq(S) /\ <<y>> \in Seq(S) /\ <<x, y>> \in Seq(S)
  OBVIOUS
<1>2. Len(<<x>> \o <<y>>) = Len(<<x, y>>)
  OBVIOUS
<1>3. \A i \in 1 .. 2 : (<<x>> \o <<y>>)[i] = <<x, y>>[i]
  OBVIOUS
<1>4. <<x>> \o <<y>> \in Seq(S)
  BY <1>1, ConcatProperties
<1> HIDE DEF S
<1> QED  BY <1>1, <1>2, <1>3, <1>4, SeqEqual

(* The two messages of the handshake, and the sequences that are said.       *)
Sayings == {C!WhoAmI, C!WhoAmIAck}
LEMMA SayingsMade ==
  {<<>>, <<C!WhoAmI>>, <<C!WhoAmIAck>>, <<C!WhoAmI, C!WhoAmIAck>>} \subseteq Seq(Sayings)
<1>1. \A x, y \in Sayings : {<<>>, <<x>>, <<y>>, <<x, y>>} \subseteq Seq(Sayings)
  OBVIOUS
<1>2. C!WhoAmI \in Sayings /\ C!WhoAmIAck \in Sayings
  BY DEF Sayings
<1> QED  BY <1>1, <1>2

(* A message of the handshake that is handled brings its end one status on.  *)
LEMMA Advance ==
  ASSUME HIInv, NEW c \in Conns, NEW m, NEW rest, HandleMessage(c, m, rest),
         m.type \in {"whoami", "whoamiack"},
         Len(handled[c]) < 2, Len(handled'[c]) = Len(handled[c]) + 1
  PROVE  /\ running' = running /\ link' = link /\ DOMAIN bufferedMessages' = Conns
         /\ \A d \in Conns : Standing(d)'
<1>1. /\ Types /\ Domains /\ Standing(c) /\ DOMAIN bufferedMessages = Conns
      /\ bufferedMessages[c] = <<>> /\ Len(handled[c]) \in 0 .. 2
      /\ written[c] = Said(status[c])
  BY DEF HIInv, IInv, Coupled, Standing
<1>2. PICK version, type : C!UpdateStatus(c, version, type)
  BY DEF HandleMessage, Dispatch, C!ReceiveWhoAmI, C!OnWhoAmIAck
<1>3. running' = running /\ link' = link
  BY DEF HandleMessage, Dispatch, C!ReceiveWhoAmI, C!OnWhoAmIAck
<1>4. /\ ConnectionAt(c)
      /\ \A d \in Conns \ {c} : handled'[d] = handled[d]
  BY <1>1, MessageLocal
<1>5. ASSUME NEW out \in Seq(Sayings), C!Flush(c, out)
      PROVE  /\ written'[c] = written[c] \o out /\ bufferedMessages'[c] = <<>>
             /\ DOMAIN bufferedMessages' = Conns
             /\ \A d \in Conns \ {c} : bufferedMessages'[d] = bufferedMessages[d]
  <2>1. written[c] \in Seq(Sayings)
    BY <1>1, SayingsMade DEF Said
  <2> QED  BY <1>1, <1>5, <2>1, NothingHeldBack
<1>6. \/ Len(handled[c]) = 0 /\ Len(handled'[c]) = 1
      \/ Len(handled[c]) = 1 /\ Len(handled'[c]) = 2
  <2>1. \A n \in 0 .. 2 : \A k : n < 2 /\ k = n + 1 => (n = 0 /\ k = 1) \/ (n = 1 /\ k = 2)
    OBVIOUS
  <2> QED  BY <1>1, <2>1, Zenon
<1>7. CASE C!FromIdle(c, version)
  <2>1. /\ status[c] = "Idle" /\ status'[c] = "WaitingAck"
        /\ written'[c] = written[c] \o <<C!WhoAmI, C!WhoAmIAck>>
        /\ bufferedMessages' = bufferedMessages
    BY <1>1, <1>7 DEF C!FromIdle, Domains
  <2>2. c # Bound /\ Len(handled[c]) = 0 /\ written[c] = <<>>
    BY <1>1, <1>6, <2>1 DEF Standing, Said
  <2>3. written'[c] = <<C!WhoAmI, C!WhoAmIAck>>
    BY <2>1, <2>2
  <2>4. Standing(c)'
    BY <1>1, <1>6, <2>1, <2>2, <2>3 DEF Standing, Said
  <2> QED  BY <1>1, <1>3, <1>4, <2>1, <2>4, StandingKept DEF ConnectionAt, HIInv, Coupled
<1>8. CASE C!FromInitiated(c)
  <2>1. /\ status[c] = "Initiated" /\ status'[c] = "Waiting" /\ written' = written
        /\ bufferedMessages' = bufferedMessages
    BY <1>1, <1>8 DEF C!FromInitiated, C!wire, Domains
  <2>2. c = Bound /\ Len(handled[c]) = 0 /\ written[c] = <<C!WhoAmI>>
    BY <1>1, <1>6, <2>1 DEF Standing, Said
  <2>3. Standing(c)'
    BY <1>1, <1>6, <2>1, <2>2 DEF Standing, Said
  <2> QED  BY <1>1, <1>3, <1>4, <2>1, <2>3, StandingKept DEF ConnectionAt, HIInv, Coupled
<1>9. ASSUME NEW settled, C!FromWaitingAck(c, version, settled) \/ C!FromWaiting(c, version, settled)
      PROVE  DOMAIN bufferedMessages' = Conns /\ \A d \in Conns : Standing(d)'
  <2>1. PICK out \in Seq(Sayings) :
          /\ C!Flush(c, out) /\ status'[c] = "Ack"
          /\ \/ status[c] = "WaitingAck" /\ out = <<>>
             \/ status[c] = "Waiting" /\ out = <<C!WhoAmIAck>>
    BY <1>1, <1>9, SayingsMade DEF C!FromWaitingAck, C!FromWaiting, Domains
  <2>2. /\ written'[c] = written[c] \o out /\ bufferedMessages'[c] = <<>>
        /\ DOMAIN bufferedMessages' = Conns
        /\ \A d \in Conns \ {c} : bufferedMessages'[d] = bufferedMessages[d]
    BY <1>5, <2>1
  <2>3. Len(handled[c]) = 1
    BY <1>1, <1>6, <2>1 DEF Standing
  <2>4. written'[c] = <<C!WhoAmI, C!WhoAmIAck>>
    <3>1. <<C!WhoAmI, C!WhoAmIAck>> \o <<>> = <<C!WhoAmI, C!WhoAmIAck>>
      <4>1. \A x, y : <<x, y>> \o <<>> = <<x, y>>
        OBVIOUS
      <4> QED  BY <4>1
    <3>2. <<C!WhoAmI>> \o <<C!WhoAmIAck>> = <<C!WhoAmI, C!WhoAmIAck>>
      BY TwoInARow
    <3> QED  BY <1>1, <2>1, <2>2, <3>1, <3>2 DEF Said
  <2>5. Standing(c)'
    BY <1>6, <2>1, <2>2, <2>3, <2>4 DEF Standing, Said
  <2> QED  BY <1>4, <2>2, <2>5, StandingKept DEF ConnectionAt, HIInv, Coupled
<1>10. ~C!FromAck(c)
  <2>1. Len(handled[c]) # 2
    BY <1>6
  <2>2. status[c] # "Ack"
    BY <1>1, <2>1 DEF Standing
  <2> QED  BY <2>2 DEF C!FromAck
<1> QED  BY <1>2, <1>3, <1>7, <1>8, <1>9, <1>10 DEF C!UpdateStatus

-----------------------------------------------------------------------------
(* How many messages h have been handled when n have been sent, of whose d   *)
(* chunks i are left.                                                        *)
LEMMA HandedOfDue ==
  ASSUME NEW h \in 0 .. 2, NEW i \in Nat, NEW n \in Nat, NEW d,
         h > 0 => i + (h + 1) = d,
         \/ n = 0 /\ d = 0
         \/ n = 1 /\ d = 2
         \/ n >= 2 /\ d = 3
  PROVE  h <= n /\ (i # 0 => h < 2)
OBVIOUS

(* No end has handled more than has been sent to it, and what is not handled *)
(* or half read is still in its inbox.                                       *)
LEMMA Handed ==
  ASSUME HIInv, NEW c \in Conns
  PROVE  /\ Len(handled[c]) \in 0 .. 2 /\ Len(inbox[c]) \in Nat
         /\ Len(handled[c]) <= Len(sent[c])
         /\ inbox[c] # <<>> => Len(handled[c]) < 2
<1>1. /\ Len(handled[c]) \in 0 .. 2 /\ Left(c) /\ inbox[c] \in Seq(Chunk)
      /\ sent[c] \in Seq(Traffic)
  BY DEF HIInv, IInv, Coupled, Standing, Types
<1>2. /\ Len(inbox[c]) \in Nat /\ Len(sent[c]) \in Nat
      /\ inbox[c] # <<>> => Len(inbox[c]) # 0
  BY <1>1, EmptySeq
<1>3. Len(handled[c]) > 0 => Len(inbox[c]) + (Len(handled[c]) + 1) = Due(sent[c])
  BY <1>1 DEF Left, Consumed
<1>4. \/ Len(sent[c]) = 0 /\ Due(sent[c]) = 0
      \/ Len(sent[c]) = 1 /\ Due(sent[c]) = 2
      \/ Len(sent[c]) >= 2 /\ Due(sent[c]) = 3
  BY <1>1, DueCases
<1>5. Len(handled[c]) <= Len(sent[c]) /\ (Len(inbox[c]) # 0 => Len(handled[c]) < 2)
  BY <1>1, <1>2, <1>3, <1>4, HandedOfDue
<1> QED  BY <1>1, <1>2, <1>5

(* The end that accepts has heard from the one that connects before that one *)
(* hears from it, and ends the handshake after it.                           *)
InTurn ==
  /\ Len(handled[Bound]) > 0 => Len(handled[Accepted]) > 0
  /\ Len(handled[Accepted]) = 2 => Len(handled[Bound]) = 2
LEMMA TakeTurns == ASSUME HIInv PROVE InTurn
<1>1. /\ Standing(Bound) /\ Standing(Accepted) /\ Delivered(Bound) /\ Delivered(Accepted)
      /\ Bound \in Conns /\ Accepted \in Conns /\ Bound # Accepted
      /\ FarEnd(Bound) = Accepted /\ FarEnd(Accepted) = Bound
  BY Ends DEF HIInv, Coupled, FarEnd
<1>2. /\ Len(handled[Bound]) <= Len(sent[Bound]) /\ Len(sent[Bound]) \in 0 .. 2
      /\ Len(handled[Accepted]) <= Len(sent[Accepted]) /\ Len(sent[Accepted]) \in 0 .. 2
      /\ Len(handled[Bound]) \in 0 .. 2 /\ Len(handled[Accepted]) \in 0 .. 2
  BY <1>1, Handed, Opening
<1>3. /\ Len(sent[Bound]) <= Len(written[Accepted]) /\ Len(written[Accepted]) \in 0 .. 2
      /\ Len(sent[Accepted]) <= Len(written[Bound]) /\ Len(written[Bound]) \in 0 .. 2
  BY <1>1, Written DEF Delivered, Standing
<1>4. Len(handled[Accepted]) = 0 => Len(written[Accepted]) = 0
  BY <1>1 DEF Standing, Said
<1>5. Len(handled[Bound]) # 2 => Len(written[Bound]) = 1
  BY <1>1, <1>2 DEF Standing, Said
<1>6. \A h, s, w \in 0 .. 2 : h <= s /\ s <= w => (w = 0 => ~(h > 0)) /\ (w = 1 => h # 2)
  OBVIOUS
<1>7. \A h \in 0 .. 2 : h > 0 \/ h = 0
  OBVIOUS
<1>8. /\ Len(written[Accepted]) = 0 => ~(Len(handled[Bound]) > 0)
      /\ Len(written[Bound]) = 1 => Len(handled[Accepted]) # 2
  BY <1>2, <1>3, <1>6
<1> QED  BY <1>2, <1>4, <1>5, <1>7, <1>8 DEF InTurn

-----------------------------------------------------------------------------
\* Nothing changes at d but what the other end may have written more.
Undisturbed(d) ==
  /\ sent'[d] = sent[d] /\ inbox'[d] = inbox[d]
  /\ pending'[d] = pending[d] /\ handled'[d] = handled[d]

(* What has been written stays, as the status only goes on.                  *)
LEMMA WrittenGrows ==
  ASSUME NEW c \in Conns, Standing(c), Standing(c)',
         handled'[c] = handled[c] \/ Len(handled'[c]) = Len(handled[c]) + 1
  PROVE  /\ Len(written[c]) <= Len(written'[c])
         /\ \A i \in 1 .. Len(written[c]) : written'[c][i] = written[c][i]
<1>1. /\ Len(handled[c]) \in 0 .. 2 /\ Len(handled'[c]) \in 0 .. 2
      /\ Len(written[c]) = IF Len(handled[c]) = 2 THEN 2
                           ELSE IF c = Bound THEN 1
                           ELSE IF Len(handled[c]) = 0 THEN 0 ELSE 2
      /\ Len(written'[c]) = IF Len(handled'[c]) = 2 THEN 2
                            ELSE IF c = Bound THEN 1
                            ELSE IF Len(handled'[c]) = 0 THEN 0 ELSE 2
  <2>1. Len(handled[c]) \in 0 .. 2 /\ Len(handled'[c]) \in 0 .. 2
    BY DEF Standing
  <2>2. /\ Len(written[c]) = IF status[c] = "Idle" THEN 0
                             ELSE IF status[c] \in {"Initiated", "Waiting"} THEN 1 ELSE 2
        /\ Len(written'[c]) = IF status'[c] = "Idle" THEN 0
                              ELSE IF status'[c] \in {"Initiated", "Waiting"} THEN 1 ELSE 2
    BY Written DEF Standing
  <2> QED  BY <2>1, <2>2 DEF Standing
<1>2. Len(handled'[c]) = Len(handled[c]) \/ Len(handled'[c]) = Len(handled[c]) + 1
  OBVIOUS
<1>3. Len(written[c]) <= Len(written'[c])
  <2>1. CASE c = Bound
    <3>1. \A h, k \in 0 .. 2 : k = h \/ k = h + 1 =>
            (IF h = 2 THEN 2 ELSE 1) <= (IF k = 2 THEN 2 ELSE 1)
      OBVIOUS
    <3> QED  BY <1>1, <1>2, <2>1, <3>1
  <2>2. CASE c # Bound
    <3>1. \A h, k \in 0 .. 2 : k = h \/ k = h + 1 =>
            (IF h = 0 THEN 0 ELSE 2) <= (IF k = 0 THEN 0 ELSE 2)
      OBVIOUS
    <3> QED  BY <1>1, <1>2, <2>2, <3>1
  <2> QED  BY <2>1, <2>2
<1>4. ASSUME NEW i \in 1 .. Len(written[c])
      PROVE  written'[c][i] = written[c][i]
  <2>1. /\ Len(written[c]) \in 0 .. 2 /\ Len(written'[c]) \in 0 .. 2
        /\ 1 <= Len(written[c]) => written[c][1] = C!WhoAmI
        /\ 2 <= Len(written[c]) => written[c][2] = C!WhoAmIAck
        /\ 1 <= Len(written'[c]) => written'[c][1] = C!WhoAmI
        /\ 2 <= Len(written'[c]) => written'[c][2] = C!WhoAmIAck
    BY Written DEF Standing
  <2>2. CASE i = 1
    BY <1>3, <2>1, <2>2
  <2>3. CASE i = 2
    BY <1>3, <2>1, <2>3
  <2> QED  BY <2>1, <2>2, <2>3
<1> QED  BY <1>3, <1>4

LEMMA DeliveredKept ==
  ASSUME NEW d \in Conns, Delivered(d), sent'[d] = sent[d], Types,
         Standing(FarEnd(d)), Standing(FarEnd(d))',
         \/ handled'[FarEnd(d)] = handled[FarEnd(d)]
         \/ Len(handled'[FarEnd(d)]) = Len(handled[FarEnd(d)]) + 1
  PROVE  Delivered(d)'
<1> DEFINE e == FarEnd(d)
<1>1. e \in Conns /\ sent[d] \in Seq(Traffic)
  BY Ends DEF Types
<1>2. /\ Len(written[e]) <= Len(written'[e])
      /\ \A i \in 1 .. Len(written[e]) : written'[e][i] = written[e][i]
  BY <1>1, WrittenGrows
<1>3. /\ Len(sent[d]) \in Nat /\ Len(sent[d]) <= Len(written[e])
      /\ \A i \in 1 .. Len(sent[d]) : sent[d][i] = OnWire(written[e][i])
  BY <1>1 DEF Delivered
<1>4. Len(written[e]) \in 0 .. 2 /\ Len(written'[e]) \in 0 .. 2
  BY <1>1, Written DEF Standing
<1> HIDE DEF e
<1>5. /\ Len(sent[d]) <= Len(written'[e])
      /\ \A i \in 1 .. Len(sent[d]) : i \in 1 .. Len(written[e])
  BY <1>2, <1>3, <1>4
<1>6. \A i \in 1 .. Len(sent[d]) : sent'[d][i] = OnWire(written'[e][i])
  BY <1>2, <1>3, <1>5
<1> QED  BY <1>5, <1>6 DEF Delivered, e, FarEnd

(* A completed read of the exchange: what it takes from the inbox, and the   *)
(* message that it hands to the handler, if any.                             *)
LEMMA ReadStep ==
  ASSUME HIInv, NEW c \in Conns, ReadHeader(c) \/ ReadPayload(c)
  PROVE  /\ Left(c)' /\ sent' = sent
         /\ \A d \in Conns \ {c} : Undisturbed(d)
         /\ \/ handled' = handled /\ connection' = connection
            \/ /\ Len(handled[c]) < 2 /\ Len(handled'[c]) = Len(handled[c]) + 1
               /\ \E m, rest : /\ HandleMessage(c, m, rest)
                               /\ m.type \in {"whoami", "whoamiack"}
<1>1. /\ Types /\ Domains /\ link[c] = "open" /\ inbox[c] # <<>> /\ pending[c] # <<>>
      /\ sent' = sent /\ inbox' = [inbox EXCEPT ![c] = Tail(@)]
      /\ inbox[c] \in Seq(Chunk) /\ pending[c] \in Seq(Reading) /\ handled[c] \in Seq(Message)
      /\ Stage(c) /\ Left(c)
  BY DEF HIInv, IInv, Coupled, Types, ReadHeader, ReadPayload, Serves, Consume
<1>2. Begins(c) /\ Len(handled[c]) \in 0 .. 1 /\ Len(inbox[c]) \in Nat
  <2>1. \A n \in 0 .. 2 : n < 2 => n \in 0 .. 1
    OBVIOUS
  <2> QED  BY <1>1, <2>1, Handed, Opening
<1>3. aligned[c] /\ (NothingRead(c) \/ HeaderSeen(c) \/ Greeted(c))
  <2>1. ~Acknowledged(c)
    BY <1>2 DEF Acknowledged
  <2> QED  BY <1>1, <1>2, <2>1 DEF Stage
<1>4. /\ Len(inbox'[c]) + 1 = Len(inbox[c]) /\ Len(inbox'[c]) \in Nat
      /\ \A d \in Conns \ {c} : inbox'[d] = inbox[d]
  BY <1>1, HeadTailProperties DEF Types
<1>5. Oldest(c) = pending[c][1] /\ 1 \in DOMAIN pending[c] /\ Head(pending[c]) = Oldest(c)
  BY <1>1, HeadTailProperties, EmptySeq DEF Oldest
<1>6. NothingRead(c) \/ Greeted(c) => Oldest(c) = HeaderRead
  BY <1>5 DEF NothingRead, Greeted, HeadersOnly
<1>7. HeaderSeen(c) => Oldest(c).part = "payload"
  BY <1>5 DEF HeaderSeen, PayloadRead
<1>8. HeaderRead.part = "header"
  BY DEF HeaderRead
<1>9. CASE ReadHeader(c) /\ NothingRead(c)
  <2> DEFINE m == Head(inbox[c]).msg
  <2>1. /\ m = sent[c][1] /\ m.type = "whoami" /\ 1 <= Len(sent[c])
    BY <1>1, <1>2, <1>9, NextDue DEF NothingRead
  <2>2. HasPayload(m) /\ m # Nothing
    BY <2>1 DEF HasPayload, Nothing, Other
  <2>3. PICK t : HandleHeader(c, m, t, Others(c))
    BY <1>9, <2>2 DEF ReadHeader
  <2>4. /\ pending' = [pending EXCEPT ![c] = Append(Others(c), PayloadRead(m, t))]
        /\ handled' = handled /\ connection' = connection
    BY <2>2, <2>3 DEF HandleHeader
  <2>5. Len(pending[c]) = 1
    <3>1. Len(pending[c]) <= 1 /\ Len(pending[c]) # 0 /\ Len(pending[c]) \in Nat
      BY <1>1, <1>9, EmptySeq DEF NothingRead, Unanswered
    <3>2. \A n \in Nat : n <= 1 /\ n # 0 => n = 1
      OBVIOUS
    <3> QED  BY <3>1, <3>2
  <2>6. pending'[c] = <<PayloadRead(m, t)>>
    BY <1>1, <2>4, <2>5, OnlyRead DEF Types
  <2>7. pending'[c] # <<>> /\ Head(pending'[c]).part = "payload"
    BY <2>6 DEF PayloadRead
  <2>8. Len(handled[c]) = 0
    BY <1>9 DEF NothingRead, Unanswered
  <2>9. Consumed(c) = 0 /\ Consumed(c)' = 1
    BY <1>5, <1>6, <1>8, <1>9, <2>4, <2>7, <2>8 DEF Consumed
  <2>10. Left(c)'
    BY <1>1, <1>2, <1>4, <2>9 DEF Left, Due
  <2> QED  BY <1>1, <1>4, <2>4, <2>10 DEF Undisturbed, Types
<1>10. CASE ReadHeader(c) /\ Greeted(c)
  <2> DEFINE m == Head(inbox[c]).msg
  <2>1. /\ m = sent[c][2] /\ m.type = "whoamiack" /\ Len(handled[c]) = 1
    BY <1>1, <1>2, <1>10, NextDue DEF Greeted
  <2>2. ~HasPayload(m)
    BY <2>1 DEF HasPayload
  <2>3. HandleHeader(c, Nothing, "whoamiack", Others(c))
    BY <1>10, <2>1, <2>2 DEF ReadHeader, ParsedAs
  <2>4. HandleMessage(c, BlankOf("whoamiack"), Others(c)) /\ BlankOf("whoamiack").type = "whoamiack"
    BY <2>3 DEF HandleHeader, BlankOf, Other
  <2>5. /\ \A d \in Conns \ {c} : pending'[d] = pending[d] /\ handled'[d] = handled[d]
        /\ handled'[c] = Append(handled[c], BlankOf("whoamiack"))
    BY <1>1, <2>4, MessageLocal
  <2>6. Len(handled'[c]) = 2
    <3>1. \A s \in Seq(Message) : \A x : Len(s) = 1 => Len(Append(s, x)) = 2
      OBVIOUS
    <3> QED  BY <1>1, <2>1, <2>5, <3>1
  <2>7. Consumed(c) = 2 /\ Consumed(c)' = 3
    BY <2>1, <2>6 DEF Consumed
  <2>8. Left(c)'
    BY <1>1, <1>2, <1>4, <2>7 DEF Left, Due
  <2> QED  BY <1>1, <1>4, <2>1, <2>4, <2>5, <2>6, <2>8 DEF Undisturbed
<1>11. CASE ReadPayload(c) /\ HeaderSeen(c)
  <2>1. PICK t \in {"whoami", "whoamiack"} : Oldest(c) = PayloadRead(sent[c][1], t)
    BY <1>5, <1>11 DEF HeaderSeen
  <2> DEFINE m == As(Oldest(c).of, Oldest(c).type)
  <2>2. HandleMessage(c, m, Others(c)) /\ m.type = t
    <3>1. sent[c][1] \in Message
      <4>1. sent[c] \in Seq(Traffic) /\ 1 \in 1 .. Len(sent[c])
        BY <1>1, <1>11 DEF HeaderSeen, Types
      <4> QED  BY <4>1, ElementOfSeq, MessagesMade
    <3> QED  BY <1>11, <2>1, <3>1 DEF ReadPayload, PayloadRead, As, Message
  <2>3. /\ \A d \in Conns \ {c} : pending'[d] = pending[d] /\ handled'[d] = handled[d]
        /\ handled'[c] = Append(handled[c], m)
    BY <1>1, <2>2, MessageLocal
  <2>4. Len(handled[c]) = 0 /\ Len(handled'[c]) = 1
    <3>1. Len(handled[c]) = 0
      BY <1>11 DEF HeaderSeen, Unanswered
    <3> HIDE DEF m
    <3>2. Len(Append(handled[c], m)) = Len(handled[c]) + 1
      BY <1>1
    <3> QED  BY <2>3, <3>1, <3>2
  <2>5. Consumed(c) = 1 /\ Consumed(c)' = 2
    BY <1>1, <1>5, <1>7, <1>11, <2>4 DEF Consumed
  <2>6. Left(c)'
    BY <1>1, <1>2, <1>4, <2>5 DEF Left, Due
  <2> QED  BY <1>1, <1>4, <2>1, <2>2, <2>3, <2>4, <2>6 DEF Undisturbed
<1>12. /\ ReadHeader(c) => Oldest(c).part = "header"
       /\ ReadPayload(c) => Oldest(c).part = "payload"
  BY DEF ReadHeader, ReadPayload, Serves, Oldest
<1> QED  BY <1>3, <1>6, <1>7, <1>8, <1>9, <1>10, <1>11, <1>12

-----------------------------------------------------------------------------
\* What a step of the exchange does to the messages handled.
Moves(c) ==
  /\ handled'[c] = handled[c] \/ Len(handled'[c]) = Len(handled[c]) + 1
  /\ \A d \in Conns \ {c} : handled'[d] = handled[d]

(* Where nothing is taken from the inbox, nothing of it is lost.             *)
LEMMA LeftKept ==
  ASSUME Types, NEW d \in Conns, Left(d), sent'[d] = sent[d], inbox'[d] = inbox[d],
         handled'[d] = handled[d],
         pending'[d] = pending[d] \/ pending'[d] = Append(pending[d], HeaderRead)
  PROVE  Left(d)'
<1>1. pending[d] \in Seq(Reading)
  BY DEF Types
<1>2. CASE pending'[d] = pending[d]
  BY <1>2 DEF Left, Consumed
<1>3. CASE pending'[d] = Append(pending[d], HeaderRead) /\ pending[d] = <<>>
  <2>1. Head(pending'[d]).part = "header"
    BY <1>3 DEF HeaderRead
  <2> QED  BY <1>3, <2>1 DEF Left, Consumed
<1>4. CASE pending'[d] = Append(pending[d], HeaderRead) /\ pending[d] # <<>>
  <2>1. pending'[d] # <<>> /\ Head(pending'[d]) = Head(pending[d])
    BY <1>1, <1>4, AppendProperties, HeadTailProperties, EmptySeq
  <2> QED  BY <1>4, <2>1 DEF Left, Consumed
<1> QED  BY <1>2, <1>3, <1>4

LEMMA ReadCouples ==
  ASSUME HIInv, NEW c \in Conns, ReadHeader(c) \/ ReadPayload(c)
  PROVE  Coupled' /\ Moves(c)
<1>1. /\ Types /\ Left(c)' /\ sent' = sent
      /\ \A d \in Conns \ {c} : Undisturbed(d)
  BY ReadStep DEF HIInv, IInv
<1>2. \A d \in Conns : Standing(d) /\ Delivered(d) /\ Left(d)
  BY DEF HIInv, Coupled
<1>3. /\ running' = running /\ link' = link /\ DOMAIN bufferedMessages' = Conns
      /\ \A d \in Conns : Standing(d)'
      /\ handled'[c] = handled[c] \/ Len(handled'[c]) = Len(handled[c]) + 1
  <2>1. CASE handled' = handled /\ connection' = connection
    BY <1>2, <2>1, StandingKept DEF connection, HIInv, Coupled
  <2>2. CASE /\ Len(handled[c]) < 2 /\ Len(handled'[c]) = Len(handled[c]) + 1
             /\ \E m, rest : /\ HandleMessage(c, m, rest)
                             /\ m.type \in {"whoami", "whoamiack"}
    BY <2>2, Advance
  <2> QED  BY <2>1, <2>2, ReadStep
<1>4. Moves(c)
  BY <1>1, <1>3 DEF Moves, Undisturbed
<1>5. \A d \in Conns : Delivered(d)'
  <2> TAKE d \in Conns
  <2>1. FarEnd(d) \in Conns /\ sent'[d] = sent[d]
    BY <1>1, Ends
  <2> QED  BY <1>1, <1>2, <1>3, <1>4, <2>1, DeliveredKept DEF Moves
<1>6. \A d \in Conns : Left(d)'
  BY <1>1, <1>2, LeftKept DEF Undisturbed
<1> QED  BY <1>3, <1>4, <1>5, <1>6 DEF HIInv, Coupled

(* A completed write, or an acceptance, starts a header read; nothing is     *)
(* held back that could be written.                                          *)
LEMMA StartCouples ==
  ASSUME HIInv, NEW c \in Conns, HandleWrite(c) \/ HandleAccept(c)
  PROVE  Coupled' /\ Moves(c)
<1>1. /\ Types /\ Domains /\ DOMAIN bufferedMessages = Conns
      /\ \A d \in Conns : Standing(d) /\ Delivered(d) /\ Left(d)
  BY DEF HIInv, IInv, Coupled
<1>2. /\ inbox' = inbox /\ sent' = sent /\ handled' = handled /\ running' = running
      /\ status' = status
      /\ \A d \in Conns : pending'[d] = pending[d] \/ pending'[d] = Append(pending[d], HeaderRead)
      /\ link' = link \/ (link[c] = "none" /\ link' = [link EXCEPT ![c] = "open"])
  BY <1>1 DEF HandleWrite, HandleAccept, StartRead, C!HandleWrite, C!HandleAccept, Types
<1>3. /\ DOMAIN bufferedMessages' = Conns
      /\ \A d \in Conns : /\ bufferedMessages'[d] = bufferedMessages[d]
                          /\ written'[d] = written[d]
  <2>1. CASE bufferedMessages' = bufferedMessages /\ written' = written
    BY <1>1, <2>1
  <2>2. CASE C!Flush(c, <<>>)
    <3>1. bufferedMessages[c] = <<>> /\ written[c] \in Seq(Sayings)
      BY <1>1, SayingsMade DEF Standing, Said
    <3>2. <<>> \in Seq(Sayings) /\ written[c] \o <<>> = written[c]
      <4>1. \A s \in Seq(Sayings) : s \o <<>> = s
        OBVIOUS
      <4> QED  BY <3>1, <4>1, SayingsMade
    <3>3. /\ written'[c] = written[c] /\ bufferedMessages'[c] = <<>>
          /\ DOMAIN bufferedMessages' = Conns
          /\ \A d \in Conns \ {c} : bufferedMessages'[d] = bufferedMessages[d]
      BY <1>1, <2>2, <3>1, <3>2, NothingHeldBack
    <3>4. \A d \in Conns \ {c} : written'[d] = written[d]
      BY <1>1, <2>2 DEF C!Flush, Domains
    <3> QED  BY <3>1, <3>3, <3>4
  <2>3. \/ C!Flush(c, <<>>)
        \/ bufferedMessages' = bufferedMessages /\ written' = written
    BY DEF HandleWrite, HandleAccept, C!HandleWrite, C!HandleAccept, C!Idling, C!wire
  <2> QED  BY <2>1, <2>2, <2>3
<1>4. Moves(c)
  BY <1>2 DEF Moves
<1>5. \A d \in Conns : Standing(d)' /\ Left(d)'
  BY <1>1, <1>2, <1>3, StandingKept, LeftKept
<1>6. \A d \in Conns : Delivered(d)'
  BY <1>1, <1>2, <1>3, Ends DEF Delivered
<1>7. link'[Bound] = "open" /\ link'[Accepted] \in {"none", "open"}
  BY <1>1, <1>2, Ends DEF HIInv, Coupled, Domains
<1> QED  BY <1>2, <1>3, <1>4, <1>5, <1>6, <1>7 DEF HIInv, Coupled

(* What is sent is what has been written, and it goes to the inbox whole.    *)
LEMMA TransmitCouples ==
  ASSUME HIInv, NEW c \in Conns, Transmit(c)
  PROVE  Coupled' /\ Moves(c)
<1> DEFINE from == written[FarEnd(c)]
           m == OnWire(from[Len(sent[c]) + 1])
<1>1. /\ Types /\ \A d \in Conns : Standing(d) /\ Delivered(d) /\ Left(d)
  BY DEF HIInv, IInv, Coupled
<1>2. /\ sent[c] \in Seq(Traffic) /\ inbox[c] \in Seq(Chunk) /\ Len(sent[c]) \in 0 .. 2
      /\ FarEnd(c) \in Conns
  BY <1>1, Opening, Ends DEF Types
<1>3. /\ Len(sent[c]) < Len(from) /\ m \in Traffic
      /\ sent' = [sent EXCEPT ![c] = Append(@, m)]
      /\ inbox' = [inbox EXCEPT ![c] = @ \o Chunks(m)]
      /\ UNCHANGED <<connection, pending, aligned, parsed, handled>>
  BY TransmitSends DEF Transmit
<1>4. /\ Len(from) \in 0 .. 2
      /\ 1 <= Len(from) => from[1] = C!WhoAmI
      /\ 2 <= Len(from) => from[2] = C!WhoAmIAck
  BY <1>1, <1>2, Written DEF Standing
<1>5. Moves(c)
  BY <1>3 DEF Moves
<1>6. \A d \in Conns : Standing(d)'
  BY <1>1, <1>3, StandingKept DEF connection
<1>7. \A d \in Conns \ {c} : Delivered(d)' /\ Left(d)'
  BY <1>1, <1>3, LeftKept DEF Delivered, connection, Types
<1>8. /\ sent'[c] = Append(sent[c], m) /\ inbox'[c] = inbox[c] \o Chunks(m)
      /\ written' = written
  BY <1>1, <1>3 DEF Types, connection
<1> HIDE DEF m
<1>9. /\ Len(sent'[c]) = Len(sent[c]) + 1 /\ sent'[c][Len(sent[c]) + 1] = m
      /\ \A i \in 1 .. Len(sent[c]) : sent'[c][i] = sent[c][i]
  BY <1>2, <1>8, AppendProperties
<1>10. Delivered(c)'
  <2>1. /\ Len(sent[c]) <= Len(from)
        /\ \A i \in 1 .. Len(sent[c]) : sent[c][i] = OnWire(from[i])
    BY <1>1 DEF Delivered
  <2>2. m = OnWire(from[Len(sent[c]) + 1])
    BY DEF m
  <2> HIDE DEF from
  <2>3. Len(sent'[c]) <= Len(from)
    BY <1>2, <1>3, <1>4, <1>9
  <2>4. ASSUME NEW i \in 1 .. Len(sent'[c])
        PROVE  sent'[c][i] = OnWire(from[i])
    <3>1. i \in 1 .. Len(sent[c]) \/ i = Len(sent[c]) + 1
      BY <1>2, <1>9, <2>4
    <3> QED  BY <1>9, <2>1, <2>2, <3>1
  <2> QED  BY <1>8, <2>3, <2>4 DEF Delivered, from, FarEnd
<1>11. Left(c)'
  <2>1. Chunks(m) \in Seq(Chunk)
    BY <1>3, MessagesMade, ReadsMade
  <2>2. Len(inbox'[c]) = Len(inbox[c]) + Len(Chunks(m)) /\ Len(inbox[c]) \in Nat
    BY <1>2, <1>8, <2>1, ConcatProperties
  <2>3. Consumed(c)' = Consumed(c) /\ Consumed(c) \in Nat
    BY <1>1, <1>3 DEF Consumed, Standing
  <2>4. Len(inbox[c]) + Consumed(c) = Due(sent[c])
    BY <1>1 DEF Left
  <2>5. \/ Len(sent[c]) = 0 /\ m = OnWire(C!WhoAmI)
        \/ Len(sent[c]) = 1 /\ m = OnWire(C!WhoAmIAck)
    <3>1. CASE Len(sent[c]) = 0
      BY <1>3, <1>4, <3>1 DEF m
    <3>2. CASE Len(sent[c]) = 1
      BY <1>3, <1>4, <3>2 DEF m
    <3>3. Len(sent[c]) # 2
      <4>1. \A n, k \in 0 .. 2 : n < k => n # 2
        OBVIOUS
      <4> QED  BY <1>2, <1>3, <1>4, <4>1
    <3> QED  BY <1>2, <3>1, <3>2, <3>3
  <2>6. CASE Len(sent[c]) = 0 /\ m = OnWire(C!WhoAmI)
    <3>1. Len(Chunks(m)) = 2
      BY <2>6 DEF OnWire, Hail, Chunks, HasPayload, C!WhoAmI
    <3>2. Due(sent[c]) = 0 /\ Due(sent'[c]) = 2
      BY <1>9, <2>6 DEF Due
    <3> QED  BY <2>2, <2>3, <2>4, <3>1, <3>2 DEF Left
  <2>7. CASE Len(sent[c]) = 1 /\ m = OnWire(C!WhoAmIAck)
    <3>1. Len(Chunks(m)) = 1
      BY <2>7 DEF OnWire, Other, Chunks, HasPayload, C!WhoAmI, C!WhoAmIAck
    <3>2. Due(sent[c]) = 2 /\ Due(sent'[c]) = 3
      BY <1>9, <2>7 DEF Due
    <3> QED  BY <2>2, <2>3, <2>4, <3>1, <3>2 DEF Left
  <2> QED  BY <2>5, <2>6, <2>7
<1> QED  BY <1>3, <1>5, <1>6, <1>7, <1>10, <1>11 DEF HIInv, Coupled, connection

LEMMA HIInvInit == HInit => HIInv
<1> SUFFICES ASSUME HInit PROVE Coupled
  BY InitAllowed DEF HIInv
<1>1. ASSUME NEW c \in Conns PROVE Standing(c) /\ Delivered(c) /\ Left(c)
  <2>1. /\ handled[c] = <<>> /\ sent[c] = <<>> /\ inbox[c] = <<>> /\ pending[c] = <<>>
        /\ bufferedMessages[c] = <<>>
        /\ status[c] = IF c = Bound THEN "Initiated" ELSE "Idle"
        /\ written[c] = IF c = Bound THEN <<C!WhoAmI>> ELSE <<>>
        /\ Len(<<>>) = 0 /\ 1 .. 0 = {}
    BY EndsAssumption DEF HInit, InitAfter, C!Init
  <2>2. Standing(c)
    BY <2>1 DEF Standing, Said
  <2>3. Delivered(c)
    <3>1. FarEnd(c) \in Conns /\ written[FarEnd(c)] \in {<<C!WhoAmI>>, <<>>}
      BY Ends DEF HInit, InitAfter, C!Init
    <3>2. 0 <= Len(written[FarEnd(c)])
      BY <3>1
    <3> QED  BY <2>1, <3>2 DEF Delivered
  <2>4. Left(c)
    BY <2>1 DEF Left, Consumed, Due
  <2> QED  BY <2>2, <2>3, <2>4
<1>2. /\ running /\ link[Bound] = "open" /\ link[Accepted] \in {"none", "open"}
      /\ DOMAIN bufferedMessages = Conns
  BY EndsAssumption DEF HInit, InitAfter, C!Init
<1> QED  BY <1>1, <1>2 DEF Coupled

(* Each step keeps the invariant and lets one end at most go on, by one      *)
(* message.                                                                  *)
LEMMA HIInvStep ==
  ASSUME HIInv, [HNext]_vars
  PROVE  HIInv' /\ \E c \in Conns : Moves(c)
<1>1. IInv'
  BY StepAllowed, IInvStep DEF HIInv
<1>2. CASE UNCHANGED vars
  <2>1. Coupled'
    BY <1>2 DEF HIInv, Coupled, Standing, Delivered, Left, Consumed, vars, ioVars, connection
  <2>2. Moves(Bound)
    BY <1>2 DEF Moves, vars, ioVars
  <2> QED  BY <1>1, <2>1, <2>2, Ends DEF HIInv
<1>3. CASE HNext
  BY <1>1, <1>3, ReadCouples, StartCouples, TransmitCouples DEF HNext, HIInv
<1> QED  BY <1>2, <1>3

LEMMA OneMore ==
  ASSUME NEW n \in 0 .. 2, NEW k \in 0 .. 2, k = n + 1
  PROVE  (n = 0 /\ k = 1) \/ (n = 1 /\ k = 2)
OBVIOUS

(* The statuses go on as Greeting says.                                      *)
LEMMA GreetingStep ==
  ASSUME HIInv, HIInv', InTurn, InTurn', NEW c \in Conns, Moves(c)
  PROVE  [G!Next]_(G!vars)
<1>1. /\ Bound \in Conns /\ Accepted \in Conns /\ Bound # Accepted
      /\ c = Bound \/ c = Accepted
  BY Ends
<1>2. /\ Standing(Bound) /\ Standing(Accepted) /\ Standing(Bound)' /\ Standing(Accepted)'
  BY <1>1 DEF HIInv, Coupled
<1>3. /\ Len(handled[Bound]) \in 0 .. 2 /\ Len(handled[Accepted]) \in 0 .. 2
      /\ Len(handled'[Bound]) \in 0 .. 2 /\ Len(handled'[Accepted]) \in 0 .. 2
  BY <1>2 DEF Standing
<1>4. /\ \A d \in Conns : \/ handled'[d] = handled[d]
                          \/ d = c /\ Len(handled'[d]) = Len(handled[d]) + 1
  BY DEF Moves
<1>5. CASE Len(handled'[Bound]) = Len(handled[Bound])
           /\ Len(handled'[Accepted]) = Len(handled[Accepted])
  BY <1>1, <1>2, <1>5 DEF Standing, G!vars
<1>6. CASE c = Bound /\ Len(handled'[Bound]) = Len(handled[Bound]) + 1
  <2>1. /\ handled'[Accepted] = handled[Accepted]
        /\ status'[Accepted] = status[Accepted]
    BY <1>1, <1>2, <1>4, <1>6 DEF Standing
  <2>2. CASE Len(handled[Bound]) = 0 /\ Len(handled'[Bound]) = 1
    <3>1. Len(handled[Accepted]) = 1
      BY <1>3, <2>1, <2>2 DEF InTurn
    <3>2. G!Meet
      BY <1>1, <1>2, <2>1, <2>2, <3>1 DEF Standing, G!Meet
    <3> QED  BY <3>2 DEF G!Next
  <2>3. CASE Len(handled[Bound]) = 1 /\ Len(handled'[Bound]) = 2
    <3>1. G!Acknowledge
      BY <1>1, <1>2, <2>1, <2>3 DEF Standing, G!Acknowledge
    <3> QED  BY <3>1 DEF G!Next
  <2> QED  BY <1>3, <1>6, <2>2, <2>3, OneMore
<1>7. CASE c = Accepted /\ Len(handled'[Accepted]) = Len(handled[Accepted]) + 1
  <2>1. /\ handled'[Bound] = handled[Bound]
        /\ status'[Bound] = status[Bound]
    BY <1>1, <1>2, <1>4, <1>7 DEF Standing
  <2>2. CASE Len(handled[Accepted]) = 0 /\ Len(handled'[Accepted]) = 1
    <3>1. G!Answer
      BY <1>1, <1>2, <2>1, <2>2 DEF Standing, G!Answer
    <3> QED  BY <3>1 DEF G!Next
  <2>3. CASE Len(handled[Accepted]) = 1 /\ Len(handled'[Accepted]) = 2
    <3>1. Len(handled[Bound]) = 2
      BY <2>1, <2>3 DEF InTurn
    <3>2. G!Complete
      BY <1>1, <1>2, <2>1, <2>3, <3>1 DEF Standing, G!Complete
    <3> QED  BY <3>2 DEF G!Next
  <2> QED  BY <1>3, <1>7, <2>2, <2>3, OneMore
<1> QED  BY <1>1, <1>4, <1>5, <1>6, <1>7

(* Two ends that run this program exchange their greetings as Greeting says, *)
(* whatever their processes have parsed before and in whatever order writes, *)
(* reads and deliveries complete (updateStatus, handleHeader, handleWrite).  *)
THEOREM FollowsGreetingHolds == HSpec => FollowsGreeting
<1>1. HIInv => InTurn
  BY TakeTurns
<1>2. HIInv /\ InTurn /\ HIInv' /\ InTurn' /\ [HNext]_vars => [G!Next]_(G!vars)
  BY HIInvStep, GreetingStep
<1>3. HInit => G!Init
  BY EndsAssumption DEF HInit, InitAfter, C!Init, G!Init
<1>4. HIInv /\ [HNext]_vars => HIInv'
  BY HIInvStep
<1> QED  BY <1>1, <1>2, <1>3, <1>4, HIInvInit, PTL DEF HSpec, FollowsGreeting

(* No end is ahead of what the other one has said: the acceptor ends the     *)
(* handshake after the initiator, which has heard from it (updateStatus).    *)
THEOREM NoHalfOpenHolds == HSpec => []G!NoHalfOpen
<1>1. G!Init => G!NoHalfOpen
  BY DEF G!Init, G!NoHalfOpen
<1>2. G!NoHalfOpen /\ [G!Next]_(G!vars) => G!NoHalfOpen'
  BY DEF G!NoHalfOpen, G!Next, G!vars, G!Answer, G!Meet, G!Acknowledge, G!Complete
<1> QED  BY <1>1, <1>2, FollowsGreetingHolds, PTL DEF FollowsGreeting
================================================================================
