----------------------------- MODULE ConnectionIO -----------------------------
(***************************************************************************)
(* Connection with its reads: the header and the payload of a message are  *)
(* read one after the other into one streambuf (handleHeader,              *)
(* handleMessage), and every completed write starts a header read of its   *)
(* own (handleWrite, idle), so that reads overlap.                         *)
(*                                                                         *)
(* What asio makes of overlapping reads of one socket into one streambuf:  *)
(*   - they are served in the order in which they were started, each with  *)
(*     its number of bytes;                                                *)
(*   - a read stores its bytes where the write position stood when it was  *)
(*     started; its completion moves that position on and hands out the    *)
(*     bytes below it.  After the completion of another read the bytes     *)
(*     stored and the bytes handed out are not the same: the read is stale *)
(*     and its handler finds what the buffer happens to hold.              *)
(***************************************************************************)
EXTENDS Naturals, Integers, Sequences, SequencesExt

CONSTANTS Hashes, Conns, Outbound, Remotes, Versions, Invs, KnownTx, KnownBlocks, MaxInvs,
          Traffic,   \* messages that a peer may send
          MaxSent    \* bound: how many of them on one connection

VARIABLES running, link, remote, status, peerType, versionUsed, bufferedMessages,
          written, completed, heldBack, answered, unregistred, connectedNodes, connectedRelays,
          inbox,    \* chunks that have arrived and are not read, oldest first
          pending,  \* the reads started and not completed, oldest first
          aligned,  \* whether headers have been read as headers so far
          parsed,   \* types whose header the process has parsed
          sent,     \* history: the messages the peer has sent
          handled   \* history: the messages MessageHandler was given

C == INSTANCE Connection WITH reads <- [c \in Conns |-> Len(pending[c])]

connection == <<running, link, remote, status, peerType, versionUsed, bufferedMessages,
                written, completed, heldBack, answered, unregistred, connectedNodes, connectedRelays>>
ioVars == <<inbox, pending, aligned, parsed, sent, handled>>
vars == <<connection, ioVars>>

-----------------------------------------------------------------------------
\* A message as the handler sees it.  Only whoami and inv carry fields here.
Hail(version, services) ==
  [type |-> "whoami", version |-> version, services |-> services, inv |-> <<>>]
Other(type) == [type |-> type, version |-> 0, services |-> "peer", inv |-> <<>>]
Announce(inv) == [type |-> "inv", version |-> 0, services |-> "peer", inv |-> inv]

\* The payload of m under the type t, and an empty payload under it.
As(m, t) == [m EXCEPT !.type = t]
BlankOf(t) == Other(t)

\* A message takes a header of fixed size and, if it has fields, a payload.
HasPayload(m) == m.type \in {"whoami", "inv"}
MessageTypes == {"whoami", "whoamiack", "getaddr", "addr", "inv", "getdata", "notfound",
                 "block", "tx", "getblocks", "getmempool", "unknown"}

\* What the model leaves out of a message is blank.
ASSUME TrafficAssumption ==
  /\ Traffic \subseteq [type : MessageTypes, version : Versions \cup {0},
                       services : C!PeerTypes, inv : Invs \cup {C!Blank}]
  /\ \A m \in Traffic : HasPayload(m) \/ m = BlankOf(m.type)

Chunks(m) ==
  <<[part |-> "header", msg |-> m]>>
    \o IF HasPayload(m) THEN <<[part |-> "payload", msg |-> m]>> ELSE <<>>

\* Lengths that belong to no message: none, and one that was never sent.
Nothing == Other("nothing")
Garbage == Other("garbage")

HeaderRead == [part |-> "header", of |-> Nothing, type |-> "none", fresh |-> TRUE]
PayloadRead(of, t) == [part |-> "payload", of |-> of, type |-> t, fresh |-> TRUE]

\* FixedStr leaves the bytes after the name as the stack holds them, and the
\* type is searched in all twelve: whoami in front of what an earlier
\* whoamiack left is found as whoamiack, inv in front of getaddr as addr.
ParsedAs(type) ==
  {type} \cup (IF type = "whoami" /\ "whoamiack" \in parsed THEN {"whoamiack"} ELSE {})
         \cup (IF type = "inv" /\ "getaddr" \in parsed THEN {"addr"} ELSE {})

\* What a header that was not filled from the wire may say.
StrayTypes == parsed \cup {"unknown"}

\* The bytes of a completed read move the write position: the reads still
\* outstanding become stale.
Stale(reads) == [i \in 1 .. Len(reads) |-> [reads[i] EXCEPT !.fresh = FALSE]]

\* MessageHandler, in Connection's terms.
Dispatch(c, m) ==
  \/ m.type = "whoami" /\ C!ReceiveWhoAmI(c, m.version, m.services)
  \/ m.type = "whoamiack" /\ C!OnWhoAmIAck(c)
  \/ m.type = "inv" /\ C!ReceiveInv(c, m.inv)
  \/ m.type \notin {"whoami", "whoamiack", "inv"} /\ C!OnUnknown(c)

\* handleMessage on m, when the reads `rest` are outstanding.
HandleMessage(c, m, rest) ==
  /\ pending' = [pending EXCEPT ![c] = Append(rest, HeaderRead)]
  /\ handled' = IF link[c] = "open" THEN [handled EXCEPT ![c] = Append(@, m)] ELSE handled
  /\ Dispatch(c, m)

HandleHeaderReadingBoth(c, of, t, rest) ==   \* mutation
  /\ parsed' = parsed \cup {t}
  /\ pending' = [pending EXCEPT ![c] = rest \o <<PayloadRead(of, t), HeaderRead>>]
  /\ UNCHANGED <<connection, handled>>
HandleHeaderNoPayload(c, of, t, rest) ==     \* mutation
  /\ parsed' = parsed \cup {t}
  /\ HandleMessage(c, BlankOf(t), rest)
\* handleHeader on a header of type t that announces the payload `of`.
HandleHeader(c, of, t, rest) ==
  /\ parsed' = parsed \cup {t}
  /\ IF of = Nothing
     THEN HandleMessage(c, BlankOf(t), rest)
     ELSE /\ pending' = [pending EXCEPT ![c] = Append(rest, PayloadRead(of, t))]
          /\ UNCHANGED <<connection, handled>>

-----------------------------------------------------------------------------
\* The oldest read of c is the one that completes; the others go stale.
Serves(c, part) ==
  /\ running /\ link[c] = "open"
  /\ inbox[c] # <<>> /\ pending[c] # <<>>
  /\ Head(pending[c]).part = part
Oldest(c) == Head(pending[c])
Others(c) == Stale(Tail(pending[c]))

\* The read meets the chunk it was made for.
Meets(c) ==
  /\ aligned[c]
  /\ Head(inbox[c]).part = Oldest(c).part
  /\ Oldest(c).part = "payload" => Head(inbox[c]).msg = Oldest(c).of

Consume(c) ==
  /\ inbox' = [inbox EXCEPT ![c] = Tail(@)]
  /\ UNCHANGED aligned

\* What a payload may be taken for that was not filled from the wire.
StrayPayloads(c) ==
  {BlankOf(Oldest(c).type)}
    \cup {As(sent[c][i], Oldest(c).type) : i \in DOMAIN sent[c]}

ReadHeader(c) ==
  /\ Serves(c, "header") /\ Meets(c) /\ Oldest(c).fresh
  /\ Consume(c)
  /\ LET m == Head(inbox[c]).msg
     IN  \E t \in ParsedAs(m.type) :
           HandleHeader(c, IF HasPayload(m) THEN m ELSE Nothing, t, Others(c))
  /\ UNCHANGED sent

\* A payload read that meets its payload is fresh: a read completing before it
\* would have taken the payload for a header.
ReadPayload(c) ==
  /\ Serves(c, "payload") /\ Meets(c)
  /\ Consume(c)
  /\ HandleMessage(c, As(Oldest(c).of, Oldest(c).type), Others(c))
  /\ UNCHANGED <<parsed, sent>>

\* A stale read takes its chunk off the socket, but the handler does not see it.
\* No payload read follows the header, unless by accident.
MissHeader(c) ==
  /\ Serves(c, "header") /\ Meets(c) /\ ~Oldest(c).fresh
  /\ inbox' = [inbox EXCEPT ![c] = Tail(@)]
  /\ aligned' = [aligned EXCEPT ![c] = ~HasPayload(Head(inbox[c]).msg)]
  /\ \E t \in StrayTypes, of \in {Nothing, Garbage} : HandleHeader(c, of, t, Others(c))
  /\ UNCHANGED sent

\* A read that meets a chunk of another size cuts the stream where no message
\* begins: from then on any number of chunks may be taken at once.
Misread(c) ==
  /\ \E part \in {"header", "payload"} : Serves(c, part)
  /\ ~Meets(c)
  /\ aligned' = [aligned EXCEPT ![c] = FALSE]
  /\ \E k \in 2 .. Len(inbox[c]) + 1 :
       inbox' = [inbox EXCEPT ![c] = SubSeq(@, k, Len(@))]
  /\ \/ /\ Oldest(c).part = "header"
        /\ \E t \in StrayTypes, of \in {Nothing, Garbage} : HandleHeader(c, of, t, Others(c))
     \/ /\ Oldest(c).part = "payload"
        /\ \E m \in StrayPayloads(c) : HandleMessage(c, m, Others(c))
        /\ UNCHANGED parsed
  /\ UNCHANGED sent

\* After the end of file each read completes with nothing, and the error is not
\* looked at: the header is what the stack holds, the payload is empty.
EndOfFile(c) ==
  /\ running /\ link[c] = "closed" /\ pending[c] # <<>>
  /\ \/ /\ Oldest(c).part = "header"
        /\ \E t \in StrayTypes : HandleHeader(c, Nothing, t, Tail(pending[c]))
     \/ /\ Oldest(c).part = "payload"
        /\ HandleMessage(c, BlankOf(Oldest(c).type), Tail(pending[c]))
        /\ UNCHANGED parsed
  /\ UNCHANGED <<inbox, aligned, sent>>

\* handleWrite and handleAccept start a header read each.
StartRead(c) == pending' = [pending EXCEPT ![c] = Append(@, HeaderRead)]

HandleWrite(c) ==
  /\ StartRead(c) /\ C!HandleWrite(c)
  /\ UNCHANGED <<inbox, aligned, parsed, sent, handled>>

HandleAccept(c) ==
  /\ StartRead(c) /\ C!HandleAccept(c)
  /\ UNCHANGED <<inbox, aligned, parsed, sent, handled>>

Fails(c) ==
  /\ UNCHANGED ioVars
  /\ C!AcceptFails(c) \/ C!Throw(c)

\* The end of file comes after the last byte, a reset at any time.
PeerEnds(c) ==
  /\ UNCHANGED ioVars
  /\ C!PeerEnds(c)
  /\ link'[c] = "closed" => inbox[c] = <<>>

PeerSends(c) ==
  /\ running /\ link[c] = "open" /\ Len(sent[c]) < MaxSent
  /\ \E m \in Traffic :
       /\ sent' = [sent EXCEPT ![c] = Append(@, m)]
       /\ inbox' = [inbox EXCEPT ![c] = @ \o Chunks(m)]
  /\ UNCHANGED <<connection, pending, aligned, parsed, handled>>

InitAfter(types) ==
  /\ inbox = [c \in Conns |-> <<>>]
  /\ pending = [c \in Conns |-> <<>>]
  /\ aligned = [c \in Conns |-> TRUE]
  /\ parsed = types
  /\ sent = [c \in Conns |-> <<>>]
  /\ handled = [c \in Conns |-> <<>>]
  /\ C!Init

\* A process that has just started has parsed no header.
Init == InitAfter({})

Next == \E c \in Conns :
  \/ ReadHeader(c) \/ ReadPayload(c) \/ MissHeader(c) \/ Misread(c)
  \/ EndOfFile(c) \/ HandleWrite(c) \/ HandleAccept(c) \/ Fails(c)
  \/ PeerEnds(c) \/ PeerSends(c)

Spec == Init /\ [][Next]_vars

-----------------------------------------------------------------------------
(* The connection with its reads does nothing that Connection does not say:  *)
(* whatever a handler finds in the buffer, it is one of Connection's         *)
(* messages, and the outstanding reads are the ones that Connection counts   *)
(* (handleHeader, handleMessage, handleWrite, idle).                         *)
ImplementsConnection == C!Init /\ [][C!Next]_(C!vars)

\* h is the message m, at most with the type confused as ParsedAs says.
Taken(h, m) == h \in {m, As(m, "whoamiack"), As(m, "addr")}

(* The handshake is read intact although reads overlap from then on: when    *)
(* the peer begins with whoami and whoamiack, these are the first messages   *)
(* handled (handleHeader, handleMessage).                                    *)
HandshakeIntact ==
  \A c \in Conns :
    (\A i \in DOMAIN sent[c] \cap 1 .. 2 : sent[c][i].type = <<"whoami", "whoamiack">>[i])
    => \A i \in DOMAIN handled[c] \cap 1 .. 2 :
         i \in DOMAIN sent[c] /\ Taken(handled[c][i], sent[c][i])

(* What connection.hpp:65 says of handleMessage, "Called when reading a      *)
(* Message", for peers that send whole messages only: the messages handled   *)
(* are the peer's, in its order.                                             *)
HandledAsSent ==
  \A c \in Conns : \A i \in DOMAIN handled[c] :
    i \in DOMAIN sent[c] /\ Taken(handled[c][i], sent[c][i])
=============================================================================
