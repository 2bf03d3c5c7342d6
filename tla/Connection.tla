------------------------------ MODULE Connection ------------------------------
(***************************************************************************)
(* The connections of one node, message by message: network::Connection,   *)
(* network::MessageHandler and the connection registry of Node.            *)
(*                                                                         *)
(* The program is single threaded: every action below is one completion    *)
(* handler run by io_context::run, or something the network does between   *)
(* two handlers.  The peer is not constrained: handleMessage may be called *)
(* with any message in any status.  ConnectionIO refines this module and   *)
(* says which message a handler really sees.                               *)
(***************************************************************************)
EXTENDS Naturals, Integers, Sequences, SequencesExt

CONSTANTS
  Hashes,       \* hashes of transactions and blocks
  Conns,        \* Connection objects, bound connections and accepted ones
  Outbound,     \* those that Node's constructor binds to a remote address
  Remotes,      \* the endpoints, as remote() writes them, that they may have
  Versions,     \* versions a WhoAmI may carry, as the int updateStatus receives
  Invs,         \* payloads an Inv may carry, as sequences of Inv_vect
  KnownTx,      \* hashes for which mempool.exists or mempool.orphanExists
  KnownBlocks,  \* hashes for which blockchain.exists
  MaxInvs       \* bound: how many Invs are handled on each connection

InvVects == [type : {"txRes", "blockRes", "invalidRes"}, hash : Hashes]

ASSUME OutboundAssumption == Outbound \subseteq Conns
ASSUME VersionsAssumption == Versions \subseteq Int
ASSUME InvsAssumption == Invs \subseteq Seq(InvVects)
ASSUME RemotesAssumption == \A r \in Remotes : r = [c \in Conns |-> r[c]]
ASSUME MaxInvsAssumption == MaxInvs \in [Conns -> Nat]

VARIABLES
  running,          \* io_context::run has not been left by an exception
  link,             \* what is known of the socket: see Links
  remote,           \* the endpoint that it is connected to, once it is
  status,           \* currentStatus
  peerType,         \* peerType
  versionUsed,      \* versionUsed
  bufferedMessages, \* bufferedMessages
  written,          \* the messages given to async_write, oldest first
  completed,        \* how many of these writes have completed
  reads,            \* async_reads on the socket that have not completed
  heldBack,         \* history: the GetDatas that onInv built before the status Ack
  answered,         \* history: those that it built in the status Ack
  unregistred, connectedNodes, connectedRelays  \* Node's three maps, by endpoint

registry == <<unregistred, connectedNodes, connectedRelays>>
wire == <<bufferedMessages, written>>
replies == <<heldBack, answered>>
vars == <<running, link, remote, status, peerType, versionUsed, wire, completed, reads,
          replies, registry>>

Statuses == {"Initiated", "Waiting", "Idle", "WaitingAck", "Ack"}
PeerTypes == {"nodepeer", "relaypeer", "walletpeer", "peer"}

\* none: not accepted yet; open: carries data; closed: reads end at once with
\* end of file; reset: remote_endpoint() fails.
Links == {"none", "open", "closed", "reset"}

VERSION == 0

WhoAmI == [kind |-> "whoami", inventory |-> <<>>]
WhoAmIAck == [kind |-> "whoamiack", inventory |-> <<>>]
GetData(inventory) == [kind |-> "getdata", inventory |-> inventory]

Exists(r) == \/ r.type = "txRes" /\ r.hash \in KnownTx
             \/ r.type = "blockRes" /\ r.hash \in KnownBlocks

\* The entries onInv asks for: what the node lacks; an invalidRes is skipped.
Unknown(inv) ==
  SelectSeq(inv, LAMBDA r : r.type # "invalidRes" /\ ~Exists(r))

\* What parsing an empty payload yields: zero version, no service, no entry.
Blank == <<>>
GetDatas == {GetData(Unknown(inv)) : inv \in Invs \cup {Blank}}
Messages == {WhoAmI, WhoAmIAck} \cup GetDatas

-----------------------------------------------------------------------------
\* The writes of a handler of c that ends in status Ack: what it sends itself,
\* then idle() sends the buffered messages from the last to the first.
FlushOldestFirst(c, sent) ==   \* mutation
  /\ written' = [written EXCEPT ![c] = @ \o sent \o bufferedMessages[c]]
  /\ bufferedMessages' = [bufferedMessages EXCEPT ![c] = <<>>]
FlushBeforeAck(c, sent) ==     \* mutation
  /\ written' = [written EXCEPT ![c] = @ \o Reverse(bufferedMessages[c]) \o sent]
  /\ bufferedMessages' = [bufferedMessages EXCEPT ![c] = <<>>]
Flush(c, sent) ==
  /\ written' = [written EXCEPT ![c] = @ \o sent \o Reverse(bufferedMessages[c])]
  /\ bufferedMessages' = [bufferedMessages EXCEPT ![c] = <<>>]

\* idle() after a handler that neither sends nor changes the status.
Idling(c) == IF status[c] = "Ack" THEN Flush(c, <<>>) ELSE UNCHANGED wire

NoEntry == [key \in {} |-> key]

\* insert of std::map: an entry that the key has stays what it is.
Insert(map, key, c) ==
  [k \in DOMAIN map \cup {key} |-> IF k \in DOMAIN map THEN map[k] ELSE c]
Erase(map, key) == [k \in DOMAIN map \ {key} |-> map[k]]
InsertIf(enter, map, key, c) == IF enter THEN Insert(map, key, c) ELSE map

RegisterAnyType(c, type) ==    \* mutation
  IF remote[c] \in DOMAIN unregistred
  THEN /\ unregistred' = Erase(unregistred, remote[c])
       /\ connectedNodes' = Insert(connectedNodes, remote[c], c)
       /\ UNCHANGED connectedRelays
  ELSE UNCHANGED registry
\* The entry that is found, and erased, is that of the endpoint, whichever
\* connection it holds.
RegisterConnection(c, type) ==
  IF type # "peer" /\ remote[c] \in DOMAIN unregistred
  THEN /\ connectedNodes' = InsertIf(type = "nodepeer", connectedNodes, remote[c], c)
       /\ connectedRelays' = InsertIf(type = "relaypeer", connectedRelays, remote[c], c)
       /\ unregistred' = Erase(unregistred, remote[c])
  ELSE UNCHANGED registry

Lower(used, version) == IF version < used THEN version ELSE used

\* updateStatus and the idle() that follows it, one operator per case.
FromIdle(c, version) ==
  /\ status[c] = "Idle"
  /\ status' = [status EXCEPT ![c] = "WaitingAck"]
  /\ versionUsed' = [versionUsed EXCEPT ![c] = Lower(@, version)]
  /\ written' = [written EXCEPT ![c] = @ \o <<WhoAmI, WhoAmIAck>>]
  /\ UNCHANGED <<bufferedMessages, registry>>

FromWaitingAck(c, version, type) ==
  /\ status[c] = "WaitingAck"
  /\ status' = [status EXCEPT ![c] = "Ack"]
  /\ versionUsed' = [versionUsed EXCEPT ![c] = Lower(@, version)]
  /\ RegisterConnection(c, type)
  /\ Flush(c, <<>>)

FromInitiatedAcking(c) ==      \* mutation
  /\ status[c] = "Initiated"
  /\ status' = [status EXCEPT ![c] = "Ack"]
  /\ Flush(c, <<WhoAmIAck>>)
  /\ UNCHANGED <<versionUsed, registry>>
FromInitiated(c) ==
  /\ status[c] = "Initiated"
  /\ status' = [status EXCEPT ![c] = "Waiting"]
  /\ UNCHANGED <<versionUsed, wire, registry>>

FromWaitingSilent(c, version, type) ==   \* mutation
  /\ status[c] = "Waiting"
  /\ status' = [status EXCEPT ![c] = "Ack"]
  /\ versionUsed' = [versionUsed EXCEPT ![c] = Lower(@, version)]
  /\ RegisterConnection(c, type)
  /\ Flush(c, <<>>)
FromWaiting(c, version, type) ==
  /\ status[c] = "Waiting"
  /\ status' = [status EXCEPT ![c] = "Ack"]
  /\ versionUsed' = [versionUsed EXCEPT ![c] = Lower(@, version)]
  /\ RegisterConnection(c, type)
  /\ Flush(c, <<WhoAmIAck>>)

FromAckRegistering(c) ==       \* mutation
  /\ status[c] = "Ack"
  /\ Flush(c, <<>>)
  /\ RegisterConnection(c, peerType'[c])
  /\ UNCHANGED <<status, versionUsed>>
FromAck(c) ==
  /\ status[c] = "Ack"
  /\ Flush(c, <<>>)
  /\ UNCHANGED <<status, versionUsed, registry>>

UpdateStatusOverwriting(c, version, type) ==   \* mutation
  /\ peerType' = [peerType EXCEPT ![c] = type]
  /\ \/ FromIdle(c, version)
     \/ FromWaitingAck(c, version, type)
     \/ FromInitiated(c)
     \/ FromWaiting(c, version, type)
     \/ FromAck(c)
\* The type is settled first: the registration sees the new one.
UpdateStatus(c, version, type) ==
  LET settled == IF peerType[c] = "peer" THEN type ELSE peerType[c]
  IN  /\ peerType' = [peerType EXCEPT ![c] = settled]
      /\ \/ FromIdle(c, version)
         \/ FromWaitingAck(c, version, settled)
         \/ FromInitiated(c)
         \/ FromWaiting(c, version, settled)
         \/ FromAck(c)

-----------------------------------------------------------------------------
\* handleMessage is called by the completion of a read, and starts another one
\* by idle(): the number of outstanding reads does not change.
Handles(c) == running /\ reads[c] > 0 /\ link[c] \in {"open", "closed"}

\* What a field may be read as: at the end of file only the blank value.
Readable(c, values, blank) ==
  IF link[c] = "open" THEN values \cup {blank} ELSE {blank}

ReceiveWhoAmI(c, version, type) ==
  /\ Handles(c)
  /\ UpdateStatus(c, version, type)
  /\ UNCHANGED <<running, link, remote, completed, reads, replies>>

OnWhoAmI(c) ==
  \E version \in Readable(c, Versions, 0), type \in Readable(c, PeerTypes, "peer") :
    ReceiveWhoAmI(c, version, type)

OnWhoAmIAck(c) ==
  /\ Handles(c)
  /\ UpdateStatus(c, 0, "peer")
  /\ UNCHANGED <<running, link, remote, completed, reads, replies>>

\* The reply is built and sent even when nothing is unknown.
ReceiveInv(c, inv) ==
  LET reply == GetData(Unknown(inv))
  IN  /\ Handles(c)
      /\ Len(heldBack[c]) + Len(answered[c]) < MaxInvs[c]
      /\ IF status[c] = "Ack"
         THEN /\ Flush(c, <<reply>>)
              /\ answered' = [answered EXCEPT ![c] = Append(@, reply)]
              /\ UNCHANGED heldBack
         ELSE /\ bufferedMessages' = [bufferedMessages EXCEPT ![c] = Append(@, reply)]
              /\ heldBack' = [heldBack EXCEPT ![c] = Append(@, reply)]
              /\ UNCHANGED <<written, answered>>
      /\ UNCHANGED <<running, link, remote, status, peerType, versionUsed, completed, reads,
                     registry>>

OnInv(c) == \E inv \in Readable(c, Invs, Blank) : ReceiveInv(c, inv)

\* Any other type, of which getdata, addr, block and tx are some: a warning.
OnUnknown(c) ==
  /\ Handles(c)
  /\ Idling(c)
  /\ UNCHANGED <<running, link, remote, status, peerType, versionUsed, completed, reads,
                 replies, registry>>

HandleMessage(c) == OnWhoAmI(c) \/ OnWhoAmIAck(c) \/ OnInv(c) \/ OnUnknown(c)

WritePendingLate(c) == completed[c] <= Len(written[c])   \* mutation
WritePending(c) == completed[c] < Len(written[c])

StartReadOnce(c) ==            \* mutation
  reads' = [reads EXCEPT ![c] = IF @ > 0 THEN @ ELSE 1]
\* idle() starts a read whether or not another one is outstanding.
StartRead(c) == reads' = [reads EXCEPT ![c] = @ + 1]

HandleWrite(c) ==
  /\ running /\ link[c] \in {"open", "closed"}
  /\ WritePending(c)
  /\ completed' = [completed EXCEPT ![c] = @ + 1]
  /\ StartRead(c)
  /\ Idling(c)
  /\ UNCHANGED <<running, link, remote, status, peerType, versionUsed, replies, registry>>

HandleAccept(c) ==
  /\ running /\ link[c] = "none"
  /\ link' = [link EXCEPT ![c] = "open"]
  /\ StartRead(c)
  /\ unregistred' = Insert(unregistred, remote[c], c)
  /\ UNCHANGED <<running, remote, status, peerType, versionUsed, wire, completed, replies,
                 connectedNodes, connectedRelays>>

\* The accept ended with an error, which handleAccept does not look at: remote()
\* of the socket that was never connected throws.
AcceptFails(c) ==
  /\ running /\ link[c] = "none"
  /\ running' = FALSE
  /\ UNCHANGED <<link, remote, status, peerType, versionUsed, wire, completed, reads, replies,
                 registry>>

ThrowCaught(c) == running /\ link[c] = "reset" /\ UNCHANGED vars   \* mutation
\* A handler that finds its socket reset: remote() throws and nothing catches
\* it before main.
Throw(c) ==
  /\ running /\ link[c] = "reset"
  /\ reads[c] > 0 \/ WritePending(c)
  /\ running' = FALSE
  /\ UNCHANGED <<link, remote, status, peerType, versionUsed, wire, completed, reads, replies,
                 registry>>

\* The peer, or the network, ends the connection.
PeerEnds(c) ==
  /\ running
  /\ \/ link[c] = "open" /\ link' = [link EXCEPT ![c] = "closed"]
     \/ link[c] \in {"open", "closed"} /\ link' = [link EXCEPT ![c] = "reset"]
  /\ UNCHANGED <<running, remote, status, peerType, versionUsed, wire, completed, reads,
                 replies, registry>>

-----------------------------------------------------------------------------
\* The constructor of Node has bound the outbound connections: each has sent
\* its WhoAmI and stands in unregistred, where the first of an endpoint stays.
\* Two sockets may have one remote endpoint: they differ in the local one, or
\* one has been reset and its handler has not run.
Init ==
  /\ running = TRUE
  /\ link = [c \in Conns |-> IF c \in Outbound THEN "open" ELSE "none"]
  /\ remote \in Remotes
  /\ status = [c \in Conns |-> IF c \in Outbound THEN "Initiated" ELSE "Idle"]
  /\ peerType = [c \in Conns |-> "peer"]
  /\ versionUsed = [c \in Conns |-> VERSION]
  /\ bufferedMessages = [c \in Conns |-> <<>>]
  /\ written = [c \in Conns |-> IF c \in Outbound THEN <<WhoAmI>> ELSE <<>>]
  /\ completed = [c \in Conns |-> 0]
  /\ reads = [c \in Conns |-> 0]
  /\ heldBack = [c \in Conns |-> <<>>]
  /\ answered = [c \in Conns |-> <<>>]
  /\ unregistred \in [{remote[c] : c \in Outbound} -> Outbound]
  /\ \A key \in DOMAIN unregistred : remote[unregistred[key]] = key
  /\ connectedNodes = NoEntry /\ connectedRelays = NoEntry

Next == \E c \in Conns :
  \/ OnWhoAmI(c) \/ OnWhoAmIAck(c) \/ OnInv(c) \/ OnUnknown(c)
  \/ HandleWrite(c) \/ HandleAccept(c) \/ AcceptFails(c) \/ Throw(c) \/ PeerEnds(c)

\* io_context::run calls every handler whose operation has completed.  A write
\* completes unless the peer stops reading; after an end of file or a reset
\* each read completes at once.  Nothing is assumed of the peer.
Fairness == \A c \in Conns :
  /\ WF_vars(HandleWrite(c))
  /\ WF_vars(link[c] = "closed" /\ HandleMessage(c))
  /\ WF_vars(Throw(c))

Spec == Init /\ [][Next]_vars /\ Fairness

-----------------------------------------------------------------------------
IsMap(map) == map \in [DOMAIN map -> Conns] /\ DOMAIN map \subseteq {remote[c] : c \in Conns}

(* Type invariant.  A write completes once: `completed` never passes the     *)
(* number of messages given to async_write.                                  *)
TypeOK ==
  /\ running \in BOOLEAN
  /\ link \in [Conns -> Links]
  /\ remote \in Remotes
  /\ status \in [Conns -> Statuses]
  /\ peerType \in [Conns -> PeerTypes]
  /\ versionUsed \in [Conns -> Int]
  /\ bufferedMessages \in [Conns -> Seq(GetDatas)]
  /\ written \in [Conns -> Seq(Messages)]
  /\ completed \in [Conns -> Nat]
  /\ \A c \in Conns : completed[c] <= Len(written[c])
  /\ reads \in [Conns -> Nat]
  /\ heldBack \in [Conns -> Seq(GetDatas)]
  /\ answered \in [Conns -> Seq(GetDatas)]
  /\ IsMap(unregistred) /\ IsMap(connectedNodes) /\ IsMap(connectedRelays)

(* What the peer of c has been written is decided by the handshake status:   *)
(* the handshake messages of this side come first, once each and in order,   *)
(* and no GetData is written before them (sendMessage, updateStatus).        *)
Greeting(c) ==
  IF status[c] = "Idle" THEN <<>>
  ELSE IF status[c] \in {"Initiated", "Waiting"} THEN <<WhoAmI>>
  ELSE <<WhoAmI, WhoAmIAck>>

HandshakeFirst ==
  \A c \in Conns :
    IF status[c] = "Ack"
    THEN Len(written[c]) >= 2 /\ SubSeq(written[c], 1, 2) = Greeting(c)
    ELSE written[c] = Greeting(c)

(* Every GetData that onInv builds reaches the wire exactly once: it waits   *)
(* in bufferedMessages until the handshake ends, those that waited go out    *)
(* from the last to the first, and the later ones follow in their order      *)
(* (sendMessage, idle).                                                      *)
RepliesKept ==
  \A c \in Conns :
    IF status[c] = "Ack"
    THEN /\ bufferedMessages[c] = <<>>
         /\ written[c] = Greeting(c) \o Reverse(heldBack[c]) \o answered[c]
    ELSE bufferedMessages[c] = heldBack[c] /\ answered[c] = <<>>

\* The map holds c itself, not another connection with its endpoint.
Holds(map, c) == remote[c] \in DOMAIN map /\ map[remote[c]] = c

Entries ==
  \A map \in {unregistred, connectedNodes, connectedRelays} : \A key \in DOMAIN map :
    remote[map[key]] = key /\ link[map[key]] # "none"

Registered(c, type) == status[c] = "Ack" /\ peerType[c] = type

\* Every endpoint that was ever connected to is known, ended connections and
\* all, but for those of a wallet.
EndpointsKnown ==
  \A c \in Conns : link[c] # "none" =>
    \/ remote[c] \in DOMAIN unregistred \cup DOMAIN connectedNodes \cup DOMAIN connectedRelays
    \/ \E w \in Conns : remote[w] = remote[c] /\ Registered(w, "walletpeer")

\* No other connection has had the endpoint of c.
Alone(c) == \A d \in Conns \ {c} : remote[d] = remote[c] => link[d] = "none"

InOneMap(c) ==
  IF Holds(unregistred, c)
  THEN ~Holds(connectedNodes, c) /\ ~Holds(connectedRelays, c)
  ELSE Holds(connectedNodes, c) \/ Holds(connectedRelays, c) \/ Registered(c, "walletpeer")

(* The maps are keyed by endpoint, and two connections of one endpoint take  *)
(* each other's places: yet every entry leads to a connection of its         *)
(* endpoint, only acknowledged ones of the right type are registered, and no *)
(* endpoint is lost.  A connection that shares its endpoint with no other,   *)
(* earlier ones included, is in exactly one map, or is a registered wallet   *)
(* and in none (registerConnection, handleAccept, Node's constructor).       *)
RegistryShape ==
  /\ Entries
  /\ \A key \in DOMAIN connectedNodes : Registered(connectedNodes[key], "nodepeer")
  /\ \A key \in DOMAIN connectedRelays : Registered(connectedRelays[key], "relaypeer")
  /\ EndpointsKnown
  /\ \A c \in Conns : link[c] # "none" /\ Alone(c) => InOneMap(c)

(* The reads that overlap on a socket: one for the accepted connection, and  *)
(* one more for every write that has completed (handleWrite, idle).  The     *)
(* handshake alone leaves three on the accepting side, two on the other.     *)
ReadsGrow ==
  \A c \in Conns :
    reads[c] = completed[c] + IF c \in Outbound \/ link[c] = "none" THEN 0 ELSE 1

Keeps(old, new) == \A key \in DOMAIN old : key \in DOMAIN new /\ new[key] = old[key]

(* Once a connection is acknowledged its place is final, although its type   *)
(* may still change: a peer whose WhoAmI comes last stays unregistred,       *)
(* unless another connection of its endpoint registers and takes the entry   *)
(* away.  No registered one ever leaves its map, ended or not (updateStatus, *)
(* registerConnection).                                                      *)
AckIsFinal ==
  [][/\ Keeps(connectedNodes, connectedNodes')
     /\ Keeps(connectedRelays, connectedRelays')
     /\ \A c \in Conns : status[c] = "Ack" =>
          /\ status'[c] = "Ack"
          /\ Holds(connectedNodes', c) => Holds(connectedNodes, c)
          /\ Holds(connectedRelays', c) => Holds(connectedRelays, c)
          /\ Holds(unregistred', c) => Holds(unregistred, c)
          /\ Holds(unregistred, c) =>
               \/ Holds(unregistred', c)
               \/ \E d \in Conns \ {c} :
                    remote[d] = remote[c] /\ status[d] # "Ack" /\ status'[d] = "Ack"]_vars

(* One reset connection ends the whole node, and with it every other         *)
(* connection: remote() throws in the next handler of that connection.       *)
ResetStopsNode == \A c \in Conns : link[c] = "reset" ~> ~running
=============================================================================
