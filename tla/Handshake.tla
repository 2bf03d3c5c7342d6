------------------------------ MODULE Handshake ------------------------------
(***************************************************************************)
(* The program at both ends of one connection: what one end writes, the    *)
(* network hands to the other in order.  Both ends are ConnectionIO's,     *)
(* one bound by Node's constructor, the other accepted.  No end fails and  *)
(* the connection lasts: ConnectionIO has the failures.                    *)
(*                                                                         *)
(* The program connects to port 4224 and listens on 4225: between the ends *)
(* stands something that forwards one to the other.                        *)
(***************************************************************************)
EXTENDS ConnectionIO

CONSTANTS
  Bound,     \* the connection of the end that connects
  Accepted,  \* the connection of the end that accepts
  Seen       \* message types that the processes may have parsed before

ASSUME EndsAssumption ==
  Bound # Accepted /\ Conns = {Bound, Accepted} /\ Outbound = {Bound}

\* The ends are two processes, and one registry stands here for those of both:
\* the endpoints keep them apart.
ASSUME ApartAssumption == \A r \in Remotes : r[Bound] # r[Accepted]

FarEnd(c) == IF c = Bound THEN Accepted ELSE Bound

\* WhoAmI's constructor sets the version and the one service "node".
OnWire(m) ==
  IF m = C!WhoAmI THEN Hail(C!VERSION, "nodepeer") ELSE Other("whoamiack")

\* What an end hands to the other is something that a peer of ConnectionIO may
\* send: the two messages of the handshake.
ASSUME TransmitAssumption ==
  /\ {OnWire(C!WhoAmI), OnWire(C!WhoAmIAck)} \subseteq Traffic
  /\ MaxSent >= 2 /\ MaxSent \in Nat
  /\ Seen \subseteq MessageTypes

\* The network hands c the next message of the other end.
Transmit(c) ==
  LET from == written[FarEnd(c)]
      k == Len(sent[c]) + 1
  IN  /\ link[c] = "open" /\ k <= Len(from)
      /\ sent' = [sent EXCEPT ![c] = Append(@, OnWire(from[k]))]
      /\ inbox' = [inbox EXCEPT ![c] = @ \o Chunks(OnWire(from[k]))]
      /\ UNCHANGED <<connection, pending, aligned, parsed, handled>>

\* The reads that meet what they were made for.  Were another one due, no step
\* would take it and the exchange would stall, which ImplementsGreeting excludes.
Read(c) == ReadHeader(c) \/ ReadPayload(c)

HInit == \E types \in SUBSET Seen : InitAfter(types)

HNext == \E c \in Conns :
  \/ ReadHeader(c) \/ ReadPayload(c)
  \/ HandleWrite(c) \/ HandleAccept(c) \/ Transmit(c)

\* io_context::run of each end calls the handlers of what has completed, and
\* the network delivers.
HSpec ==
  /\ HInit /\ [][HNext]_vars
  /\ \A c \in Conns : /\ WF_vars(Read(c))
                      /\ WF_vars(HandleWrite(c))
                      /\ WF_vars(HandleAccept(c))
                      /\ WF_vars(Transmit(c))

-----------------------------------------------------------------------------
G == INSTANCE Greeting WITH initiator <- status[Bound], acceptor <- status[Accepted]

(* Two ends that run this program go through the statuses as Greeting says,  *)
(* each step on what the other one has said (updateStatus, sendMessage).     *)
FollowsGreeting == G!Init /\ [][G!Next]_(G!vars)

(* The exchange between two ends that run this program is the one that       *)
(* Greeting describes, its liveness included, whatever their processes have  *)
(* parsed before: an acknowledgment taken for a greeting, or the reverse,    *)
(* does not stop it (updateStatus, handleHeader).                            *)
ImplementsGreeting == G!Spec

Registered == \A c \in Conns : C!Holds(connectedNodes, c)
AsSent == \A c \in Conns : \A i \in DOMAIN handled[c] : handled[c][i] = sent[c][i]

(* Two ends whose messages are handled as they were sent register each other *)
(* as nodes, for good (updateStatus, registerConnection).                    *)
RegisterEachOther == []AsSent => <>[]Registered

(* What node.hpp:32 says of connectedNodes, "Vector of all current           *)
(* connections": the connection of two nodes is in it in the end.            *)
CurrentOnesRegistered == <>Registered
=============================================================================
