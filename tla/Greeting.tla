------------------------------- MODULE Greeting -------------------------------
(***************************************************************************)
(* What the exchange of WhoAmI promises to the two ends of one connection, *)
(* without messages: how far each end may be, given how far the other is.  *)
(* Handshake implements it with the program at both ends.                  *)
(***************************************************************************)
VARIABLES
  initiator,  \* currentStatus of the end that connected
  acceptor    \* currentStatus of the end that accepted

vars == <<initiator, acceptor>>

Init == initiator = "Initiated" /\ acceptor = "Idle"

\* The initiator has greeted from the start; the acceptor greets and
\* acknowledges in one go.
Answer ==
  /\ acceptor = "Idle"
  /\ acceptor' = "WaitingAck"
  /\ UNCHANGED initiator

Meet ==
  /\ initiator = "Initiated" /\ acceptor = "WaitingAck"
  /\ initiator' = "Waiting"
  /\ UNCHANGED acceptor

Acknowledge ==
  /\ initiator = "Waiting"
  /\ initiator' = "Ack"
  /\ UNCHANGED acceptor

Complete ==
  /\ acceptor = "WaitingAck" /\ initiator = "Ack"
  /\ acceptor' = "Ack"
  /\ UNCHANGED initiator

Next == Answer \/ Meet \/ Acknowledge \/ Complete

Spec == Init /\ [][Next]_vars /\ WF_vars(Next)

(* Neither end is ahead of what the other one has said: the acceptor ends    *)
(* the handshake after the initiator, which has heard from it                *)
(* (updateStatus).                                                           *)
NoHalfOpen ==
  /\ initiator # "Initiated" => acceptor # "Idle"
  /\ acceptor = "Ack" => initiator = "Ack"
=============================================================================
