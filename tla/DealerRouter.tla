---------------------------- MODULE DealerRouter ----------------------------
(***************************************************************************)
(* The DEALER/ROUTER transport of NetIOMPDealerRouter.cpp.                 *)
(*                                                                         *)
(* Every computing party 1..N binds one ROUTER socket and connects one     *)
(* DEALER socket to each other party (init); the secret holder, node N+1,  *)
(* only connects a DEALER socket to each computing party (initDealers).    *)
(* A connection is FIFO in each direction; nothing orders two connections, *)
(* so a ROUTER socket may hand over the waiting messages of its peers in   *)
(* any interleaving.                                                       *)
(*                                                                         *)
(*   toRouter[s][p]   what s sent on its DEALER socket to p's ROUTER and p *)
(*                    has not received                                     *)
(*   toDealer[p][s]   what p's ROUTER replied to s's DEALER and s has not  *)
(*                    received                                             *)
(*   lastRoutingId[p] the member m_lastRoutingId of p: the node whose      *)
(*                    message p received last                              *)
(*                                                                         *)
(* A message is its kind (a string): the payloads are never inspected by   *)
(* the transport.                                                          *)
(***************************************************************************)
EXTENDS Naturals, Sequences

CONSTANT N      \* m_totalParties, the number of computing parties

ASSUME NAssumption == N \in Nat \ {0}

Parties == 1 .. N
Dealer  == N + 1            \* run_parties.sh gives the secret holder this id
Nodes   == 1 .. N + 1
NoRoute == 0                \* m_lastRoutingId before the first receive

VARIABLES toRouter, toDealer, lastRoutingId

transport == <<toRouter, toDealer, lastRoutingId>>

TransportInit ==
  /\ toRouter = [s \in Nodes |-> [p \in Parties |-> <<>>]]
  /\ toDealer = [p \in Parties |-> [s \in Nodes |-> <<>>]]
  /\ lastRoutingId = [p \in Parties |-> NoRoute]

-----------------------------------------------------------------------------
(* Sending: neither call blocks, and both only append to one connection.   *)

\* sendTo: the channels once s has put m on its DEALER socket to p.
SendTo(s, p, m) == [toRouter EXCEPT ![s][p] = Append(@, m)]

\* reply: the channels once p's ROUTER has addressed the sequence of frames
\* to the routing id of s.
Reply(p, s, frames) == [toDealer EXCEPT ![p][s] = @ \o frames]

-----------------------------------------------------------------------------
(* receive on a ROUTER socket.                                             *)

Arrived(p, s) == toRouter[s][p] # <<>>

Received(p, s) == Head(toRouter[s][p])

\* receive remembers the sender for the next reply.
Receive(p, s) ==
  /\ Arrived(p, s)
  /\ lastRoutingId' = [lastRoutingId EXCEPT ![p] = s]

\* The channels once p has taken the next message of s.
Taken(p, s) == [toRouter EXCEPT ![s][p] = Tail(@)]

-----------------------------------------------------------------------------
(* dealerReceive on the DEALER socket of s connected to p: it has no       *)
(* receive timeout, so it waits for as long as it takes.                   *)

Replied(p, s) == toDealer[p][s] # <<>>

NextReply(p, s) == Head(toDealer[p][s])

TakenReply(p, s) == [toDealer EXCEPT ![p][s] = Tail(@)]

-----------------------------------------------------------------------------
(* close, and the destructor, set linger to 0: of what s sent on a         *)
(* connection, any suffix that has not left the process yet is discarded.  *)

Remains(q) == {SubSeq(q, 1, k) : k \in 0 .. Len(q)}

AfterClose(channels, s) ==
  LET kept == {f \in [DOMAIN channels[s] ->
                        UNION {Remains(channels[s][r]) : r \in DOMAIN channels[s]}] :
                 \A r \in DOMAIN channels[s] : f[r] \in Remains(channels[s][r])}
  IN  {[channels EXCEPT ![s] = f] : f \in kept}
=============================================================================
