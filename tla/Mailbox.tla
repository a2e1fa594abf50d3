-------------------------------- MODULE Mailbox --------------------------------
(***************************************************************************)
(* What the messaging of ZMQMPCCommunication promises to its clients: one  *)
(* channel from every party to every other, first in first out.  Nothing   *)
(* is lost, duplicated or reordered on a channel, except that a party that *)
(* closes may lose the last messages it has sent; a party that has not     *)
(* opened is given nothing, and one that is not open cannot send.          *)
(***************************************************************************)
EXTENDS Sequences, Naturals

CONSTANTS Parties, Messages

VARIABLES status,     \* of each party: "new", "open" or "closed"
          channel,    \* channel[s][p]: what s has sent and p has not been given
          delivered   \* what each party has been given, with the senders

Init ==
  /\ status = [p \in Parties |-> "new"]
  /\ channel = [s \in Parties |-> [p \in Parties |-> <<>>]]
  /\ delivered = [p \in Parties |-> <<>>]

Open(p) ==
  /\ status[p] = "new"
  /\ status' = [status EXCEPT ![p] = "open"]
  /\ UNCHANGED <<channel, delivered>>

Send(s, p, m) ==
  /\ status[s] = "open" /\ s # p
  /\ channel' = [channel EXCEPT ![s][p] = Append(@, m)]
  /\ UNCHANGED <<status, delivered>>

Deliver(s, p) ==
  /\ status[p] # "new"
  /\ channel[s][p] # <<>>
  /\ delivered' = [delivered EXCEPT ![p] =
                     Append(@, [from |-> s, msg |-> Head(channel[s][p])])]
  /\ channel' = [channel EXCEPT ![s][p] = Tail(@)]
  /\ UNCHANGED status

Close(s) ==
  /\ status[s] = "open"
  /\ status' = [status EXCEPT ![s] = "closed"]
  /\ \A r, p \in Parties :
       \E k \in 0 .. Len(channel[r][p]) :
         /\ channel'[r][p] = SubSeq(channel[r][p], 1, k)
         /\ r # s => k = Len(channel[r][p])
  /\ UNCHANGED delivered

Next ==
  \/ \E p \in Parties : Open(p) \/ Close(p)
  \/ \E s, p \in Parties : Deliver(s, p) \/ \E m \in Messages : Send(s, p, m)

Spec == Init /\ [][Next]_<<status, channel, delivered>>
=============================================================================
