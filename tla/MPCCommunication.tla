--------------------------- MODULE MPCCommunication ---------------------------
(***************************************************************************)
(* The messaging of ZMQMPCCommunication.cpp.  Every party is one process   *)
(* with three kinds of threads: the owner, which calls initialize, send    *)
(* and shutdown; the receiver thread, which takes messages off the ROUTER  *)
(* socket; and callers, each in or out of a call of receive.  Messages     *)
(* that the receiver thread takes go to the message handler, if there is   *)
(* one, or to a queue under a mutex with a condition variable.             *)
(*                                                                         *)
(* A step is what a thread does between two points at which another thread *)
(* can see or stop it: a test of an atomic flag, a call of ZeroMQ, one     *)
(* section under the mutex, one wait.  The mutex is held across steps only *)
(* by a caller that has found nothing and is about to wait.                *)
(***************************************************************************)
EXTENDS Naturals, Sequences, FiniteSets

CONSTANTS
  Parties,      \* the keys of partyEndpoints_
  Callers,      \* Callers[p]: the threads of p that call receive
  Budget        \* bound: how many messages each party sends

ASSUME CommAssumption ==
  /\ IsFiniteSet(Parties)
  /\ \A p \in Parties : IsFiniteSet(Callers[p])
  /\ Budget \in [Parties -> Nat]

VARIABLES
  wire,      \* wire[s][p]: what s's DEALER socket for p has taken, in order
  owner,     \* how far initialize and shutdown have come
  receiver,  \* where the receiver thread is
  held,      \* the message the receiver thread has in its hands, or none
  queue,     \* messageQueue_
  caller,    \* caller[p][c]: where c is in receive
  handler,   \* whether messageHandler_ is set
  sent,      \* messagesSent_
  delivered  \* what the handler or a call of receive has been given

vars == <<wire, owner, receiver, held, queue, caller, handler, sent, delivered>>

IsRunning(p) == owner[p] \in {"starting", "up"}              \* isRunning_
IsReady(p)   == owner[p] \in {"up", "stopping", "joining"}   \* isReady_

\* setMessageHandler is called before initialize, or not at all.
Init ==
  /\ wire = [s \in Parties |-> [p \in Parties |-> <<>>]]
  /\ owner = [p \in Parties |-> "new"]
  /\ receiver = [p \in Parties |-> "none"]
  /\ held = [p \in Parties |-> <<>>]
  /\ queue = [p \in Parties |-> <<>>]
  /\ caller = [p \in Parties |-> [c \in Callers[p] |-> "idle"]]
  /\ handler \in [Parties -> BOOLEAN]
  /\ sent = [p \in Parties |-> 0]
  /\ delivered = [p \in Parties |-> <<>>]

-----------------------------------------------------------------------------
(* The owner.                                                              *)

\* initialize up to the start of the receiver thread ...
Initialize(p) ==
  /\ owner[p] = "new"
  /\ owner' = [owner EXCEPT ![p] = "starting"]
  /\ receiver' = [receiver EXCEPT ![p] = "test"]
  /\ UNCHANGED <<wire, held, queue, caller, handler, sent, delivered>>

\* ... and isReady_, which is set after the thread has been started.
BecomeReady(p) ==
  /\ owner[p] = "starting"
  /\ owner' = [owner EXCEPT ![p] = "up"]
  /\ UNCHANGED <<wire, receiver, held, queue, caller, handler, sent, delivered>>

\* send; broadcast and multicast are loops of it.  It fails, and changes
\* nothing, unless the party is ready.
Send(p, q, m) ==
  /\ owner[p] = "up"
  /\ q # p
  /\ wire' = [wire EXCEPT ![p][q] = Append(@, m)]
  /\ sent' = [sent EXCEPT ![p] = @ + 1]
  /\ UNCHANGED <<owner, receiver, held, queue, caller, handler, delivered>>

\* The n-th message a party sends is the number n.
SendNext(p, q) == sent[p] < Budget[p] /\ Send(p, q, sent[p] + 1)

\* shutdown: isRunning_ is cleared without the mutex, ...
StopRunning(p) ==
  /\ owner[p] = "up"
  /\ owner' = [owner EXCEPT ![p] = "stopping"]
  /\ UNCHANGED <<wire, receiver, held, queue, caller, handler, sent, delivered>>

Waiting(p) == {c \in Callers[p] : caller[p][c] = "waiting"}

\* ... everybody who waits now is woken up, ...
NotifyAll(p) ==
  /\ owner[p] = "stopping"
  /\ owner' = [owner EXCEPT ![p] = "joining"]
  /\ caller' = [caller EXCEPT ![p] =
                  [c \in Callers[p] |-> IF c \in Waiting(p) THEN "woken" ELSE @[c]]]
  /\ UNCHANGED <<wire, receiver, held, queue, handler, sent, delivered>>

Kept(messages) == {SubSeq(messages, 1, k) : k \in 0 .. Len(messages)}

\* Mutant: the receiver thread is detached, not joined.
CloseWithoutJoin(p) ==
  /\ owner[p] = "joining"
  /\ owner' = [owner EXCEPT ![p] = "off"]
  /\ UNCHANGED <<wire, receiver, held, queue, caller, handler, sent, delivered>>

\* ... and once the receiver thread has been joined the sockets close with
\* linger 0, which may discard the end of what has been sent.
Close(p) ==
  /\ owner[p] = "joining"
  /\ receiver[p] = "done"
  /\ owner' = [owner EXCEPT ![p] = "off"]
  /\ \E kept \in [Parties -> UNION {Kept(wire[p][q]) : q \in Parties}] :
       /\ \A q \in Parties : kept[q] \in Kept(wire[p][q])
       /\ wire' = [wire EXCEPT ![p] = kept]
  /\ UNCHANGED <<receiver, held, queue, caller, handler, sent, delivered>>

-----------------------------------------------------------------------------
(* The receiver thread.                                                    *)

TestRunning(p) ==
  /\ receiver[p] = "test"
  /\ receiver' = [receiver EXCEPT ![p] = IF IsRunning(p) THEN "recv" ELSE "done"]
  /\ UNCHANGED <<wire, owner, held, queue, caller, handler, sent, delivered>>

\* Mutant: the data frame may be that of another sender.
RouterReceiveMixed(p, s) ==
  /\ receiver[p] = "recv"
  /\ wire[s][p] # <<>>
  /\ \E r \in Parties :
       /\ wire[r][p] # <<>>
       /\ held' = [held EXCEPT ![p] = <<[from |-> s, msg |-> Head(wire[r][p])]>>]
       /\ wire' = [wire EXCEPT ![r][p] = Tail(@)]
  /\ receiver' = [receiver EXCEPT ![p] = "handle"]
  /\ UNCHANGED <<owner, queue, caller, handler, sent, delivered>>

\* The two frames of a message arrive together, and what send has made has the
\* identity of a party and deserializes: the errors for other frames are left out.
RouterReceive(p, s) ==
  /\ receiver[p] = "recv"
  /\ wire[s][p] # <<>>
  /\ held' = [held EXCEPT ![p] = <<[from |-> s, msg |-> Head(wire[s][p])]>>]
  /\ wire' = [wire EXCEPT ![s][p] = Tail(@)]
  /\ receiver' = [receiver EXCEPT ![p] = "handle"]
  /\ UNCHANGED <<owner, queue, caller, handler, sent, delivered>>

\* Mutant: a timeout of the socket ends the thread.
RouterTimeoutEnds(p) ==
  /\ receiver[p] = "recv"
  /\ receiver' = [receiver EXCEPT ![p] = "done"]
  /\ UNCHANGED <<wire, owner, held, queue, caller, handler, sent, delivered>>

\* Mutant: the socket has no receive timeout.
RouterNeverTimesOut(p) == FALSE /\ UNCHANGED vars

\* 100 ms without a message: the loop tests isRunning_ again.
RouterTimeout(p) ==
  /\ receiver[p] = "recv"
  /\ receiver' = [receiver EXCEPT ![p] = "test"]
  /\ UNCHANGED <<wire, owner, held, queue, caller, handler, sent, delivered>>

\* Mutant: the message stays in the thread's hands.
GiveToHandlerKeeping(p) ==
  /\ receiver[p] = "handle"
  /\ delivered' = [delivered EXCEPT ![p] = @ \o held[p]]
  /\ receiver' = [receiver EXCEPT ![p] = "test"]
  /\ UNCHANGED <<wire, owner, held, queue, caller, handler, sent>>

GiveToHandler(p) ==
  /\ receiver[p] = "handle"
  /\ delivered' = [delivered EXCEPT ![p] = @ \o held[p]]
  /\ held' = [held EXCEPT ![p] = <<>>]
  /\ receiver' = [receiver EXCEPT ![p] = "test"]
  /\ UNCHANGED <<wire, owner, queue, caller, handler, sent>>

CallHandler(p) == handler[p] /\ GiveToHandler(p)

MutexFree(p) == \A c \in Callers[p] : caller[p][c] # "blocking"

\* Mutant: notify_one only when the queue was empty.
NotifyOneIfEmpty(p) ==
  IF Waiting(p) = {} \/ queue[p] # <<>>
    THEN UNCHANGED caller
    ELSE \E c \in Waiting(p) : caller' = [caller EXCEPT ![p][c] = "woken"]

NotifyOne(p) ==
  IF Waiting(p) = {}
    THEN UNCHANGED caller
    ELSE \E c \in Waiting(p) : caller' = [caller EXCEPT ![p][c] = "woken"]

PutIntoQueue(p) ==
  /\ receiver[p] = "handle"
  /\ MutexFree(p)
  /\ queue' = [queue EXCEPT ![p] = @ \o held[p]]
  /\ NotifyOne(p)
  /\ held' = [held EXCEPT ![p] = <<>>]
  /\ receiver' = [receiver EXCEPT ![p] = "test"]
  /\ UNCHANGED <<wire, owner, handler, sent, delivered>>

Enqueue(p) == ~handler[p] /\ PutIntoQueue(p)

-----------------------------------------------------------------------------
(* receive.                                                                *)

Goto(p, c, where) == caller' = [caller EXCEPT ![p][c] = where]

\* The call fails at once unless the party is ready.
CallReceive(p, c) ==
  /\ caller[p][c] = "idle"
  /\ IsReady(p)
  /\ Goto(p, c, "entering")
  /\ UNCHANGED <<wire, owner, receiver, held, queue, handler, sent, delivered>>

\* Mutant: front without pop.
TakeWithoutPop(p, c) ==
  /\ queue[p] # <<>>
  /\ delivered' = [delivered EXCEPT ![p] = Append(@, Head(queue[p]))]
  /\ Goto(p, c, "idle")
  /\ UNCHANGED queue

\* Mutant: the back of the queue.
TakeNewest(p, c) ==
  /\ queue[p] # <<>>
  /\ delivered' = [delivered EXCEPT ![p] = Append(@, queue[p][Len(queue[p])])]
  /\ queue' = [queue EXCEPT ![p] = SubSeq(@, 1, Len(@) - 1)]
  /\ Goto(p, c, "idle")

\* receive returns true with the front of the queue.
Take(p, c) ==
  /\ queue[p] # <<>>
  /\ delivered' = [delivered EXCEPT ![p] = Append(@, Head(queue[p]))]
  /\ queue' = [queue EXCEPT ![p] = Tail(@)]
  /\ Goto(p, c, "idle")

\* Under the mutex, at first or after a wake-up, the caller tests for a
\* message or the end; with neither it is going to wait.
Examine(p, c) ==
  /\ caller[p][c] \in {"entering", "woken"}
  /\ MutexFree(p)
  /\ \/ Take(p, c)
     \/ /\ queue[p] = <<>>
        /\ Goto(p, c, IF IsRunning(p) THEN "blocking" ELSE "idle")
        /\ UNCHANGED <<queue, delivered>>
  /\ UNCHANGED <<wire, owner, receiver, held, handler, sent>>

\* wait_for lets go of the mutex and waits.
Block(p, c) ==
  /\ caller[p][c] = "blocking"
  /\ Goto(p, c, "waiting")
  /\ UNCHANGED <<wire, owner, receiver, held, queue, handler, sent, delivered>>

\* The wait ends without a notification.
WakeSpuriously(p, c) ==
  /\ caller[p][c] = "waiting"
  /\ Goto(p, c, "woken")
  /\ UNCHANGED <<wire, owner, receiver, held, queue, handler, sent, delivered>>

\* The deadline passes in the wait, or before the mutex is back.
TimeOut(p, c) ==
  /\ caller[p][c] \in {"waiting", "woken"}
  /\ Goto(p, c, "expired")
  /\ UNCHANGED <<wire, owner, receiver, held, queue, handler, sent, delivered>>

\* Mutant: with nothing in the queue the call waits once more.
GiveUpNever(p, c) ==
  /\ caller[p][c] = "expired"
  /\ MutexFree(p)
  /\ \/ Take(p, c)
     \/ queue[p] = <<>> /\ Goto(p, c, "blocking") /\ UNCHANGED <<queue, delivered>>
  /\ UNCHANGED <<wire, owner, receiver, held, handler, sent>>

\* The last test after the deadline: a message that is there is still taken.
GiveUp(p, c) ==
  /\ caller[p][c] = "expired"
  /\ MutexFree(p)
  /\ \/ Take(p, c)
     \/ queue[p] = <<>> /\ Goto(p, c, "idle") /\ UNCHANGED <<queue, delivered>>
  /\ UNCHANGED <<wire, owner, receiver, held, handler, sent>>

-----------------------------------------------------------------------------
OwnerStep(p) ==
  \/ Initialize(p) \/ BecomeReady(p)
  \/ \E q \in Parties : SendNext(p, q)
  \/ StopRunning(p) \/ NotifyAll(p) \/ Close(p)

ReceiverStep(p) ==
  \/ TestRunning(p)
  \/ \E s \in Parties : RouterReceive(p, s)
  \/ RouterTimeout(p)
  \/ CallHandler(p) \/ Enqueue(p)

ReceiveStep(p, c) ==
  \/ CallReceive(p, c) \/ Examine(p, c) \/ Block(p, c)
  \/ WakeSpuriously(p, c) \/ TimeOut(p, c) \/ GiveUp(p, c)

Next ==
  \E p \in Parties :
    \/ OwnerStep(p)
    \/ ReceiverStep(p)
    \/ \E c \in Callers[p] : ReceiveStep(p, c)

Spec == Init /\ [][Next]_vars

\* Every thread is scheduled, and gets a mutex that is released again and
\* again; ZeroMQ hands over what has arrived, from each peer in its turn.
\* The owner finishes what it has begun, but it need not send or shut down.
\* A caller calls receive again and again.  That a wait ends by its deadline
\* or for no reason is not assumed: a notification has to end it.
Fairness ==
  \A p \in Parties :
    /\ WF_vars(BecomeReady(p)) /\ WF_vars(NotifyAll(p)) /\ WF_vars(Close(p))
    /\ WF_vars(TestRunning(p)) /\ WF_vars(RouterTimeout(p)) /\ WF_vars(CallHandler(p))
    /\ SF_vars(Enqueue(p))
    /\ \A s \in Parties : SF_vars(RouterReceive(p, s))
    /\ \A c \in Callers[p] :
         /\ WF_vars(CallReceive(p, c)) /\ WF_vars(Block(p, c))
         /\ SF_vars(Examine(p, c)) /\ SF_vars(GiveUp(p, c))

FairSpec == Spec /\ Fairness

-----------------------------------------------------------------------------
(* What the messaging promises.                                            *)

\* (ZMQMPCCommunication.cpp:19-295)  A thread is at one of its points and has a
\* message in its hands exactly between taking it and passing it on.
TypeOK ==
  /\ wire \in [Parties -> [Parties -> Seq(Nat)]]
  /\ owner \in [Parties -> {"new", "starting", "up", "stopping", "joining", "off"}]
  /\ receiver \in [Parties -> {"none", "test", "recv", "handle", "done"}]
  /\ held \in [Parties -> Seq([from: Parties, msg: Nat])]
  /\ \A p \in Parties : Len(held[p]) = IF receiver[p] = "handle" THEN 1 ELSE 0
  /\ queue \in [Parties -> Seq([from: Parties, msg: Nat])]
  /\ DOMAIN caller = Parties
  /\ \A p \in Parties :
       caller[p] \in [Callers[p] -> {"idle", "entering", "blocking", "waiting",
                                    "woken", "expired"}]
  /\ handler \in [Parties -> BOOLEAN]
  /\ sent \in [Parties -> Nat]
  /\ delivered \in [Parties -> Seq([from: Parties, msg: Nat])]

\* (ZMQMPCCommunication.cpp:167-186, 289-293)  notify_one wakes one caller for
\* each message, and others may take that message first; yet no caller sleeps
\* on a queue that holds a message unless one is on its way to look.
NobodySleepsOnAMessage ==
  \A p \in Parties :
    queue[p] # <<>> /\ Waiting(p) # {} =>
      \E c \in Callers[p] : caller[p][c] \in {"woken", "expired"}

\* (ZMQMPCCommunication.cpp:69-100)  Once shutdown has returned, no message is
\* given to the handler, and none is put into the queue.
QuietAfterShutdown ==
  [][\A p \in Parties : owner[p] = "off" =>
       /\ handler[p] => delivered'[p] = delivered[p]
       /\ Len(queue'[p]) <= Len(queue[p])]_vars

\* What s has sent of a sequence of messages with their senders.
FromSender(messages, s) ==
  LET front[k \in 0 .. Len(messages)] ==
        IF k = 0 THEN <<>>
        ELSE IF messages[k].from = s THEN Append(front[k - 1], messages[k].msg)
        ELSE front[k - 1]
  IN  front[Len(messages)]

\* What of s is under way to p: in the queue, with the receiver thread, or in
\* the sockets.
UnderWay(s, p) == FromSender(queue[p] \o held[p], s) \o wire[s][p]

Status(p) ==
  CASE owner[p] = "new" -> "new"
    [] owner[p] = "off" -> "closed"
    [] OTHER            -> "open"

Box == INSTANCE Mailbox WITH
         Messages  <- UNION {1 .. Budget[p] : p \in Parties},
         status    <- [p \in Parties |-> Status(p)],
         channel   <- [s \in Parties |-> [p \in Parties |-> UnderWay(s, p)]]

\* (ZMQMPCCommunication.cpp:102-186, 229-295)  Through sockets, receiver thread,
\* queue or handler, the messages of a sender arrive once each and in order,
\* whoever calls receive; only a closing sender loses any.
ImplementsMailbox == Box!Spec

\* (ZMQMPCCommunication.cpp:69-100, 229-239)  shutdown returns, with or without a
\* message under way: the receiver thread it joins looks at isRunning_ again.
ShutdownReturns ==
  \A p \in Parties : owner[p] = "stopping" ~> owner[p] = "off"

\* (ZMQMPCCommunication.cpp:161-186, 229-295)  What a party has sent reaches the
\* handler, or a call of receive, of a party that keeps running; no caller
\* depends on its timeout for that.
SentIsDelivered ==
  \A s, p \in Parties :
    handler[p] \/ Callers[p] # {} =>
      (UnderWay(s, p) # <<>> /\ owner[p] # "new"
         ~> UnderWay(s, p) = <<>> \/ ~IsRunning(p))

\* A caller that waits again and again is woken by its deadline.
DeadlinesPass == \A p \in Parties : \A c \in Callers[p] : SF_vars(TimeOut(p, c))

\* (ZMQMPCCommunication.cpp:161-186)  Every call of receive returns by its
\* deadline, also when no message comes, and when shutdown begins, or has ended,
\* while it is under way.
ReceiveReturns ==
  DeadlinesPass =>
    \A p \in Parties : \A c \in Callers[p] :
      caller[p][c] # "idle" ~> caller[p][c] = "idle"
=============================================================================
