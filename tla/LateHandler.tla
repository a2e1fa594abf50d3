----------------------------- MODULE LateHandler ------------------------------
(***************************************************************************)
(* MPCCommunication where setMessageHandler is called after initialize, as *)
(* the test AsynchronousMessageHandler does: the owner assigns             *)
(* messageHandler_ while the receiver thread reads it, without a lock, and *)
(* what has arrived before is in the queue already.                        *)
(*                                                                         *)
(* The receiver thread reads messageHandler_ twice for a message, to test  *)
(* and to call it.  While the assignment is under way the test may come    *)
(* out either way, and the call may be one of a function that is not whole *)
(* yet, which ends the process.                                            *)
(***************************************************************************)
EXTENDS MPCCommunication

CONSTANT Late     \* the parties that set their handler late, if they set one

ASSUME LateAssumption == Late \subseteq Parties

VARIABLES
  setting,   \* whether messageHandler_ is being assigned
  route,     \* what the test of messageHandler_ has shown for the message in
             \* hand: "none" yet, "handler", "queue"; or "crashed"
  early      \* the messages that were taken before setMessageHandler had returned

lateVars == <<vars, setting, route, early>>

LateInit ==
  /\ Init
  /\ \A p \in Late : ~handler[p]
  /\ setting = [p \in Parties |-> FALSE]
  /\ route = [p \in Parties |-> "none"]
  /\ early = [p \in Parties |-> {}]

Alive(p) == route[p] # "crashed"

-----------------------------------------------------------------------------
(* The owner.                                                              *)

BeginSetHandler(p) ==
  /\ p \in Late /\ ~handler[p] /\ ~setting[p]
  /\ owner[p] \in {"new", "up"}
  /\ setting' = [setting EXCEPT ![p] = TRUE]
  /\ UNCHANGED <<vars, route, early>>

EndSetHandler(p) ==
  /\ setting[p]
  /\ setting' = [setting EXCEPT ![p] = FALSE]
  /\ handler' = [handler EXCEPT ![p] = TRUE]
  /\ UNCHANGED <<wire, owner, receiver, held, queue, caller, sent, delivered, route, early>>

-----------------------------------------------------------------------------
(* The receiver thread.                                                    *)

TakeMessage(p, s) ==
  /\ RouterReceive(p, s)
  /\ early' = [early EXCEPT ![p] = IF handler[p] THEN @ ELSE @ \cup {held'[p][1]}]
  /\ UNCHANGED <<setting, route>>

\* Mutant: the thread looks for a handler once, when it starts.
TestHandlerOnce(p) ==
  /\ receiver[p] = "handle" /\ route[p] = "none"
  /\ route' = [route EXCEPT ![p] = IF p \in Late THEN "queue" ELSE "handler"]
  /\ UNCHANGED <<vars, setting, early>>

TestHandler(p) ==
  /\ receiver[p] = "handle" /\ route[p] = "none"
  /\ \E set \in (IF setting[p] THEN BOOLEAN ELSE {handler[p]}) :
       route' = [route EXCEPT ![p] = IF set THEN "handler" ELSE "queue"]
  /\ UNCHANGED <<vars, setting, early>>

HandleMessage(p) ==
  /\ route[p] = "handler"
  /\ GiveToHandler(p)
  /\ route' = [route EXCEPT ![p] = "none"]
  /\ UNCHANGED <<setting, early>>

\* The call of a function that is not whole.
CallHalfAHandler(p) ==
  /\ route[p] = "handler" /\ setting[p]
  /\ route' = [route EXCEPT ![p] = "crashed"]
  /\ UNCHANGED <<vars, setting, early>>

QueueMessage(p) ==
  /\ route[p] = "queue"
  /\ PutIntoQueue(p)
  /\ route' = [route EXCEPT ![p] = "none"]
  /\ UNCHANGED <<setting, early>>

-----------------------------------------------------------------------------
\* What is as it was; the owner does one thing at a time.
Unaffected(p) ==
  /\ \/ ~setting[p] /\ OwnerStep(p)
     \/ TestRunning(p) \/ RouterTimeout(p)
     \/ \E c \in Callers[p] : ReceiveStep(p, c)
  /\ UNCHANGED <<setting, route, early>>

LateNext ==
  \E p \in Parties : Alive(p) /\
    \/ Unaffected(p)
    \/ BeginSetHandler(p) \/ EndSetHandler(p)
    \/ \E s \in Parties : TakeMessage(p, s)
    \/ TestHandler(p) \/ HandleMessage(p) \/ CallHalfAHandler(p) \/ QueueMessage(p)

LateSpec == LateInit /\ [][LateNext]_lateVars

-----------------------------------------------------------------------------
(* Properties.                                                             *)

LateTypeOK ==
  /\ TypeOK
  /\ setting \in [Parties -> BOOLEAN]
  /\ route \in [Parties -> {"none", "handler", "queue", "crashed"}]
  /\ early \in [Parties -> SUBSET [from: Parties, msg: Nat]]
  /\ \A p \in Parties : route[p] # "none" => receiver[p] = "handle"

\* Where the n-th message of s is.
Places(s, n) ==
  UNION {{<<p, "way", i>> : i \in {i \in 1 .. Len(UnderWay(s, p)) : UnderWay(s, p)[i] = n}}
           \cup {<<p, "given", i>> : i \in {i \in 1 .. Len(delivered[p]) :
                                             delivered[p][i] = [from |-> s, msg |-> n]}}
         : p \in Parties}

\* (ZMQMPCCommunication.cpp:188-190, 281-295)  Setting the handler in the middle
\* neither loses a message nor has one given twice, to the handler and to a call
\* of receive, for as long as its sender is open.
EachMessageOnce ==
  \A s \in Parties : owner[s] # "off" =>
    \A n \in 1 .. sent[s] : Cardinality(Places(s, n)) = 1

\* (ZMQMPCCommunication.cpp:188-190, 283)  A message that is taken off the socket
\* after setMessageHandler has returned is never put into the queue, where a
\* party that waits for its handler would not look.
LaterOnesAreHandled ==
  \A p \in Parties : \A i \in 1 .. Len(queue[p]) : queue[p][i] \in early[p]

\* (ZMQMPCCommunication.cpp:174-186, 281-295)  The messages of a sender are
\* given out of order only where the handler overtakes the queue, and all that
\* is overtaken had been taken off the socket before the handler was set.
OnlyEarlyOvertaken ==
  \A p \in Parties : \A i, j \in 1 .. Len(delivered[p]) :
    LET first == delivered[p][i]
        then  == delivered[p][j]
    IN  i < j /\ first.from = then.from /\ first.msg > then.msg =>
          then \in early[p] /\ (handler[p] \/ setting[p])
=============================================================================
