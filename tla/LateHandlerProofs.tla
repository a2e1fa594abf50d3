-------------------------- MODULE LateHandlerProofs ---------------------------
(***************************************************************************)
(* Proofs about LateHandler, for any parties, callers and budgets, and any *)
(* parties that set their handler late.                                    *)
(*                                                                         *)
(* What the properties say of the messages a party has been given depends  *)
(* on every place a message can be at before.  The inductive invariant     *)
(* orders the places: for each sender, what has been given or is in the    *)
(* queue was sent before what the thread has in its hands, and all of that *)
(* before what is still in the socket.  Only between the queue and what    *)
(* has been given can a handler change the order.                          *)
(***************************************************************************)
EXTENDS LateHandler, MPCCommunicationProofs

In(m) == {m[k] : k \in 1 .. Len(m)}

\* The numbers w with the name of their sender
Numbered(s, w) == {[from |-> s, msg |-> w[k]] : k \in 1 .. Len(w)}

\* What p has been given or is going to be, if nothing is lost
Reached(p)    == In(delivered[p]) \cup In(queue[p]) \cup In(held[p])
OnWires(p)    == UNION {Numbered(s, wire[s][p]) : s \in Parties}
Everywhere(p) == Reached(p) \cup OnWires(p)

\* Of one sender, what is in S has been sent before what is in T.
Before(S, T) == \A x \in S, y \in T : x.from = y.from => x.msg < y.msg

Increasing(w) == \A i, j \in 1 .. Len(w) : i < j => w[i] < w[j]
Rising(m)     == \A i, j \in 1 .. Len(m) :
                   i < j /\ m[i].from = m[j].from => m[i].msg < m[j].msg

Distinct(m) == \A i, j \in 1 .. Len(m) : m[i] = m[j] => i = j

\* All of m is in E that comes after something its sender has sent later.
LateIn(m, E) == \A i, j \in 1 .. Len(m) :
                  i < j /\ m[i].from = m[j].from /\ m[i].msg > m[j].msg => m[j] \in E

\* The receiver thread and the handler
HandlerInv(p) ==
  /\ owner[p] = "new" => receiver[p] = "none"
  /\ setting[p] => ~handler[p]
  /\ route[p] = "handler" => handler[p] \/ setting[p]
  /\ ~handler[p] \/ route[p] = "queue" => In(held[p]) \subseteq early[p]
  /\ In(queue[p]) \subseteq early[p]

\* The messages of one sender keep their order from socket to thread to queue.
OrderInv(p) ==
  /\ \A s \in Parties : Increasing(wire[s][p])
  /\ Before(Reached(p), OnWires(p))
  /\ Before(In(delivered[p]) \cup In(queue[p]), In(held[p]))
  /\ Rising(queue[p])
  /\ In(queue[p]) \cap In(delivered[p]) = {}
  /\ Distinct(delivered[p])

\* Only a handler overtakes the queue, and all that it overtakes is early.
OvertakingInv(p) ==
  /\ LateIn(delivered[p], early[p])
  /\ \/ handler[p] \/ setting[p]
     \/ Before(In(delivered[p]), In(queue[p])) /\ LateIn(delivered[p], {})

\* A message is at one party, and lost only when its sender closes.
WhereInv ==
  /\ \A p \in Parties : \A x \in Everywhere(p) : x.msg \in 1 .. sent[x.from]
  /\ \A p, q \in Parties : p # q => Everywhere(p) \cap Everywhere(q) = {}
  /\ \A s \in Parties : owner[s] # "off" =>
       \A n \in 1 .. sent[s] : \E p \in Parties : [from |-> s, msg |-> n] \in Everywhere(p)

\* The inductive invariant (ZMQMPCCommunication.cpp:19-295)
LateInv ==
  /\ LateTypeOK
  /\ WhereInv
  /\ \A p \in Parties : HandlerInv(p) /\ OrderInv(p) /\ OvertakingInv(p)

-----------------------------------------------------------------------------
(* Sequences of messages.                                                  *)

LEMMA InEmpty == In(<<>>) = {} /\ \A s : Numbered(s, <<>>) = {}
BY DEF In, Numbered

LEMMA InOne == ASSUME NEW x PROVE In(<<x>>) = {x}
BY DEF In

LEMMA InType == ASSUME NEW S, NEW m \in Seq(S) PROVE In(m) \subseteq S
BY DEF In

\* A message at the end
LEMMA InAppend ==
  ASSUME NEW S, NEW m \in Seq(S), NEW x \in S
  PROVE  In(Append(m, x)) = In(m) \cup {x}
<1>. DEFINE n == Append(m, x)
            l == Len(m)
<1>1. Len(n) = l + 1 /\ l \in Nat /\ n[l + 1] = x /\ \A k \in 1 .. l : n[k] = m[k]
  OBVIOUS
<1>. HIDE DEF n, l
<1>2. 1 .. l + 1 = (1 .. l) \cup {l + 1}
  BY <1>1
<1>3. {n[k] : k \in 1 .. l + 1} = {m[k] : k \in 1 .. l} \cup {x}
  BY <1>1, <1>2
<1>. QED
  BY <1>1, <1>3 DEF In, n, l

\* The message at the front
LEMMA InHead ==
  ASSUME NEW S, NEW m \in Seq(S), m # <<>>
  PROVE  /\ In(m) = {Head(m)} \cup In(Tail(m))
         /\ Head(m) \in S /\ Tail(m) \in Seq(S)
<1>. DEFINE t == Tail(m)
            l == Len(m)
<1>1. /\ Len(t) = l - 1 /\ l \in Nat \ {0} /\ Head(m) = m[1]
      /\ \A k \in 1 .. l - 1 : t[k] = m[k + 1]
      /\ Head(m) \in S /\ t \in Seq(S)
  OBVIOUS
<1>. HIDE DEF t, l
<1>2. ASSUME NEW k \in 2 .. l PROVE k - 1 \in 1 .. l - 1 /\ m[k] = t[k - 1]
  BY <1>1
<1>3. ASSUME NEW k \in 1 .. l - 1 PROVE k + 1 \in 2 .. l
  BY <1>1
<1>4. 1 .. l = {1} \cup 2 .. l
  BY <1>1
<1>5. {m[k] : k \in 1 .. l} = {m[1]} \cup {t[k] : k \in 1 .. l - 1}
  <2>1. ASSUME NEW k \in 1 .. l PROVE m[k] \in {m[1]} \cup {t[j] : j \in 1 .. l - 1}
    BY <1>2, <1>4
  <2>2. ASSUME NEW j \in 1 .. l - 1 PROVE t[j] \in {m[k] : k \in 1 .. l}
    <3>. DEFINE k == j + 1
    <3>1. k \in 1 .. l /\ t[j] = m[k]
      BY <1>1
    <3>. HIDE DEF k
    <3>. QED
      BY <3>1
  <2>3. 1 \in 1 .. l
    BY <1>1
  <2>. QED
    BY <2>1, <2>2, <2>3
<1>. QED
  BY <1>1, <1>5 DEF In, t, l

LEMMA RisingHead ==
  ASSUME NEW m \in Seq(Messages), m # <<>>, Rising(m)
  PROVE  Rising(Tail(m)) /\ Before({Head(m)}, In(Tail(m)))
<1>. DEFINE t == Tail(m)
            l == Len(m)
<1>1. /\ Len(t) = l - 1 /\ l \in Nat \ {0} /\ Head(m) = m[1]
      /\ \A k \in 1 .. l - 1 : t[k] = m[k + 1]
  OBVIOUS
<1>2. \A i, j \in 1 .. l : i < j /\ m[i].from = m[j].from => m[i].msg < m[j].msg
  BY DEF Rising
<1>. HIDE DEF t, l
<1>3. ASSUME NEW k \in 1 .. l - 1 PROVE k + 1 \in 1 .. l /\ 1 < k + 1 /\ 1 \in 1 .. l
  BY <1>1
<1>4. ASSUME NEW i \in 1 .. l - 1, NEW j \in 1 .. l - 1, i < j PROVE i + 1 < j + 1
  BY <1>1, <1>4
<1>5. Rising(t)
  <2>. SUFFICES ASSUME NEW i \in 1 .. l - 1, NEW j \in 1 .. l - 1, i < j, t[i].from = t[j].from
                PROVE  t[i].msg < t[j].msg
    BY <1>1 DEF Rising
  <2>1. t[i] = m[i + 1] /\ t[j] = m[j + 1] /\ i + 1 < j + 1
    BY <1>1, <1>4
  <2>2. i + 1 \in 1 .. l /\ j + 1 \in 1 .. l
    BY <1>3
  <2>. DEFINE a == i + 1
              b == j + 1
  <2>. HIDE DEF a, b
  <2>3. a \in 1 .. l /\ b \in 1 .. l /\ a < b /\ t[i] = m[a] /\ t[j] = m[b]
    BY <2>1, <2>2 DEF a, b
  <2>. QED
    BY <1>2, <2>3
<1>6. ASSUME NEW y \in In(t), m[1].from = y.from PROVE m[1].msg < y.msg
  <2>1. PICK k \in 1 .. l - 1 : y = t[k]
    BY <1>1 DEF In
  <2>. DEFINE a == k + 1
  <2>2. a \in 1 .. l /\ 1 < a /\ 1 \in 1 .. l /\ y = m[a]
    BY <1>1, <1>3, <2>1
  <2>. HIDE DEF a
  <2>. QED
    BY <1>2, <1>6, <2>2
<1>. QED
  BY <1>1, <1>5, <1>6 DEF Before, t

LEMMA RisingAppend ==
  ASSUME NEW m \in Seq(Messages), NEW x \in Messages, Rising(m), Before(In(m), {x})
  PROVE  Rising(Append(m, x))
<1>. DEFINE n == Append(m, x)
            l == Len(m)
<1>1. Len(n) = l + 1 /\ l \in Nat /\ n[l + 1] = x /\ \A k \in 1 .. l : n[k] = m[k]
  OBVIOUS
<1>. HIDE DEF n, l
<1>. SUFFICES ASSUME NEW i \in 1 .. l + 1, NEW j \in 1 .. l + 1, i < j, n[i].from = n[j].from
              PROVE  n[i].msg < n[j].msg
  BY <1>1 DEF Rising, n
<1>2. i \in 1 .. l /\ n[i] = m[i] /\ n[i] \in In(m)
  BY <1>1 DEF In, l
<1>3. CASE j = l + 1
  BY <1>1, <1>2, <1>3 DEF Before
<1>4. CASE j # l + 1
  <2>1. j \in 1 .. l
    BY <1>1, <1>4
  <2>. QED
    BY <1>1, <1>2, <2>1 DEF Rising, l
<1>. QED
  BY <1>3, <1>4

LEMMA IncreasingTail ==
  ASSUME NEW w \in Seq(Nat), w # <<>>, Increasing(w)
  PROVE  Increasing(Tail(w)) /\ \A k \in 1 .. Len(Tail(w)) : Head(w) < Tail(w)[k]
<1>. DEFINE t == Tail(w)
            l == Len(w)
<1>1. /\ Len(t) = l - 1 /\ l \in Nat \ {0} /\ Head(w) = w[1]
      /\ \A k \in 1 .. l - 1 : t[k] = w[k + 1]
  OBVIOUS
<1>2. \A i, j \in 1 .. l : i < j => w[i] < w[j]
  BY DEF Increasing
<1>. HIDE DEF t, l
<1>3. ASSUME NEW i \in 1 .. l - 1, NEW j \in 1 .. l - 1, i < j PROVE t[i] < t[j]
  <2>. DEFINE a == i + 1
              b == j + 1
  <2>1. a \in 1 .. l /\ b \in 1 .. l /\ a < b /\ t[i] = w[a] /\ t[j] = w[b]
    BY <1>1, <1>3
  <2>. HIDE DEF a, b
  <2>. QED
    BY <1>2, <2>1
<1>4. ASSUME NEW k \in 1 .. l - 1 PROVE w[1] < t[k]
  <2>. DEFINE a == k + 1
  <2>1. a \in 1 .. l /\ 1 < a /\ t[k] = w[a] /\ 1 \in 1 .. l
    BY <1>1
  <2>. HIDE DEF a
  <2>. QED
    BY <1>2, <2>1
<1>. QED
  BY <1>1, <1>3, <1>4 DEF Increasing, t

LEMMA IncreasingAppend ==
  ASSUME NEW w \in Seq(Nat), NEW n \in Nat, Increasing(w), \A k \in 1 .. Len(w) : w[k] < n
  PROVE  Increasing(Append(w, n))
<1>. DEFINE v == Append(w, n)
            l == Len(w)
<1>1. Len(v) = l + 1 /\ l \in Nat /\ v[l + 1] = n /\ \A k \in 1 .. l : v[k] = w[k]
  OBVIOUS
<1>. HIDE DEF v, l
<1>. SUFFICES ASSUME NEW i \in 1 .. l + 1, NEW j \in 1 .. l + 1, i < j PROVE v[i] < v[j]
  BY <1>1 DEF Increasing, v
<1>2. i \in 1 .. l /\ v[i] = w[i]
  BY <1>1
<1>3. CASE j = l + 1
  BY <1>1, <1>2, <1>3 DEF l
<1>4. CASE j # l + 1
  <2>1. j \in 1 .. l
    BY <1>1, <1>4
  <2>. QED
    BY <1>1, <1>2, <2>1 DEF Increasing, l
<1>. QED
  BY <1>3, <1>4

LEMMA DistinctAppend ==
  ASSUME NEW m \in Seq(Messages), NEW x \in Messages, Distinct(m), x \notin In(m)
  PROVE  Distinct(Append(m, x))
<1>. DEFINE n == Append(m, x)
            l == Len(m)
<1>1. Len(n) = l + 1 /\ l \in Nat /\ n[l + 1] = x /\ \A k \in 1 .. l : n[k] = m[k]
  OBVIOUS
<1>2. \A k \in 1 .. l : m[k] # x
  BY DEF In
<1>. HIDE DEF n, l
<1>3. 1 .. l + 1 = (1 .. l) \cup {l + 1}
  BY <1>1
<1>. SUFFICES ASSUME NEW i \in 1 .. l + 1, NEW j \in 1 .. l + 1, n[i] = n[j] PROVE i = j
  BY <1>1 DEF Distinct, n
<1>. QED
  BY <1>1, <1>2, <1>3 DEF Distinct, l

\* What comes last is behind nothing that its sender has sent later, or is in E.
LEMMA LateInAppend ==
  ASSUME NEW m \in Seq(Messages), NEW x \in Messages, NEW E, LateIn(m, E),
         Before(In(m), {x}) \/ x \in E
  PROVE  LateIn(Append(m, x), E)
<1>. DEFINE n == Append(m, x)
            l == Len(m)
<1>1. Len(n) = l + 1 /\ l \in Nat /\ n[l + 1] = x /\ \A k \in 1 .. l : n[k] = m[k]
  OBVIOUS
<1>2. ASSUME NEW k \in 1 .. l PROVE m[k] \in In(m) /\ m[k].msg \in Nat
  <2>1. m[k] \in Messages
    OBVIOUS
  <2>. QED
    BY <2>1 DEF In, Messages
<1>. HIDE DEF n, l
<1>. SUFFICES ASSUME NEW i \in 1 .. l + 1, NEW j \in 1 .. l + 1, i < j,
                     n[i].from = n[j].from, n[i].msg > n[j].msg
              PROVE  n[j] \in E
  BY <1>1 DEF LateIn, n
<1>3. i \in 1 .. l /\ n[i] = m[i]
  BY <1>1
<1>4. CASE j = l + 1
  <2>1. CASE x \in E
    BY <1>1, <1>4, <2>1
  <2>2. CASE Before(In(m), {x})
    <3>1. m[i].msg < x.msg
      BY <1>1, <1>2, <1>3, <1>4, <2>2 DEF Before
    <3>2. x.msg \in Nat /\ m[i].msg \in Nat
      BY <1>2, <1>3 DEF Messages
    <3>. QED
      BY <1>1, <1>3, <1>4, <3>1, <3>2
  <2>. QED
    BY <2>1, <2>2
<1>5. CASE j # l + 1
  <2>1. j \in 1 .. l /\ n[j] = m[j]
    BY <1>1, <1>5
  <2>. QED
    BY <1>3, <2>1 DEF LateIn, l
<1>. QED
  BY <1>4, <1>5

LEMMA NumberedAppend ==
  ASSUME NEW w \in Seq(Nat), NEW n \in Nat, NEW s
  PROVE  Numbered(s, Append(w, n)) = Numbered(s, w) \cup {[from |-> s, msg |-> n]}
<1>. DEFINE v == Append(w, n)
            l == Len(w)
<1>1. Len(v) = l + 1 /\ l \in Nat /\ v[l + 1] = n /\ \A k \in 1 .. l : v[k] = w[k]
  OBVIOUS
<1>. HIDE DEF v, l
<1>2. 1 .. l + 1 = (1 .. l) \cup {l + 1}
  BY <1>1
<1>3. {[from |-> s, msg |-> v[k]] : k \in 1 .. l + 1} =
        {[from |-> s, msg |-> w[k]] : k \in 1 .. l} \cup {[from |-> s, msg |-> n]}
  BY <1>1, <1>2
<1>. QED
  BY <1>1, <1>3 DEF Numbered, v, l

LEMMA NumberedHead ==
  ASSUME NEW w \in Seq(Nat), w # <<>>, NEW s
  PROVE  Numbered(s, w) = {[from |-> s, msg |-> Head(w)]} \cup Numbered(s, Tail(w))
<1>. DEFINE R(n) == [from |-> s, msg |-> n]
<1>1. In(w) = {Head(w)} \cup In(Tail(w))
  BY InHead
<1>2. \A v : Numbered(s, v) = {R(n) : n \in In(v)}
  BY DEF Numbered, In
<1>. QED
  BY <1>1, <1>2

LEMMA NumberedType ==
  ASSUME NEW w \in Seq(Nat), NEW s \in Parties
  PROVE  Numbered(s, w) \subseteq Messages
BY DEF Numbered, Messages

\* What linger 0 keeps of the numbers on their way
LEMMA KeptNumbers ==
  ASSUME NEW w \in Seq(Nat), NEW v \in Kept(w), NEW s
  PROVE  Numbered(s, v) \subseteq Numbered(s, w) /\ (Increasing(w) => Increasing(v))
<1>1. PICK k \in 0 .. Len(w) : v = SubSeq(w, 1, k)
  BY DEF Kept
<1>2. Len(v) = k /\ (\A i \in 1 .. k : v[i] = w[i] /\ i \in 1 .. Len(w)) /\ Len(w) \in Nat
  BY <1>1
<1>3. Numbered(s, v) \subseteq Numbered(s, w)
  BY <1>2 DEF Numbered
<1>4. Increasing(w) => Increasing(v)
  BY <1>2 DEF Increasing
<1>. QED
  BY <1>3, <1>4
-----------------------------------------------------------------------------
(* The places of the messages.                                             *)

LEMMA PlaceTypes ==
  ASSUME TypeOK, NEW p \in Parties
  PROVE  /\ queue[p] \in Seq(Messages) /\ held[p] \in Seq(Messages)
         /\ delivered[p] \in Seq(Messages)
         /\ \A s \in Parties : wire[s][p] \in Seq(Nat)
         /\ Reached(p) \subseteq Messages /\ OnWires(p) \subseteq Messages
<1>1. /\ queue[p] \in Seq(Messages) /\ held[p] \in Seq(Messages)
      /\ delivered[p] \in Seq(Messages)
  BY DEF TypeOK, Messages
<1>2. \A s \in Parties : wire[s][p] \in Seq(Nat)
  BY DEF TypeOK
<1>3. Reached(p) \subseteq Messages
  BY <1>1, InType DEF Reached
<1>4. OnWires(p) \subseteq Messages
  BY <1>2, NumberedType DEF OnWires
<1>. QED
  BY <1>1, <1>2, <1>3, <1>4

\* A party none of whose messages move
LEMMA OrderStays ==
  ASSUME NEW p \in Parties, OrderInv(p),
         queue'[p] = queue[p], held'[p] = held[p], delivered'[p] = delivered[p],
         \A s \in Parties : wire'[s][p] = wire[s][p]
  PROVE  OrderInv(p)' /\ Reached(p)' = Reached(p) /\ OnWires(p)' = OnWires(p)
<1>1. Reached(p)' = Reached(p)
  BY DEF Reached
<1>2. OnWires(p)' = OnWires(p)
  BY DEF OnWires
<1>. QED
  BY <1>1, <1>2 DEF OrderInv

\* The receiver thread takes a message off a socket.
LEMMA TakeMessageOrder ==
  ASSUME TypeOK, NEW p \in Parties, NEW s \in Parties, OrderInv(p), RouterReceive(p, s)
  PROVE  OrderInv(p)' /\ Everywhere(p)' = Everywhere(p)
<1>. DEFINE w == wire[s][p]
            n == Head(w)
            x == [from |-> s, msg |-> n]
<1>1. /\ receiver[p] = "recv" /\ w # <<>> /\ UNCHANGED <<queue, delivered>>
      /\ held'[p] = <<x>> /\ wire'[s][p] = Tail(w)
      /\ \A r \in Parties \ {s} : wire'[r][p] = wire[r][p]
  BY DEF RouterReceive, TypeOK
<1>2. /\ w \in Seq(Nat) /\ n \in Nat /\ Tail(w) \in Seq(Nat) /\ held[p] = <<>>
      /\ \A r \in Parties : wire[r][p] \in Seq(Nat)
  BY <1>1, PlaceTypes, HeldFacts
<1>3. /\ Increasing(w) /\ Increasing(Tail(w))
      /\ \A k \in 1 .. Len(Tail(w)) : n < Tail(w)[k]
  BY <1>1, <1>2, IncreasingTail DEF OrderInv
<1>4. Numbered(s, w) = {x} \cup Numbered(s, Tail(w))
  BY <1>1, <1>2, NumberedHead
<1>5. \A y \in Numbered(s, Tail(w)) : n < y.msg
  BY <1>3 DEF Numbered
<1>6. \A r : \A v : \A y \in Numbered(r, v) : y.from = r
  BY DEF Numbered
<1>. HIDE DEF w, n
<1>7. OnWires(p) = {x} \cup OnWires(p)'
  BY <1>1, <1>4 DEF OnWires, w
<1>8. Before({x}, OnWires(p)')
  <2>. SUFFICES ASSUME NEW y \in OnWires(p)', y.from = s PROVE n < y.msg
    BY DEF Before
  <2>1. PICK r \in Parties : y \in Numbered(r, wire'[r][p])
    BY DEF OnWires
  <2>2. r = s
    BY <1>6, <2>1
  <2>. QED
    BY <1>1, <1>5, <2>1, <2>2
<1>. HIDE DEF x
<1>9. In(held[p]) = {} /\ In(held'[p]) = {x}
  BY <1>1, <1>2, InEmpty, InOne
<1>10. Reached(p)' = Reached(p) \cup {x}
  BY <1>1, <1>9 DEF Reached
<1>11. \A r \in Parties : Increasing(wire'[r][p])
  BY <1>1, <1>3 DEF OrderInv
<1>12. Before(Reached(p)', OnWires(p)')
  BY <1>7, <1>8, <1>10 DEF OrderInv, Before
<1>13. Before(In(delivered[p]) \cup In(queue[p]), In(held'[p]))
  BY <1>7, <1>9 DEF OrderInv, Before, Reached
<1>14. OrderInv(p)'
  BY <1>1, <1>11, <1>12, <1>13 DEF OrderInv
<1>. QED
  BY <1>7, <1>10, <1>14 DEF Everywhere

\* The message in hand is given to the handler.
LEMMA HandleOrder ==
  ASSUME TypeOK, NEW p \in Parties, OrderInv(p), GiveToHandler(p)
  PROVE  /\ OrderInv(p)' /\ Everywhere(p)' = Everywhere(p)
         /\ \A E : LateIn(delivered[p], E) => LateIn(delivered'[p], E)
<1>1. /\ receiver[p] = "handle" /\ UNCHANGED <<wire, queue>>
      /\ delivered'[p] = delivered[p] \o held[p] /\ held'[p] = <<>>
  BY DEF GiveToHandler, TypeOK
<1>2. PICK x \in Messages : held[p] = <<x>>
  BY <1>1, HeldFacts
<1>3. delivered[p] \in Seq(Messages) /\ delivered'[p] = Append(delivered[p], x)
  BY <1>1, <1>2, PlaceTypes, AppendIsConcat
<1>4. /\ In(delivered'[p]) = In(delivered[p]) \cup {x}
      /\ In(held[p]) = {x} /\ In(held'[p]) = {}
  <2>1. In(delivered'[p]) = In(delivered[p]) \cup {x}
    BY <1>3, InAppend
  <2>2. In(held[p]) = {x} /\ In(held'[p]) = {}
    BY <1>1, <1>2, InOne, InEmpty
  <2>. QED
    BY <2>1, <2>2
<1>5. Reached(p)' = Reached(p) /\ OnWires(p)' = OnWires(p)
  BY <1>1, <1>4 DEF Reached, OnWires
<1>6. Before(In(delivered[p]) \cup In(queue[p]), {x})
  BY <1>4 DEF OrderInv
<1>7. x \notin In(delivered[p]) /\ x \notin In(queue[p])
  BY <1>6 DEF Before, Messages
<1>8. Before(In(delivered[p]), {x})
  BY <1>6 DEF Before
<1>9. Distinct(delivered'[p])
  BY <1>3, <1>7, DistinctAppend DEF OrderInv
<1>10. OrderInv(p)'
  BY <1>1, <1>4, <1>5, <1>7, <1>9 DEF OrderInv, Before
<1>. QED
  BY <1>3, <1>5, <1>8, <1>10, LateInAppend DEF Everywhere

\* The message in hand goes into the queue.
LEMMA QueueOrder ==
  ASSUME TypeOK, NEW p \in Parties, OrderInv(p), PutIntoQueue(p)
  PROVE  /\ OrderInv(p)' /\ Everywhere(p)' = Everywhere(p)
         /\ Before(In(delivered[p]), In(queue[p])) => Before(In(delivered[p]), In(queue'[p]))
<1>1. /\ receiver[p] = "handle" /\ UNCHANGED <<wire, delivered>>
      /\ queue'[p] = queue[p] \o held[p] /\ held'[p] = <<>>
  BY DEF PutIntoQueue, TypeOK
<1>2. PICK x \in Messages : held[p] = <<x>>
  BY <1>1, HeldFacts
<1>3. queue[p] \in Seq(Messages) /\ queue'[p] = Append(queue[p], x)
  BY <1>1, <1>2, PlaceTypes, AppendIsConcat
<1>4. /\ In(queue'[p]) = In(queue[p]) \cup {x}
      /\ In(held[p]) = {x} /\ In(held'[p]) = {}
  <2>1. In(queue'[p]) = In(queue[p]) \cup {x}
    BY <1>3, InAppend
  <2>2. In(held[p]) = {x} /\ In(held'[p]) = {}
    BY <1>1, <1>2, InOne, InEmpty
  <2>. QED
    BY <2>1, <2>2
<1>5. Reached(p)' = Reached(p) /\ OnWires(p)' = OnWires(p)
  BY <1>1, <1>4 DEF Reached, OnWires
<1>6. Before(In(delivered[p]) \cup In(queue[p]), {x})
  BY <1>4 DEF OrderInv
<1>7. x \notin In(delivered[p])
  BY <1>6 DEF Before, Messages
<1>8. Before(In(delivered[p]), {x}) /\ Before(In(queue[p]), {x})
  BY <1>6 DEF Before
<1>9. Rising(queue'[p])
  BY <1>3, <1>8, RisingAppend DEF OrderInv
<1>10. OrderInv(p)'
  BY <1>1, <1>4, <1>5, <1>7, <1>9 DEF OrderInv, Before
<1>. QED
  BY <1>4, <1>5, <1>8, <1>10 DEF Everywhere, Before

\* A call of receive takes the front of the queue.
LEMMA TakeOrder ==
  ASSUME TypeOK, NEW p \in Parties, NEW c \in Callers[p], OrderInv(p), Take(p, c),
         UNCHANGED <<wire, held>>
  PROVE  /\ OrderInv(p)' /\ Everywhere(p)' = Everywhere(p)
         /\ \A E : LateIn(delivered[p], E)
                    /\ (In(queue[p]) \subseteq E \/ Before(In(delivered[p]), In(queue[p])))
                  => LateIn(delivered'[p], E)
         /\ Before(In(delivered[p]), In(queue[p])) => Before(In(delivered'[p]), In(queue'[p]))
         /\ In(queue'[p]) \subseteq In(queue[p])
<1>. DEFINE x == Head(queue[p])
<1>1. /\ queue[p] # <<>> /\ UNCHANGED <<wire, held>>
      /\ delivered'[p] = Append(delivered[p], x) /\ queue'[p] = Tail(queue[p])
  BY DEF Take, TypeOK
<1>2. queue[p] \in Seq(Messages) /\ delivered[p] \in Seq(Messages)
  BY PlaceTypes
<1>3. x \in Messages /\ In(queue[p]) = {x} \cup In(queue'[p])
  BY <1>1, <1>2, InHead
<1>4. In(delivered'[p]) = In(delivered[p]) \cup {x}
  BY <1>1, <1>2, <1>3, InAppend
<1>5. Rising(queue'[p]) /\ Before({x}, In(queue'[p]))
  BY <1>1, <1>2, RisingHead DEF OrderInv
<1>. HIDE DEF x
<1>6. x \notin In(queue'[p])
  BY <1>3, <1>5 DEF Before, Messages
<1>7. x \notin In(delivered[p])
  BY <1>3 DEF OrderInv
<1>8. Distinct(delivered'[p])
  BY <1>1, <1>2, <1>3, <1>7, DistinctAppend DEF OrderInv
<1>9. Reached(p)' = Reached(p) /\ OnWires(p)' = OnWires(p)
  BY <1>1, <1>3, <1>4 DEF Reached, OnWires
<1>10. In(delivered'[p]) \cup In(queue'[p]) = In(delivered[p]) \cup In(queue[p])
  BY <1>3, <1>4
<1>11. OrderInv(p)'
  BY <1>1, <1>3, <1>4, <1>5, <1>6, <1>8, <1>9, <1>10 DEF OrderInv
<1>12. ASSUME NEW E, LateIn(delivered[p], E),
              In(queue[p]) \subseteq E \/ Before(In(delivered[p]), In(queue[p]))
       PROVE  LateIn(delivered'[p], E)
  <2>1. Before(In(delivered[p]), {x}) \/ x \in E
    BY <1>3, <1>12 DEF Before
  <2>. QED
    BY <1>1, <1>2, <1>3, <1>12, <2>1, LateInAppend
<1>13. Before(In(delivered[p]), In(queue[p])) => Before(In(delivered'[p]), In(queue'[p]))
  BY <1>3, <1>4, <1>5 DEF Before
<1>. QED
  BY <1>3, <1>9, <1>11, <1>12, <1>13 DEF Everywhere

\* s sends its next message to q.
LEMMA SendOrder ==
  ASSUME TypeOK, WhereInv, NEW s \in Parties, NEW q \in Parties, OrderInv(q), SendNext(s, q)
  PROVE  /\ OrderInv(q)'
         /\ Everywhere(q)' = Everywhere(q) \cup {[from |-> s, msg |-> sent[s] + 1]}
<1>. DEFINE w == wire[s][q]
            n == sent[s] + 1
            x == [from |-> s, msg |-> n]
<1>1. /\ UNCHANGED <<queue, held, delivered>>
      /\ wire'[s][q] = Append(w, n) /\ \A r \in Parties \ {s} : wire'[r][q] = wire[r][q]
  BY DEF SendNext, Send, TypeOK
<1>2. w \in Seq(Nat) /\ sent[s] \in Nat /\ n \in Nat
  <2>1. w \in Seq(Nat)
    BY PlaceTypes
  <2>2. sent[s] \in Nat
    BY DEF TypeOK
  <2>. QED
    BY <2>1, <2>2
<1>3. \A y \in Everywhere(q) : y.from = s => y.msg < n
  BY <1>2 DEF WhereInv
<1>4. Numbered(s, w) \subseteq Everywhere(q)
  BY DEF Everywhere, OnWires
<1>5. ASSUME NEW k \in 1 .. Len(w) PROVE w[k] < n
  <2>. DEFINE y == [from |-> s, msg |-> w[k]]
  <2>1. y \in Numbered(s, w) /\ y.from = s /\ y.msg = w[k]
    BY DEF Numbered
  <2>. HIDE DEF y
  <2>. QED
    BY <1>3, <1>4, <2>1
<1>6. Increasing(wire'[s][q])
  BY <1>1, <1>2, <1>5, IncreasingAppend DEF OrderInv
<1>7. Numbered(s, wire'[s][q]) = Numbered(s, w) \cup {x}
  BY <1>1, <1>2, NumberedAppend
<1>. HIDE DEF w, n
<1>8. OnWires(q)' = OnWires(q) \cup {x}
  BY <1>1, <1>7 DEF OnWires, w
<1>9. Reached(q)' = Reached(q)
  BY <1>1 DEF Reached
<1>10. Before(Reached(q), {x})
  BY <1>3 DEF Before, Everywhere
<1>11. Before(Reached(q)', OnWires(q)')
  BY <1>8, <1>9, <1>10 DEF Before, OrderInv
<1>12. \A r \in Parties : Increasing(wire'[r][q])
  BY <1>1, <1>6 DEF OrderInv
<1>13. OrderInv(q)'
  BY <1>1, <1>11, <1>12 DEF OrderInv
<1>. QED
  BY <1>8, <1>9, <1>13 DEF Everywhere, n

\* A closing sender loses the end of what is in its sockets.
LEMMA CloseOrder ==
  ASSUME TypeOK, NEW s \in Parties, NEW q \in Parties, OrderInv(q), Close(s)
  PROVE  /\ OrderInv(q)' /\ Everywhere(q)' \subseteq Everywhere(q)
         /\ \A x \in Everywhere(q) : x.from # s => x \in Everywhere(q)'
<1>1. /\ UNCHANGED <<queue, held, delivered>>
      /\ wire'[s][q] \in Kept(wire[s][q])
      /\ \A r \in Parties \ {s} : wire'[r][q] = wire[r][q]
  BY DEF Close, TypeOK
<1>2. wire[s][q] \in Seq(Nat)
  BY PlaceTypes
<1>3. /\ Numbered(s, wire'[s][q]) \subseteq Numbered(s, wire[s][q])
      /\ Increasing(wire[s][q]) => Increasing(wire'[s][q])
  BY <1>1, <1>2, KeptNumbers
<1>4. Reached(q)' = Reached(q)
  BY <1>1 DEF Reached
<1>5. OnWires(q)' \subseteq OnWires(q)
  BY <1>1, <1>3 DEF OnWires
<1>6. ASSUME NEW x \in OnWires(q), x.from # s PROVE x \in OnWires(q)'
  <2>1. PICK r \in Parties : x \in Numbered(r, wire[r][q])
    BY DEF OnWires
  <2>2. r # s
    BY <1>6, <2>1 DEF Numbered
  <2>. QED
    BY <1>1, <2>1, <2>2 DEF OnWires
<1>7. \A r \in Parties : Increasing(wire'[r][q])
  BY <1>1, <1>3 DEF OrderInv
<1>8. Before(Reached(q)', OnWires(q)')
  BY <1>4, <1>5 DEF Before, OrderInv
<1>9. OrderInv(q)'
  BY <1>1, <1>7, <1>8 DEF OrderInv
<1>. QED
  BY <1>4, <1>5, <1>6, <1>9 DEF Everywhere
-----------------------------------------------------------------------------
(* The steps.                                                              *)

\* A step of p
LateStep(p) ==
  /\ Alive(p)
  /\ \/ Unaffected(p)
     \/ BeginSetHandler(p) \/ EndSetHandler(p)
     \/ \E s \in Parties : TakeMessage(p, s)
     \/ TestHandler(p) \/ HandleMessage(p) \/ CallHalfAHandler(p) \/ QueueMessage(p)

\* A step that moves no message
Quiet ==
  /\ UNCHANGED <<wire, held, queue, delivered, sent>>
  /\ \A s \in Parties : owner'[s] # "off" => owner[s] # "off"

LEMMA LateMoves ==
  ASSUME LateTypeOK, NEW p \in Parties, LateStep(p)
  PROVE  \/ Quiet
         \/ \E q \in Parties : SendNext(p, q) /\ UNCHANGED <<setting, route, early>>
         \/ Close(p) /\ UNCHANGED <<setting, route, early>>
         \/ \E s \in Parties : TakeMessage(p, s)
         \/ HandleMessage(p)
         \/ QueueMessage(p)
         \/ /\ \E c \in Callers[p] : Take(p, c)
            /\ UNCHANGED <<wire, owner, receiver, held, handler, sent, setting, route, early>>
<1>1. TypeOK
  BY DEF LateTypeOK
<1>2. CASE BeginSetHandler(p) \/ EndSetHandler(p) \/ TestHandler(p) \/ CallHalfAHandler(p)
  BY <1>2 DEF BeginSetHandler, EndSetHandler, TestHandler, CallHalfAHandler, Quiet, vars
<1>3. CASE UNCHANGED <<setting, route, early>> /\ OwnerStep(p)
  <2>1. CASE Initialize(p) \/ BecomeReady(p) \/ StopRunning(p) \/ NotifyAll(p)
    <3>1. /\ UNCHANGED <<wire, held, queue, delivered, sent>>
          /\ owner[p] # "off" /\ \E o : owner' = [owner EXCEPT ![p] = o]
      BY <2>1 DEF Initialize, BecomeReady, StopRunning, NotifyAll
    <3>2. \A s \in Parties \ {p} : owner'[s] = owner[s]
      BY <1>1, <3>1 DEF TypeOK
    <3>. QED
      BY <3>1, <3>2 DEF Quiet
  <2>. QED
    BY <1>3, <2>1 DEF OwnerStep
<1>4. CASE TestRunning(p) \/ RouterTimeout(p)
  BY <1>4 DEF TestRunning, RouterTimeout, Quiet
<1>5. ASSUME NEW c \in Callers[p], ReceiveStep(p, c), UNCHANGED <<setting, route, early>>
      PROVE  \/ Quiet
             \/ /\ Take(p, c)
                /\ UNCHANGED <<wire, owner, receiver, held, handler, sent, setting, route, early>>
  <2>1. /\ UNCHANGED <<wire, owner, receiver, held, handler, sent>>
        /\ UNCHANGED <<queue, delivered>> \/ Take(p, c)
    BY <1>1, <1>5, CallerMoves
  <2>. QED
    BY <1>5, <2>1 DEF Quiet
<1>. QED
  BY <1>2, <1>3, <1>4, <1>5 DEF LateStep, Unaffected

LEMMA LateTypeStep ==
  ASSUME LateInv, NEW p \in Parties, LateStep(p)
  PROVE  LateTypeOK'
<1>1. TypeOK /\ LateTypeOK /\ \A q \in Parties : HandlerInv(q)
  BY DEF LateInv, LateTypeOK
<1>. DEFINE Rest == /\ setting \in [Parties -> BOOLEAN]
                    /\ route \in [Parties -> {"none", "handler", "queue", "crashed"}]
                    /\ early \in [Parties -> SUBSET Messages]
                    /\ \A q \in Parties : route[q] # "none" => receiver[q] = "handle"
<1>2. Rest
  BY <1>1 DEF LateTypeOK, Messages
<1>3. TypeOK' /\ Rest' => LateTypeOK'
  BY DEF LateTypeOK, Messages
<1>4. owner[p] = "new" => receiver[p] = "none"
  BY <1>1 DEF HandlerInv
<1>5. CASE Unaffected(p)
  <2>1. CASE OwnerStep(p)
    <3>1. TypeOK'
      BY <1>1, <1>4, <2>1, ServiceType
    <3>2. \A q \in Parties : receiver[q] = "handle" => receiver'[q] = "handle"
      BY <1>1, <1>4, <2>1 DEF TypeOK, OwnerStep, Initialize, BecomeReady, SendNext, Send,
                              StopRunning, NotifyAll, Close
    <3>. QED
      BY <1>2, <1>3, <1>5, <3>1, <3>2 DEF Unaffected
  <2>2. CASE TestRunning(p) \/ RouterTimeout(p)
    <3>1. TypeOK'
      BY <1>1, <1>4, <2>2, ServiceType DEF ReceiverStep
    <3>2. \A q \in Parties : receiver[q] = "handle" => receiver'[q] = "handle"
      BY <1>1, <2>2 DEF TypeOK, TestRunning, RouterTimeout
    <3>. QED
      BY <1>2, <1>3, <1>5, <3>1, <3>2 DEF Unaffected
  <2>3. CASE \E c \in Callers[p] : ReceiveStep(p, c)
    <3>1. TypeOK' /\ UNCHANGED receiver
      BY <1>1, <2>3, ReceiveType, CallerMoves
    <3>. QED
      BY <1>2, <1>3, <1>5, <3>1 DEF Unaffected
  <2>. QED
    BY <1>5, <2>1, <2>2, <2>3 DEF Unaffected
<1>6. CASE BeginSetHandler(p) \/ EndSetHandler(p)
  <2>1. CASE BeginSetHandler(p)
    BY <1>1, <1>2, <1>3, <2>1 DEF BeginSetHandler, vars, TypeOK
  <2>2. CASE EndSetHandler(p)
    BY <1>1, <1>2, <1>3, <2>2 DEF EndSetHandler, TypeOK
  <2>. QED
    BY <1>6, <2>1, <2>2
<1>7. ASSUME NEW s \in Parties, TakeMessage(p, s) PROVE LateTypeOK'
  <2>1. RouterReceive(p, s) /\ receiver[p] = "recv" /\ receiver' = [receiver EXCEPT ![p] = "handle"]
    BY <1>7 DEF TakeMessage, RouterReceive
  <2>2. TypeOK'
    BY <1>1, <1>4, <2>1, ServiceType DEF ReceiverStep
  <2>3. held'[p][1] \in Messages
    <3>1. receiver'[p] = "handle"
      BY <1>1, <2>1 DEF TypeOK
    <3>2. held'[p] \in Seq(Messages) /\ Len(held'[p]) = 1
      BY <2>2, <3>1 DEF TypeOK, Messages
    <3>. QED
      BY <3>2
  <2>4. early' \in [Parties -> SUBSET Messages]
    BY <1>2, <1>7, <2>3 DEF TakeMessage
  <2>. QED
    BY <1>1, <1>2, <1>3, <1>7, <2>1, <2>2, <2>4 DEF TakeMessage, TypeOK
<1>8. CASE TestHandler(p) \/ CallHalfAHandler(p)
  <2>1. UNCHANGED vars /\ UNCHANGED <<setting, early>>
    BY <1>8 DEF TestHandler, CallHalfAHandler
  <2>2. receiver[p] = "handle"
    BY <1>2, <1>8 DEF TestHandler, CallHalfAHandler
  <2>3. \E r \in {"handler", "queue", "crashed"} : route' = [route EXCEPT ![p] = r]
    BY <1>8 DEF TestHandler, CallHalfAHandler
  <2>4. TypeOK'
    BY <1>1, <2>1 DEF TypeOK, vars
  <2>5. UNCHANGED receiver
    BY <2>1 DEF vars
  <2>. QED
    BY <1>2, <1>3, <2>1, <2>2, <2>3, <2>4, <2>5
<1>9. CASE HandleMessage(p)
  <2>1. TypeOK'
    BY <1>1, <1>9, GiveToHandlerType DEF HandleMessage
  <2>. QED
    BY <1>1, <1>2, <1>3, <1>9, <2>1 DEF HandleMessage, GiveToHandler, TypeOK
<1>10. CASE QueueMessage(p)
  <2>1. TypeOK'
    BY <1>1, <1>10, PutIntoQueueType DEF QueueMessage
  <2>. QED
    BY <1>1, <1>2, <1>3, <1>10, <2>1 DEF QueueMessage, PutIntoQueue, TypeOK
<1>. QED
  BY <1>5, <1>6, <1>7, <1>8, <1>9, <1>10 DEF LateStep

\* What a step of p leaves alone
LEMMA LateOthers ==
  ASSUME LateTypeOK, NEW p \in Parties, NEW q \in Parties, q # p, LateStep(p)
  PROVE  /\ owner'[q] = owner[q] /\ receiver'[q] = receiver[q] /\ handler'[q] = handler[q]
         /\ queue'[q] = queue[q] /\ held'[q] = held[q] /\ delivered'[q] = delivered[q]
         /\ setting'[q] = setting[q] /\ route'[q] = route[q] /\ early'[q] = early[q]
<1>0. TypeOK
  BY DEF LateTypeOK
<1>1. CASE Unaffected(p)
  <2>1. /\ owner'[q] = owner[q] /\ receiver'[q] = receiver[q] /\ handler'[q] = handler[q]
        /\ queue'[q] = queue[q]
    BY <1>0, <1>1, OneParty DEF Unaffected, ReceiverStep
  <2>2. held'[q] = held[q] /\ delivered'[q] = delivered[q]
    <3>1. CASE OwnerStep(p)
      BY <3>1 DEF OwnerStep, Initialize, BecomeReady, SendNext, Send, StopRunning,
                  NotifyAll, Close
    <3>2. CASE TestRunning(p) \/ RouterTimeout(p)
      BY <3>2 DEF TestRunning, RouterTimeout
    <3>3. ASSUME NEW c \in Callers[p], ReceiveStep(p, c) PROVE <2>2
      <4>1. UNCHANGED held /\ (UNCHANGED delivered \/ Take(p, c))
        BY <1>0, <3>3, CallerMoves
      <4>. QED
        BY <1>0, <4>1 DEF Take, TypeOK
    <3>. QED
      BY <1>1, <3>1, <3>2, <3>3 DEF Unaffected
  <2>. QED
    BY <1>1, <2>1, <2>2 DEF Unaffected
<1>2. CASE BeginSetHandler(p) \/ EndSetHandler(p)
  BY <1>0, <1>2 DEF BeginSetHandler, EndSetHandler, vars, LateTypeOK, TypeOK
<1>3. CASE \E s \in Parties : TakeMessage(p, s)
  BY <1>0, <1>3 DEF TakeMessage, RouterReceive, LateTypeOK, TypeOK
<1>4. CASE TestHandler(p) \/ CallHalfAHandler(p)
  BY <1>0, <1>4 DEF TestHandler, CallHalfAHandler, vars, LateTypeOK
<1>5. CASE HandleMessage(p)
  BY <1>0, <1>5 DEF HandleMessage, GiveToHandler, LateTypeOK, TypeOK
<1>6. CASE QueueMessage(p)
  BY <1>0, <1>6 DEF QueueMessage, PutIntoQueue, LateTypeOK, TypeOK
<1>. QED
  BY <1>1, <1>2, <1>3, <1>4, <1>5, <1>6 DEF LateStep
\* The receiver thread and the handler keep their part of the invariant.
LEMMA HandlerStep ==
  ASSUME LateInv, NEW p \in Parties, LateStep(p)
  PROVE  HandlerInv(p)'
<1>1. TypeOK /\ LateTypeOK /\ HandlerInv(p)
  BY DEF LateInv, LateTypeOK
<1>. USE DEF HandlerInv
<1>2. CASE Unaffected(p)
  <2>1. UNCHANGED <<setting, route, early>>
    BY <1>2 DEF Unaffected
  <2>2. CASE OwnerStep(p)
    <3>1. /\ UNCHANGED <<held, queue, handler>>
          /\ \/ owner'[p] # "new"
             \/ owner'[p] = owner[p] /\ UNCHANGED receiver
      BY <1>1, <2>2 DEF TypeOK, OwnerStep, Initialize, BecomeReady, SendNext, Send,
                        StopRunning, NotifyAll, Close
    <3>. QED
      BY <1>1, <2>1, <3>1
  <2>3. CASE TestRunning(p) \/ RouterTimeout(p)
    <3>1. UNCHANGED <<owner, held, queue, handler>> /\ owner[p] # "new"
      BY <1>1, <2>3 DEF TestRunning, RouterTimeout
    <3>. QED
      BY <1>1, <2>1, <3>1
  <2>4. ASSUME NEW c \in Callers[p], ReceiveStep(p, c) PROVE HandlerInv(p)'
    <3>1. /\ UNCHANGED <<owner, receiver, held, handler>>
          /\ UNCHANGED queue \/ Take(p, c)
      BY <1>1, <2>4, CallerMoves
    <3>2. In(queue'[p]) \subseteq In(queue[p])
      <4>1. CASE UNCHANGED queue
        BY <4>1
      <4>2. CASE Take(p, c)
        <5>1. queue[p] # <<>> /\ queue'[p] = Tail(queue[p]) /\ queue[p] \in Seq(Messages)
          BY <1>1, <4>2, PlaceTypes DEF Take, TypeOK
        <5>. QED
          BY <5>1, InHead
      <4>. QED
        BY <3>1, <4>1, <4>2
    <3>. QED
      BY <1>1, <2>1, <3>1, <3>2
  <2>. QED
    BY <1>2, <2>2, <2>3, <2>4 DEF Unaffected
<1>3. CASE BeginSetHandler(p)
  BY <1>1, <1>3 DEF BeginSetHandler, LateTypeOK, vars
<1>4. CASE EndSetHandler(p)
  <2>1. /\ setting[p] /\ ~setting'[p] /\ handler'[p] /\ ~handler[p]
        /\ UNCHANGED <<owner, receiver, held, queue, route, early>>
    BY <1>1, <1>4 DEF EndSetHandler, LateTypeOK, TypeOK
  <2>. QED
    BY <1>1, <2>1
<1>5. ASSUME NEW s \in Parties, TakeMessage(p, s) PROVE HandlerInv(p)'
  <2>1. /\ receiver[p] = "recv" /\ UNCHANGED <<owner, queue, handler, setting, route>>
        /\ \E x : held'[p] = <<x>>
        /\ early'[p] = IF handler[p] THEN early[p] ELSE early[p] \cup {held'[p][1]}
    BY <1>1, <1>5 DEF TakeMessage, RouterReceive, LateTypeOK, TypeOK
  <2>2. PICK x : held'[p] = <<x>>
    BY <2>1
  <2>3. In(held'[p]) = {x} /\ held'[p][1] = x
    BY <2>2, InOne
  <2>4. route[p] = "none" /\ owner[p] # "new"
    BY <1>1, <2>1 DEF LateTypeOK
  <2>. QED
    BY <1>1, <2>1, <2>3, <2>4
<1>6. CASE TestHandler(p)
  <2>1. /\ UNCHANGED <<owner, receiver, held, queue, handler, setting, early>>
        /\ \/ route'[p] = "handler" /\ (handler[p] \/ setting[p])
           \/ route'[p] = "queue" /\ (~handler[p] \/ setting[p])
    <3>1. /\ UNCHANGED <<owner, receiver, held, queue, handler, setting, early>>
          /\ \E set \in (IF setting[p] THEN BOOLEAN ELSE {handler[p]}) :
               route'[p] = IF set THEN "handler" ELSE "queue"
      BY <1>1, <1>6 DEF TestHandler, vars, LateTypeOK
    <3>2. handler[p] \in BOOLEAN /\ setting[p] \in BOOLEAN
      BY <1>1 DEF LateTypeOK, TypeOK
    <3>. QED
      BY <3>1, <3>2
  <2>. QED
    BY <1>1, <2>1
<1>7. CASE CallHalfAHandler(p)
  <2>1. UNCHANGED <<owner, receiver, held, queue, handler, setting, early>> /\ route'[p] = "crashed"
    BY <1>1, <1>7 DEF CallHalfAHandler, vars, LateTypeOK
  <2>. QED
    BY <1>1, <2>1
<1>8. CASE HandleMessage(p)
  <2>1. /\ receiver[p] = "handle" /\ UNCHANGED <<owner, queue, handler, setting, early>>
        /\ held'[p] = <<>> /\ route'[p] = "none"
    BY <1>1, <1>8 DEF HandleMessage, GiveToHandler, LateTypeOK, TypeOK
  <2>. QED
    BY <1>1, <2>1, InEmpty
<1>9. CASE QueueMessage(p)
  <2>1. /\ receiver[p] = "handle" /\ UNCHANGED <<owner, handler, setting, early>>
        /\ queue'[p] = queue[p] \o held[p] /\ held'[p] = <<>>
        /\ route[p] = "queue" /\ route'[p] = "none"
    BY <1>1, <1>9 DEF QueueMessage, PutIntoQueue, LateTypeOK, TypeOK
  <2>2. PICK x \in Messages : held[p] = <<x>>
    BY <1>1, <2>1, HeldFacts
  <2>3. queue[p] \in Seq(Messages) /\ queue'[p] = Append(queue[p], x)
    BY <1>1, <2>1, <2>2, PlaceTypes, AppendIsConcat
  <2>4. In(queue'[p]) = In(queue[p]) \cup {x}
    BY <2>2, <2>3, InAppend
  <2>5. x \in early[p]
    BY <1>1, <2>1, <2>2, InOne
  <2>. QED
    BY <1>1, <2>1, <2>4, <2>5, InEmpty
<1>. QED
  BY <1>2, <1>3, <1>4, <1>5, <1>6, <1>7, <1>8, <1>9 DEF LateStep

\* Where messages only move on, each is where it was, at one party.
LEMMA WhereStays ==
  ASSUME WhereInv, \A q \in Parties : Everywhere(q)' = Everywhere(q), sent' = sent,
         \A s \in Parties : owner'[s] # "off" => owner[s] # "off"
  PROVE  WhereInv'
BY DEF WhereInv

LEMMA WhereSend ==
  ASSUME LateInv, NEW s \in Parties, NEW q \in Parties, SendNext(s, q),
         \A r \in Parties : Everywhere(r)' =
           IF r = q THEN Everywhere(r) \cup {[from |-> s, msg |-> sent[s] + 1]} ELSE Everywhere(r)
  PROVE  WhereInv'
<1>. DEFINE n == sent[s] + 1
            x == [from |-> s, msg |-> n]
<1>1. WhereInv /\ TypeOK
  BY DEF LateInv, LateTypeOK
<1>2. /\ sent[s] \in Nat /\ n \in Nat \ {0} /\ sent'[s] = n /\ UNCHANGED owner
      /\ \A r \in Parties \ {s} : sent'[r] = sent[r]
      /\ \A r \in Parties : sent[r] \in Nat
  BY <1>1 DEF SendNext, Send, TypeOK
<1>3. \A r \in Parties : Everywhere(r) \subseteq Messages
  BY <1>1, PlaceTypes DEF Everywhere
<1>4. \A r \in Parties : Everywhere(r)' = IF r = q THEN Everywhere(r) \cup {x} ELSE Everywhere(r)
  OBVIOUS
<1>5. \A r \in Parties : x \notin Everywhere(r)
  BY <1>1, <1>2 DEF WhereInv
<1>. HIDE DEF n
<1>6. ASSUME NEW r \in Parties, NEW y \in Everywhere(r)' PROVE y.msg \in 1 .. sent'[y.from]
  <2>1. CASE y = x
    BY <1>2, <2>1
  <2>2. CASE y \in Everywhere(r)
    <3>1. y.from \in Parties /\ y.msg \in 1 .. sent[y.from]
      BY <1>1, <1>3, <2>2 DEF WhereInv, Messages
    <3>2. sent[y.from] \in Nat /\ sent'[y.from] \in Nat /\ sent[y.from] <= sent'[y.from]
      BY <1>2, <3>1 DEF n
    <3>. QED
      BY <3>1, <3>2
  <2>. QED
    BY <1>4, <2>1, <2>2
<1>7. ASSUME NEW r \in Parties, NEW t \in Parties, r # t
      PROVE  Everywhere(r)' \cap Everywhere(t)' = {}
  <2>1. Everywhere(r) \cap Everywhere(t) = {}
    BY <1>1, <1>7 DEF WhereInv
  <2>. QED
    BY <1>4, <1>5, <1>7, <2>1
<1>8. ASSUME NEW r \in Parties, owner'[r] # "off", NEW k \in 1 .. sent'[r]
      PROVE  \E t \in Parties : [from |-> r, msg |-> k] \in Everywhere(t)'
  <2>1. CASE r = s /\ k = n
    BY <1>4, <2>1
  <2>2. CASE ~(r = s /\ k = n)
    <3>1. k \in 1 .. sent[r]
      BY <1>2, <2>2 DEF n
    <3>2. PICK t \in Parties : [from |-> r, msg |-> k] \in Everywhere(t)
      BY <1>1, <1>2, <1>8, <3>1 DEF WhereInv
    <3>. QED
      BY <1>4, <3>2
  <2>. QED
    BY <2>1, <2>2
<1>. QED
  BY <1>6, <1>7, <1>8 DEF WhereInv

LEMMA WhereClose ==
  ASSUME LateInv, NEW s \in Parties, Close(s),
         \A r \in Parties :
           /\ Everywhere(r)' \subseteq Everywhere(r)
           /\ \A x \in Everywhere(r) : x.from # s => x \in Everywhere(r)'
  PROVE  WhereInv'
<1>1. WhereInv /\ TypeOK
  BY DEF LateInv, LateTypeOK
<1>2. /\ UNCHANGED sent /\ owner'[s] = "off"
      /\ \A r \in Parties \ {s} : owner'[r] = owner[r]
  BY <1>1 DEF Close, TypeOK
<1>3. ASSUME NEW r \in Parties, owner'[r] # "off", NEW k \in 1 .. sent'[r]
      PROVE  \E t \in Parties : [from |-> r, msg |-> k] \in Everywhere(t)'
  <2>1. r # s /\ owner[r] # "off" /\ k \in 1 .. sent[r]
    BY <1>2, <1>3
  <2>2. PICK t \in Parties : [from |-> r, msg |-> k] \in Everywhere(t)
    BY <1>1, <2>1 DEF WhereInv
  <2>. QED
    BY <2>1, <2>2
<1>4. \A r \in Parties : \A y \in Everywhere(r)' : y.msg \in 1 .. sent'[y.from]
  BY <1>1, <1>2 DEF WhereInv
<1>5. \A r, t \in Parties : r # t => Everywhere(r)' \cap Everywhere(t)' = {}
  BY <1>1 DEF WhereInv
<1>. QED
  BY <1>3, <1>4, <1>5 DEF WhereInv

\* A step of p keeps the messages where they are, or moves them on.
LEMMA PlacesStep ==
  ASSUME LateInv, NEW p \in Parties, LateStep(p)
  PROVE  WhereInv' /\ \A q \in Parties : OrderInv(q)'
<1>1. TypeOK /\ LateTypeOK /\ WhereInv /\ \A q \in Parties : OrderInv(q)
  BY DEF LateInv, LateTypeOK
<1>2. CASE Quiet
  <2>1. ASSUME NEW q \in Parties PROVE OrderInv(q)' /\ Everywhere(q)' = Everywhere(q)
    BY <1>1, <1>2, OrderStays DEF Quiet, Everywhere
  <2>. QED
    BY <1>1, <1>2, <2>1, WhereStays DEF Quiet
<1>3. \A q \in Parties \ {p} :
        queue'[q] = queue[q] /\ held'[q] = held[q] /\ delivered'[q] = delivered[q]
  BY <1>1, LateOthers
<1>4. ASSUME NEW q \in Parties, q # p, \A s \in Parties : wire'[s][q] = wire[s][q]
      PROVE  OrderInv(q)' /\ Everywhere(q)' = Everywhere(q)
  BY <1>1, <1>3, <1>4, OrderStays DEF Everywhere
<1>5. ASSUME OrderInv(p)', Everywhere(p)' = Everywhere(p), UNCHANGED <<sent, owner>>,
             \A q \in Parties \ {p} : \A s \in Parties : wire'[s][q] = wire[s][q]
      PROVE  WhereInv' /\ \A q \in Parties : OrderInv(q)'
  <2>1. \A q \in Parties : OrderInv(q)' /\ Everywhere(q)' = Everywhere(q)
    BY <1>4, <1>5
  <2>. QED
    BY <1>1, <1>5, <2>1, WhereStays
<1>6. ASSUME NEW q \in Parties, SendNext(p, q)
      PROVE  WhereInv' /\ \A r \in Parties : OrderInv(r)'
  <2>1. /\ OrderInv(q)'
        /\ Everywhere(q)' = Everywhere(q) \cup {[from |-> p, msg |-> sent[p] + 1]}
    BY <1>1, <1>6, SendOrder
  <2>2. ASSUME NEW r \in Parties, r # q PROVE OrderInv(r)' /\ Everywhere(r)' = Everywhere(r)
    <3>1. /\ queue'[r] = queue[r] /\ held'[r] = held[r] /\ delivered'[r] = delivered[r]
          /\ \A s \in Parties : wire'[s][r] = wire[s][r]
      BY <1>1, <1>6, <2>2 DEF SendNext, Send, TypeOK
    <3>. QED
      BY <1>1, <3>1, OrderStays DEF Everywhere
  <2>3. WhereInv'
    BY <1>6, <2>1, <2>2, WhereSend
  <2>. QED
    BY <2>1, <2>2, <2>3
<1>7. CASE Close(p)
  <2>1. \A q \in Parties :
          /\ OrderInv(q)' /\ Everywhere(q)' \subseteq Everywhere(q)
          /\ \A x \in Everywhere(q) : x.from # p => x \in Everywhere(q)'
    BY <1>1, <1>7, CloseOrder
  <2>. QED
    BY <1>7, <2>1, WhereClose
<1>8. ASSUME NEW s \in Parties, TakeMessage(p, s)
      PROVE  WhereInv' /\ \A q \in Parties : OrderInv(q)'
  <2>1. RouterReceive(p, s)
    BY <1>8 DEF TakeMessage
  <2>2. OrderInv(p)' /\ Everywhere(p)' = Everywhere(p)
    BY <1>1, <2>1, TakeMessageOrder
  <2>3. /\ UNCHANGED <<sent, owner>>
        /\ \A q \in Parties \ {p} : \A r \in Parties : wire'[r][q] = wire[r][q]
    BY <1>1, <2>1 DEF RouterReceive, TypeOK
  <2>. QED
    BY <1>5, <2>2, <2>3
<1>9. CASE HandleMessage(p)
  <2>1. GiveToHandler(p) /\ UNCHANGED <<sent, owner, wire>>
    BY <1>9 DEF HandleMessage, GiveToHandler
  <2>2. OrderInv(p)' /\ Everywhere(p)' = Everywhere(p)
    BY <1>1, <2>1, HandleOrder
  <2>. QED
    BY <1>5, <2>1, <2>2
<1>10. CASE QueueMessage(p)
  <2>1. PutIntoQueue(p) /\ UNCHANGED <<sent, owner, wire>>
    BY <1>10 DEF QueueMessage, PutIntoQueue
  <2>2. OrderInv(p)' /\ Everywhere(p)' = Everywhere(p)
    BY <1>1, <2>1, QueueOrder
  <2>. QED
    BY <1>5, <2>1, <2>2
<1>11. ASSUME NEW c \in Callers[p], Take(p, c), UNCHANGED <<wire, owner, held, sent>>
       PROVE  WhereInv' /\ \A q \in Parties : OrderInv(q)'
  <2>1. OrderInv(p)' /\ Everywhere(p)' = Everywhere(p)
    BY <1>1, <1>11, TakeOrder
  <2>. QED
    BY <1>5, <1>11, <2>1
<1>. QED
  BY <1>1, <1>2, <1>6, <1>7, <1>8, <1>9, <1>10, <1>11, LateMoves

\* Nothing is overtaken but what has been taken early, by a handler.
LEMMA OvertakingStep ==
  ASSUME LateInv, NEW p \in Parties, LateStep(p)
  PROVE  OvertakingInv(p)'
<1>1. /\ TypeOK /\ LateTypeOK /\ HandlerInv(p) /\ OrderInv(p) /\ OvertakingInv(p)
      /\ HandlerInv(p)'
  BY HandlerStep DEF LateInv, LateTypeOK
<1>2. early[p] \subseteq early'[p] /\ (handler[p] \/ setting[p] => handler'[p] \/ setting'[p])
  <2>1. CASE Unaffected(p)
    <3>1. UNCHANGED handler
      <4>1. OwnerStep(p) => UNCHANGED handler
        BY DEF OwnerStep, Initialize, BecomeReady, SendNext, Send, StopRunning, NotifyAll, Close
      <4>2. TestRunning(p) \/ RouterTimeout(p) => UNCHANGED handler
        BY DEF TestRunning, RouterTimeout
      <4>3. ASSUME NEW c \in Callers[p], ReceiveStep(p, c) PROVE UNCHANGED handler
        BY <1>1, <4>3, CallerMoves
      <4>. QED
        BY <2>1, <4>1, <4>2, <4>3 DEF Unaffected
    <3>. QED
      BY <2>1, <3>1 DEF Unaffected
  <2>2. CASE BeginSetHandler(p) \/ EndSetHandler(p)
    BY <1>1, <2>2 DEF BeginSetHandler, EndSetHandler, vars, LateTypeOK, TypeOK
  <2>3. CASE \E s \in Parties : TakeMessage(p, s)
    BY <1>1, <2>3 DEF TakeMessage, RouterReceive, LateTypeOK
  <2>4. CASE TestHandler(p) \/ CallHalfAHandler(p)
    BY <2>4 DEF TestHandler, CallHalfAHandler, vars
  <2>5. CASE HandleMessage(p) \/ QueueMessage(p)
    BY <2>5 DEF HandleMessage, GiveToHandler, QueueMessage, PutIntoQueue
  <2>. QED
    BY <2>1, <2>2, <2>3, <2>4, <2>5 DEF LateStep
<1>. DEFINE Kind == \/ handler[p] \/ setting[p]
                    \/ Before(In(delivered'[p]), In(queue'[p])) /\ LateIn(delivered'[p], {})
<1>3. LateIn(delivered'[p], early[p]) /\ Kind => OvertakingInv(p)'
  <2>1. LateIn(delivered'[p], early[p]) => LateIn(delivered'[p], early'[p])
    BY <1>2 DEF LateIn
  <2>. QED
    BY <1>2, <2>1 DEF OvertakingInv
<1>4. UNCHANGED <<queue, delivered>> => OvertakingInv(p)'
  BY <1>1, <1>3 DEF OvertakingInv
<1>5. Quiet \/ Close(p) => UNCHANGED <<queue, delivered>>
  BY DEF Quiet, Close
<1>6. ASSUME NEW q \in Parties, SendNext(p, q) \/ TakeMessage(p, q)
      PROVE  UNCHANGED <<queue, delivered>>
  BY <1>6 DEF SendNext, Send, TakeMessage, RouterReceive
<1>7. CASE HandleMessage(p)
  <2>1. GiveToHandler(p) /\ route[p] = "handler"
    BY <1>7 DEF HandleMessage
  <2>2. LateIn(delivered'[p], early[p])
    BY <1>1, <2>1, HandleOrder DEF OvertakingInv
  <2>3. handler[p] \/ setting[p]
    BY <1>1, <2>1 DEF HandlerInv
  <2>. QED
    BY <1>3, <2>2, <2>3
<1>8. CASE QueueMessage(p)
  <2>1. PutIntoQueue(p) /\ UNCHANGED delivered
    BY <1>8 DEF QueueMessage, PutIntoQueue
  <2>2. Before(In(delivered[p]), In(queue[p])) => Before(In(delivered[p]), In(queue'[p]))
    BY <1>1, <2>1, QueueOrder
  <2>. QED
    BY <1>1, <1>3, <2>1, <2>2 DEF OvertakingInv
<1>9. ASSUME NEW c \in Callers[p], Take(p, c), UNCHANGED <<wire, held>> PROVE OvertakingInv(p)'
  <2>1. /\ \A E : LateIn(delivered[p], E)
                 /\ (In(queue[p]) \subseteq E \/ Before(In(delivered[p]), In(queue[p])))
               => LateIn(delivered'[p], E)
        /\ Before(In(delivered[p]), In(queue[p])) => Before(In(delivered'[p]), In(queue'[p]))
    BY <1>1, <1>9, TakeOrder
  <2>2. In(queue[p]) \subseteq early[p]
    BY <1>1 DEF HandlerInv
  <2>3. LateIn(delivered'[p], early[p])
    BY <1>1, <2>1, <2>2 DEF OvertakingInv
  <2>4. Kind
    BY <1>1, <2>1 DEF OvertakingInv
  <2>. QED
    BY <1>3, <2>3, <2>4
<1>. QED
  BY <1>1, <1>4, <1>5, <1>6, <1>7, <1>8, <1>9, LateMoves

LEMMA LateInitInv == LateInit => LateInv
<1>. SUFFICES ASSUME LateInit PROVE LateInv
  OBVIOUS
<1>1. CommInv
  BY InitInv DEF LateInit
<1>2. LateTypeOK
  BY <1>1 DEF CommInv, LateInit, LateTypeOK
<1>3. ASSUME NEW p \in Parties
      PROVE  /\ queue[p] = <<>> /\ held[p] = <<>> /\ delivered[p] = <<>>
             /\ \A s \in Parties : wire[s][p] = <<>>
             /\ receiver[p] = "none" /\ ~setting[p] /\ route[p] = "none"
  BY DEF LateInit, Init
<1>4. In(<<>>) = {} /\ \A s : Numbered(s, <<>>) = {}
  BY InEmpty
<1>5. \A p \in Parties : Reached(p) = {} /\ OnWires(p) = {} /\ Everywhere(p) = {}
  BY <1>3, <1>4 DEF Reached, OnWires, Everywhere
<1>6. Len(<<>>) = 0 /\ 1 .. 0 = {}
  OBVIOUS
<1>7. WhereInv
  <2>1. \A s \in Parties : sent[s] = 0
    BY DEF LateInit, Init
  <2>. QED
    BY <1>5, <1>6, <2>1 DEF WhereInv
<1>8. ASSUME NEW p \in Parties PROVE HandlerInv(p)
  BY <1>3, <1>4 DEF HandlerInv
<1>9. /\ Increasing(<<>>) /\ Rising(<<>>) /\ Distinct(<<>>) /\ \A E : LateIn(<<>>, E)
  BY <1>6 DEF Increasing, Rising, Distinct, LateIn
<1>10. ASSUME NEW p \in Parties PROVE OrderInv(p)
  BY <1>3, <1>4, <1>5, <1>9 DEF OrderInv, Before
<1>11. ASSUME NEW p \in Parties PROVE OvertakingInv(p)
  BY <1>3, <1>4, <1>9 DEF OvertakingInv, Before
<1>. QED
  BY <1>2, <1>7, <1>8, <1>10, <1>11 DEF LateInv

LEMMA LateStepInv == LateInv /\ [LateNext]_lateVars => LateInv'
<1>. SUFFICES ASSUME LateInv, [LateNext]_lateVars PROVE LateInv'
  OBVIOUS
<1>1. CASE UNCHANGED lateVars
  <2>1. /\ UNCHANGED <<wire, owner, receiver, held, queue, caller, handler, sent, delivered>>
        /\ UNCHANGED <<setting, route, early>>
    BY <1>1 DEF lateVars, vars
  <2>2. LateTypeOK'
    BY <2>1 DEF LateInv, LateTypeOK, TypeOK
  <2>3. \A p \in Parties : Everywhere(p)' = Everywhere(p) /\ OrderInv(p)'
    BY <2>1, OrderStays DEF LateInv, Everywhere
  <2>4. WhereInv'
    BY <2>1, <2>3, WhereStays DEF LateInv
  <2>5. \A p \in Parties : HandlerInv(p)' /\ OvertakingInv(p)'
    BY <2>1 DEF LateInv, HandlerInv, OvertakingInv
  <2>. QED
    BY <2>2, <2>3, <2>4, <2>5 DEF LateInv
<1>2. ASSUME NEW p \in Parties, LateStep(p) PROVE LateInv'
  <2>1. LateTypeOK' /\ WhereInv' /\ \A q \in Parties : OrderInv(q)'
    BY <1>2, LateTypeStep, PlacesStep
  <2>2. HandlerInv(p)' /\ OvertakingInv(p)'
    BY <1>2, HandlerStep, OvertakingStep
  <2>3. ASSUME NEW q \in Parties, q # p PROVE HandlerInv(q)' /\ OvertakingInv(q)'
    <3>1. HandlerInv(q) /\ OvertakingInv(q) /\ LateTypeOK
      BY DEF LateInv
    <3>. QED
      BY <1>2, <2>3, <3>1, LateOthers DEF HandlerInv, OvertakingInv
  <2>. QED
    BY <2>1, <2>2, <2>3 DEF LateInv
<1>. QED
  BY <1>1, <1>2 DEF LateNext, LateStep

-----------------------------------------------------------------------------
(* One place for each message.                                             *)

LEMMA InConcat ==
  ASSUME NEW S, NEW a \in Seq(S), NEW b \in Seq(S)
  PROVE  In(a \o b) = In(a) \cup In(b)
<1>. DEFINE c == a \o b
            k == Len(a)
            l == Len(b)
<1>1. /\ k \in Nat /\ l \in Nat /\ Len(c) = k + l
      /\ \A i \in 1 .. k + l : c[i] = IF i <= k THEN a[i] ELSE b[i - k]
  BY ConcatProperties
<1>. HIDE DEF c, k, l
<1>2. ASSUME NEW i \in 1 .. k + l PROVE c[i] \in In(a) \cup In(b)
  <2>1. i <= k => i \in 1 .. k
    OBVIOUS
  <2>2. ~(i <= k) => i - k \in 1 .. l
    BY <1>1
  <2>. QED
    BY <1>1, <2>1, <2>2 DEF In, k, l
<1>3. ASSUME NEW i \in 1 .. k PROVE a[i] \in In(c)
  <2>1. i \in 1 .. k + l /\ c[i] = a[i]
    BY <1>1
  <2>. QED
    BY <1>1, <2>1 DEF In
<1>4. ASSUME NEW i \in 1 .. l PROVE b[i] \in In(c)
  <2>. DEFINE j == i + k
  <2>1. j \in 1 .. k + l /\ ~(j <= k) /\ j - k = i
    BY <1>1
  <2>. HIDE DEF j
  <2>2. c[j] = b[i]
    BY <1>1, <2>1
  <2>. QED
    BY <1>1, <2>1, <2>2 DEF In
<1>. QED
  BY <1>1, <1>2, <1>3, <1>4 DEF In, c, k, l

LEMMA IncreasingConcat ==
  ASSUME NEW a \in Seq(Nat), NEW b \in Seq(Nat), Increasing(a), Increasing(b),
         \A x \in In(a), y \in In(b) : x < y
  PROVE  Increasing(a \o b)
<1>. DEFINE c == a \o b
            k == Len(a)
            l == Len(b)
<1>1. /\ k \in Nat /\ l \in Nat /\ Len(c) = k + l
      /\ \A i \in 1 .. k + l : c[i] = IF i <= k THEN a[i] ELSE b[i - k]
  BY ConcatProperties
<1>2. /\ \A i, j \in 1 .. k : i < j => a[i] < a[j]
      /\ \A i, j \in 1 .. l : i < j => b[i] < b[j]
      /\ \A i \in 1 .. k, j \in 1 .. l : a[i] < b[j]
  BY DEF Increasing, In
<1>. HIDE DEF c, k, l
<1>. SUFFICES ASSUME NEW i \in 1 .. k + l, NEW j \in 1 .. k + l, i < j PROVE c[i] < c[j]
  BY <1>1 DEF Increasing, c
<1>3. CASE j <= k
  <2>1. i \in 1 .. k /\ j \in 1 .. k /\ i <= k
    BY <1>1, <1>3
  <2>. QED
    BY <1>1, <1>2, <1>3, <2>1
<1>4. CASE i <= k /\ ~(j <= k)
  <2>1. i \in 1 .. k /\ j - k \in 1 .. l
    BY <1>1, <1>4
  <2>. QED
    BY <1>1, <1>2, <1>4, <2>1
<1>5. CASE ~(i <= k) /\ ~(j <= k)
  <2>1. i - k \in 1 .. l /\ j - k \in 1 .. l /\ i - k < j - k
    BY <1>1, <1>5
  <2>. DEFINE v == i - k
              w == j - k
  <2>2. c[i] = b[v] /\ c[j] = b[w]
    BY <1>1, <1>5
  <2>. HIDE DEF v, w
  <2>. QED
    BY <1>2, <2>1, <2>2 DEF v, w
<1>. QED
  BY <1>1, <1>3, <1>4, <1>5

\* The numbers of s in a sequence
NumbersOf(m, s) == {m[k].msg : k \in {k \in 1 .. Len(m) : m[k].from = s}}

\* Of messages that keep their order, those of one sender increase.
LEMMA FromSenderIncreases ==
  ASSUME NEW m \in Seq(Messages), NEW s, Rising(m)
  PROVE  Increasing(FromSender(m, s)) /\ In(FromSender(m, s)) = NumbersOf(m, s)
<1>1. PICK f : IsFront(f, m, s, Len(m)) /\ FromSender(m, s) = f[Len(m)]
  BY FromSenderIsFront
<1>. DEFINE Until(i) == {m[k].msg : k \in {k \in 1 .. i : m[k].from = s}}
            Ok(i) == Increasing(f[i]) /\ In(f[i]) = Until(i)
            T == {i \in 0 .. Len(m) : ~Ok(i)}
<1>2. Len(m) \in Nat
  OBVIOUS
<1>3. Ok(0)
  <2>1. f[0] = <<>>
    BY <1>1, <1>2, FrontValue
  <2>2. Increasing(<<>>) /\ Until(0) = {}
    BY DEF Increasing
  <2>. QED
    BY <2>1, <2>2, InEmpty
<1>4. ASSUME NEW i \in 1 .. Len(m), NEW j \in 0 .. Len(m), j = i - 1, Ok(j) PROVE Ok(i)
  <2>1. f[i] = IF m[i].from = s THEN Append(f[j], m[i].msg) ELSE f[j]
    BY <1>1, <1>2, <1>4, FrontValue
  <2>2. f[j] \in Seq(Nat) /\ m[i].msg \in Nat
    <3>1. m[i] \in Messages
      OBVIOUS
    <3>2. f[j] \in Seq(Nat)
      BY <1>1, FrontIsSequence
    <3>. QED
      BY <3>1, <3>2 DEF Messages
  <2>3. 1 .. i = (1 .. j) \cup {i} /\ \A k \in 1 .. j : k < i /\ k \in 1 .. Len(m)
    BY <1>2, <1>4
  <2>4. CASE m[i].from = s
    <3>1. Until(i) = Until(j) \cup {m[i].msg}
      BY <2>3, <2>4
    <3>2. ASSUME NEW k \in 1 .. Len(f[j]) PROVE f[j][k] < m[i].msg
      <4>1. f[j][k] \in Until(j)
        BY <1>4 DEF In
      <4>2. PICK h \in 1 .. j : m[h].from = s /\ f[j][k] = m[h].msg
        BY <4>1
      <4>. QED
        BY <2>3, <2>4, <4>2 DEF Rising
    <3>3. Increasing(Append(f[j], m[i].msg))
      BY <1>4, <2>2, <3>2, IncreasingAppend
    <3>4. In(Append(f[j], m[i].msg)) = In(f[j]) \cup {m[i].msg}
      BY <2>2, InAppend
    <3>. QED
      BY <1>4, <2>1, <2>4, <3>1, <3>3, <3>4
  <2>5. CASE m[i].from # s
    <3>1. Until(i) = Until(j)
      BY <2>3, <2>5
    <3>. QED
      BY <1>4, <2>1, <2>5, <3>1
  <2>. QED
    BY <2>4, <2>5
<1>. HIDE DEF Ok
<1>5. T = {}
  <2>. SUFFICES ASSUME T # {} PROVE FALSE
    OBVIOUS
  <2>1. T \in SUBSET Nat
    BY <1>2
  <2>2. PICK i \in T : \A y \in T : i <= y
    <3>. HIDE DEF T
    <3>. QED
      BY <2>1, NatLeast
  <2>3. i \in 1 .. Len(m) /\ i - 1 \in 0 .. Len(m)
    BY <1>2, <1>3
  <2>4. Ok(i - 1)
    BY <2>2, <2>3
  <2>. QED
    BY <1>4, <2>2, <2>3, <2>4
<1>6. Ok(Len(m))
  BY <1>2, <1>5
<1>. QED
  BY <1>1, <1>6 DEF Ok, NumbersOf

\* What is under way from s to p are the messages in the queue, in the hands of
\* the thread and in the sockets, each once.
LEMMA OnTheWay ==
  ASSUME LateInv, NEW s \in Parties, NEW p \in Parties
  PROVE  /\ Increasing(UnderWay(s, p)) /\ UnderWay(s, p) \in Seq(Nat)
         /\ \A n : n \in In(UnderWay(s, p)) <=>
                [from |-> s, msg |-> n] \in In(queue[p]) \cup In(held[p]) \cup OnWires(p)
<1>1. TypeOK /\ OrderInv(p)
  BY DEF LateInv, LateTypeOK
<1>. DEFINE m == queue[p] \o held[p]
            w == wire[s][p]
            a == FromSender(m, s)
<1>2. /\ queue[p] \in Seq(Messages) /\ held[p] \in Seq(Messages) /\ m \in Seq(Messages)
      /\ w \in Seq(Nat) /\ a \in Seq(Nat) /\ UnderWay(s, p) \in Seq(Nat)
  BY <1>1, InsideType
<1>3. In(m) = In(queue[p]) \cup In(held[p])
  BY <1>2, InConcat
<1>4. Rising(m)
  <2>1. CASE receiver[p] # "handle"
    BY <1>1, <1>2, <2>1, HeldFacts, ConcatEmpty DEF OrderInv
  <2>2. CASE receiver[p] = "handle"
    <3>1. PICK x \in Messages : held[p] = <<x>>
      BY <1>1, <2>2, HeldFacts
    <3>2. m = Append(queue[p], x)
      BY <1>2, <3>1, AppendIsConcat
    <3>3. In(held[p]) = {x}
      BY <3>1, InOne
    <3>4. Before(In(queue[p]), {x}) /\ Rising(queue[p])
      BY <1>1, <3>3 DEF OrderInv, Before
    <3>. QED
      BY <1>2, <3>2, <3>4, RisingAppend
  <2>. QED
    BY <2>1, <2>2
<1>5. UnderWay(s, p) = a \o w
  BY DEF UnderWay
<1>. HIDE DEF m, a
<1>6. Increasing(a) /\ In(a) = NumbersOf(m, s)
  BY <1>2, <1>4, FromSenderIncreases DEF a
<1>7. \A n : n \in In(a) <=> [from |-> s, msg |-> n] \in In(m)
  <2>1. \A x \in Messages : x = [from |-> x.from, msg |-> x.msg]
    BY DEF Messages
  <2>2. \A k \in 1 .. Len(m) : m[k] \in Messages
    BY <1>2
  <2>. QED
    BY <1>6, <2>1, <2>2 DEF In, NumbersOf
<1>8. \A n : n \in In(w) <=> [from |-> s, msg |-> n] \in OnWires(p)
  <2>1. \A r, n : [from |-> s, msg |-> n] \in Numbered(r, wire[r][p]) =>
                  r = s /\ n \in In(wire[r][p])
    BY DEF In, Numbered
  <2>2. \A n : n \in In(w) => [from |-> s, msg |-> n] \in Numbered(s, w)
    BY DEF In, Numbered
  <2>. HIDE DEF In, Numbered
  <2>. QED
    BY <2>1, <2>2 DEF OnWires
<1>. HIDE DEF w
<1>9. \A n : n \in In(UnderWay(s, p)) <=> n \in In(a) \/ n \in In(w)
  BY <1>2, <1>5, InConcat
<1>10. ASSUME NEW x \in In(a), NEW y \in In(w) PROVE x < y
  <2>. DEFINE X == [from |-> s, msg |-> x]
              Y == [from |-> s, msg |-> y]
  <2>1. X \in Reached(p) /\ Y \in OnWires(p)
    BY <1>3, <1>7, <1>8 DEF Reached
  <2>. QED
    BY <1>1, <2>1 DEF OrderInv, Before
<1>11. Increasing(w)
  BY <1>1 DEF OrderInv, w
<1>12. Increasing(UnderWay(s, p))
  BY <1>2, <1>5, <1>6, <1>10, <1>11, IncreasingConcat
<1>. QED
  BY <1>2, <1>3, <1>7, <1>8, <1>9, <1>12

\* A message of an open sender is at one place.
LEMMA OnePlace ==
  ASSUME LateInv, NEW s \in Parties, owner[s] # "off", NEW n \in 1 .. sent[s]
  PROVE  \E place : Places(s, n) = {place}
<1>. DEFINE x == [from |-> s, msg |-> n]
            Way(q)   == {<<q, "way", i>> : i \in {i \in 1 .. Len(UnderWay(s, q)) :
                                                   UnderWay(s, q)[i] = n}}
            Given(q) == {<<q, "given", i>> : i \in {i \in 1 .. Len(delivered[q]) :
                                                     delivered[q][i] = x}}
<1>1. Places(s, n) = UNION {Way(q) \cup Given(q) : q \in Parties}
  BY DEF Places
<1>2. WhereInv /\ TypeOK /\ \A q \in Parties : OrderInv(q)
  BY DEF LateInv, LateTypeOK
<1>3. ASSUME NEW q \in Parties
      PROVE  /\ Way(q) # {} => x \in In(queue[q]) \cup In(held[q]) \cup OnWires(q)
             /\ x \in In(queue[q]) \cup In(held[q]) \cup OnWires(q) => \E e : Way(q) = {e}
  <2>. DEFINE u == UnderWay(s, q)
  <2>1. Increasing(u) /\ u \in Seq(Nat)
    BY OnTheWay
  <2>2. n \in In(u) <=> x \in In(queue[q]) \cup In(held[q]) \cup OnWires(q)
    BY OnTheWay
  <2>. HIDE DEF u, x
  <2>3. (\E i \in 1 .. Len(u) : u[i] = n) <=> n \in In(u)
    BY DEF In
  <2>4. ASSUME NEW i \in 1 .. Len(u), NEW j \in 1 .. Len(u), u[i] = u[j] PROVE i = j
    <3>1. ~(i < j) /\ ~(j < i)
      BY <2>1, <2>4 DEF Increasing
    <3>2. Len(u) \in Nat
      BY <2>1
    <3>. QED
      BY <3>1, <3>2
  <2>5. ASSUME NEW i \in 1 .. Len(u), u[i] = n PROVE Way(q) = {<<q, "way", i>>}
    BY <2>4, <2>5 DEF u
  <2>6. Way(q) # {} => \E i \in 1 .. Len(u) : u[i] = n
    BY DEF u
  <2>. HIDE DEF Way
  <2>. QED
    BY <2>2, <2>3, <2>5, <2>6
<1>4. ASSUME NEW q \in Parties
      PROVE  /\ Given(q) # {} => x \in In(delivered[q])
             /\ x \in In(delivered[q]) => \E e : Given(q) = {e}
  <2>. HIDE DEF x
  <2>1. ASSUME NEW i \in 1 .. Len(delivered[q]), delivered[q][i] = x
        PROVE  Given(q) = {<<q, "given", i>>}
    BY <1>2, <2>1 DEF OrderInv, Distinct
  <2>2. Given(q) # {} <=> \E i \in 1 .. Len(delivered[q]) : delivered[q][i] = x
    OBVIOUS
  <2>3. (\E i \in 1 .. Len(delivered[q]) : delivered[q][i] = x) <=> x \in In(delivered[q])
    BY DEF In
  <2>. HIDE DEF Given
  <2>. QED
    BY <2>1, <2>2, <2>3
<1>5. PICK p \in Parties : x \in Everywhere(p)
  BY <1>2 DEF WhereInv
<1>6. sent[s] \in Nat /\ x.msg = n /\ x.from = s /\ n \in Nat
  BY <1>2 DEF TypeOK
<1>. HIDE DEF x, Way, Given
<1>7. \A q \in Parties : q # p => Way(q) = {} /\ Given(q) = {}
  BY <1>2, <1>3, <1>4, <1>5 DEF WhereInv, Everywhere, Reached
<1>8. Places(s, n) = Way(p) \cup Given(p)
  BY <1>1, <1>7
<1>9. CASE x \in In(delivered[p])
  <2>1. x \notin In(queue[p]) /\ x \notin In(held[p]) /\ x \notin OnWires(p)
    BY <1>2, <1>6, <1>9 DEF OrderInv, Before, Reached
  <2>2. Way(p) = {}
    BY <1>3, <2>1
  <2>. QED
    BY <1>4, <1>8, <1>9, <2>2
<1>10. CASE x \notin In(delivered[p])
  <2>1. x \in In(queue[p]) \cup In(held[p]) \cup OnWires(p)
    BY <1>5, <1>10 DEF Everywhere, Reached
  <2>2. Given(p) = {}
    BY <1>4, <1>10
  <2>. QED
    BY <1>3, <1>8, <2>1, <2>2
<1>. QED
  BY <1>9, <1>10

-----------------------------------------------------------------------------
(* The theorems.                                                           *)

\* (ZMQMPCCommunication.cpp:19-295)  Each message is at one place, and behind what
\* its sender has sent before, unless a handler has overtaken the queue.
THEOREM LateInvariance == LateSpec => []LateInv
BY LateInitInv, LateStepInv, PTL DEF LateSpec

\* (ZMQMPCCommunication.cpp:19-295)  The state keeps its type, and the thread
\* tests for a handler only with a message in its hands, whenever a handler is set.
THEOREM LateTypeCorrect == LateSpec => []LateTypeOK
<1>1. LateInv => LateTypeOK
  BY DEF LateInv
<1>. QED
  BY <1>1, LateInvariance, PTL

\* (ZMQMPCCommunication.cpp:188-190, 283)  No message that is taken off a socket
\* after setMessageHandler has returned is ever put into the queue.
THEOREM LaterNeverQueued == LateSpec => []LaterOnesAreHandled
<1>1. LateInv => LaterOnesAreHandled
  BY DEF LateInv, HandlerInv, In, LaterOnesAreHandled
<1>. QED
  BY <1>1, LateInvariance, PTL

\* (ZMQMPCCommunication.cpp:174-186, 281-295)  The messages of a sender are
\* given out of order only where a handler overtakes the queue, and all that is
\* overtaken had been taken off the socket before the handler was set.
THEOREM OvertakingIsEarly == LateSpec => []OnlyEarlyOvertaken
<1>1. LateInv => OnlyEarlyOvertaken
  BY DEF LateInv, OvertakingInv, LateIn, OnlyEarlyOvertaken
<1>. QED
  BY <1>1, LateInvariance, PTL
\* (ZMQMPCCommunication.cpp:188-190, 281-295)  Setting the handler in the middle
\* neither loses a message nor has one given twice, for as long as its sender is
\* open.
THEOREM LateOnceEach == LateSpec => []EachMessageOnce
<1>1. LateInv => EachMessageOnce
  <2>. SUFFICES ASSUME LateInv, NEW s \in Parties, owner[s] # "off", NEW n \in 1 .. sent[s]
                PROVE  Cardinality(Places(s, n)) = 1
    BY DEF EachMessageOnce
  <2>. PICK place : Places(s, n) = {place}
    BY OnePlace
  <2>. QED
    BY FS_Singleton
<1>. QED
  BY <1>1, LateInvariance, PTL
=============================================================================
