------------------------ MODULE AdditiveSharingProofs ------------------------
(***************************************************************************)
(* Proofs about AdditiveSharing, for every number of parties, every        *)
(* modulus above 2, all values of the secret holder and all draws.         *)
(***************************************************************************)
EXTENDS AdditiveSharing, SequenceTheorems, WellFoundedInduction, TLAPS

-----------------------------------------------------------------------------
(* Residues.  Res is left unexpanded wherever arithmetic modulo Q is done  *)
(* by its rules.                                                           *)

Res(x) == x % Q

LEMMA QFacts == Q \in Nat /\ Q > 2
BY SharingAssumption

LEMMA ResType ==
  ASSUME NEW x \in Int
  PROVE  Res(x) \in Residues /\ Res(x) \in Int
BY QFacts DEF Res, Residues

LEMMA ResOfResidue ==
  ASSUME NEW x \in Residues
  PROVE  x \in Int /\ Res(x) = x
BY QFacts DEF Res, Residues

LEMMA ResZero == 0 \in Residues /\ Res(0) = 0
BY QFacts DEF Res, Residues

LEMMA Quotient ==
  ASSUME NEW x \in Int
  PROVE  \E k \in Int : x = Res(x) + Q * k
<1>1. x = (x % Q) + Q * (x \div Q) /\ x \div Q \in Int
  BY QFacts
<1> QED BY <1>1 DEF Res

LEMMA ResShift ==
  ASSUME NEW x \in Int, NEW k \in Int
  PROVE  Res(x + Q * k) = Res(x)
<1> DEFINE y == x + Q * k
<1>1. y \in Int
  BY QFacts
<1>2. PICK i \in Int : x = Res(x) + Q * i
  BY Quotient
<1>3. PICK j \in Int : y = Res(y) + Q * j
  BY <1>1, Quotient
<1>4. Res(x) \in 0 .. Q - 1 /\ Res(y) \in 0 .. Q - 1
  BY <1>1, ResType DEF Residues
<1> DEFINE d == i + k - j
<1>5. Res(y) - Res(x) = Q * d
  <2>1. Res(y) + Q * j = Res(x) + Q * i + Q * k
    BY <1>2, <1>3
  <2>2. Q * d = Q * i + Q * k - Q * j
    BY QFacts
  <2> HIDE DEF y, d
  <2> QED BY <1>4, <2>1, <2>2, QFacts
<1>6. d \in Int
  OBVIOUS
<1>7. d = 0
  <2> HIDE DEF y, d
  <2>1. ASSUME d >= 1 PROVE FALSE
    <3>1. Q * d >= Q
      BY <2>1, <1>6, QFacts
    <3> QED BY <3>1, <1>4, <1>5, QFacts
  <2>2. ASSUME d <= -1 PROVE FALSE
    <3>1. Q * d <= - Q
      BY <2>2, <1>6, QFacts
    <3> QED BY <3>1, <1>4, <1>5, QFacts
  <2> QED BY <1>6, <2>1, <2>2
<1> HIDE DEF d
<1> QED BY <1>4, <1>5, <1>7, QFacts

LEMMA ResAdd ==
  ASSUME NEW x \in Int, NEW y \in Int
  PROVE  Res(Res(x) + y) = Res(x + y)
<1> PICK k \in Int : x = Res(x) + Q * k
  BY Quotient
<1>1. Res(x) \in Int
  BY ResType
<1>2. x + y = (Res(x) + y) + Q * k
  BY <1>1, QFacts
<1> QED BY <1>1, <1>2, ResShift

LEMMA ResSame ==
  ASSUME NEW x \in Int, NEW y \in Int, NEW z \in Int, Res(x) = Res(y)
  PROVE  Res(x + z) = Res(y + z)
<1>1. Res(Res(x) + z) = Res(x + z) /\ Res(Res(y) + z) = Res(y + z)
  BY ResAdd
<1> QED BY <1>1

LEMMA ResSum ==
  ASSUME NEW x \in Int, NEW y \in Int, NEW z \in Int, NEW w \in Int,
         Res(x) = Res(y), Res(z) = Res(w)
  PROVE  Res(x + z) = Res(y + w)
<1>1. Res(x + z) = Res(y + z)
  BY ResSame
<1>2. Res(z + y) = Res(w + y)
  BY ResSame
<1>3. y + z = z + y /\ y + w = w + y
  OBVIOUS
<1> QED BY <1>1, <1>2, <1>3

LEMMA ResBoth ==
  ASSUME NEW x \in Int, NEW y \in Int
  PROVE  Res(Res(x) + Res(y)) = Res(x + y)
<1>1. /\ Res(x) \in Int /\ Res(Res(x)) = Res(x)
      /\ Res(y) \in Int /\ Res(Res(y)) = Res(y)
  BY ResType, ResOfResidue
<1> QED BY <1>1, ResSum

LEMMA ResMul ==
  ASSUME NEW x \in Int, NEW y \in Int
  PROVE  Res(Res(x) * y) = Res(x * y)
<1> PICK k \in Int : x = Res(x) + Q * k
  BY Quotient
<1> DEFINE r == Res(x)
<1>1. r \in Int
  BY ResType
<1>2. x * y = r * y + Q * (k * y)
  <2> HIDE DEF r
  <2> SUFFICES (r + Q * k) * y = r * y + Q * (k * y)
    BY DEF r
  <2> QED BY <1>1, QFacts
<1>3. r * y \in Int /\ k * y \in Int
  BY <1>1
<1> QED BY <1>2, <1>3, ResShift

LEMMA ResLinear ==
  ASSUME NEW a \in Int, NEW b \in Int, NEW x \in Int, NEW y \in Int
  PROVE  Res(a * Res(x) + b * Res(y)) = Res(a * x + b * y)
<1> DEFINE u == Res(x)
           v == Res(y)
<1>1. u \in Int /\ v \in Int
  BY ResType
<1>2. Res(u * a) = Res(x * a) /\ Res(v * b) = Res(y * b)
  BY ResMul
<1> HIDE DEF u, v
<1>3. u * a = a * u /\ x * a = a * x /\ v * b = b * v /\ y * b = b * y
  BY <1>1
<1>4. a * u \in Int /\ a * x \in Int /\ b * v \in Int /\ b * y \in Int
  BY <1>1
<1>5. Res(a * u + b * v) = Res(a * x + b * y)
  <2> DEFINE au == a * u
             ax == a * x
             bv == b * v
             by == b * y
  <2>1. Res(au) = Res(ax) /\ Res(bv) = Res(by)
    BY <1>2, <1>3
  <2>2. au \in Int /\ ax \in Int /\ bv \in Int /\ by \in Int
    BY <1>4
  <2> HIDE DEF au, ax, bv, by
  <2>3. Res(au + bv) = Res(ax + by)
    BY <2>1, <2>2, ResSum
  <2> QED BY <2>3 DEF au, ax, bv, by
<1> QED BY <1>5 DEF u, v

-----------------------------------------------------------------------------
(* The sum over a vector.                                                  *)

\* The least number of a set of naturals, for proofs by induction.
LEMMA NatLeast ==
  ASSUME NEW T \in SUBSET Nat, T # {}
  PROVE  \E x \in T : \A y \in T : x <= y
<1> DEFINE R == {ss \in Nat \X Nat : ss[1] < ss[2]}
<1>1. IsWellFoundedOn(R, Nat)
  BY NatLessThanWellFounded DEF OpToRel
<1>2. \E x \in T : \A y \in T : ~(<<y, x>> \in R)
  <2> HIDE DEF R
  <2> QED BY <1>1, WFMin
<1>3. PICK x \in T : \A y \in T : ~(<<y, x>> \in R)
  BY <1>2
<1>4. \A y \in T : ~(y < x)
  BY <1>3
<1> QED BY <1>4

\* s holds the totals of f after 0, 1, ..., k shares.
IsTotals(s, f, k) == 
  s = [i \in 0 .. k |-> IF i = 0 THEN 0 ELSE AddTwo(s[i - 1], f[i])]

LEMMA LenOfVector ==
  ASSUME NEW n \in Nat, NEW f \in [1 .. n -> Int]
  PROVE  Len(f) = n
<1>1. f \in Seq(Int)
  BY IsASeq
<1> QED BY <1>1

LEMMA TotalsExist ==
  ASSUME NEW n \in Nat, NEW f
  PROVE  \E s : IsTotals(s, f, n)
<1> DEFINE T == {k \in 0 .. n : ~ \E s : IsTotals(s, f, k)}
<1> SUFFICES ASSUME T # {} PROVE FALSE
  <2>1. n \notin T
    OBVIOUS
  <2> QED BY <2>1
<1>1. T \in SUBSET Nat
  OBVIOUS
<1>2. PICK k \in T : \A y \in T : k <= y
  <2> HIDE DEF T
  <2> QED BY <1>1, NatLeast
<1>3. k # 0
  <2>1. IsTotals([i \in 0 .. 0 |-> 0], f, 0)
    BY DEF IsTotals
  <2> QED BY <2>1
<1>4. PICK s : IsTotals(s, f, k - 1)
  BY <1>2, <1>3
<1> DEFINE t == [i \in 0 .. k |-> IF i = k THEN AddTwo(s[k - 1], f[k]) ELSE s[i]]
<1>5. IsTotals(t, f, k)
  <2>1. \A i \in 0 .. k : t[i] = IF i = 0 THEN 0 ELSE AddTwo(t[i - 1], f[i])
    <3> SUFFICES ASSUME NEW i \in 0 .. k
                 PROVE  t[i] = IF i = 0 THEN 0 ELSE AddTwo(t[i - 1], f[i])
      OBVIOUS
    <3>1. i < k => s[i] = IF i = 0 THEN 0 ELSE AddTwo(s[i - 1], f[i])
      BY <1>4 DEF IsTotals
    <3>2. i # 0 => i - 1 \in 0 .. k /\ i - 1 # k /\ t[i - 1] = s[i - 1]
      OBVIOUS
    <3> QED BY <1>3, <3>1, <3>2
  <2> QED BY <2>1 DEF IsTotals
<1> QED BY <1>5

LEMMA PartialSumsDef ==
  ASSUME NEW n \in Nat, NEW f \in [1 .. n -> Int]
  PROVE  IsTotals(PartialSums(f), f, n)
<1>1. PartialSums(f) = CHOOSE s : IsTotals(s, f, n)
  BY LenOfVector DEF PartialSums, IsTotals
<1> QED BY <1>1, TotalsExist

LEMMA TotalsStep ==
  ASSUME NEW n \in Nat, NEW f \in [1 .. n -> Int]
  PROVE  /\ PartialSums(f)[0] = 0
         /\ \A k \in 1 .. n : PartialSums(f)[k] = Res(PartialSums(f)[k - 1] + f[k])
<1> DEFINE s == PartialSums(f)
<1>1. IsTotals(s, f, n)
  BY PartialSumsDef
<1> HIDE DEF s
<1>2. \A i \in 0 .. n : s[i] = IF i = 0 THEN 0 ELSE AddTwo(s[i - 1], f[i])
  BY <1>1 DEF IsTotals
<1>3. s[0] = 0
  BY <1>2
<1>4. ASSUME NEW k \in 1 .. n PROVE s[k] = Res(s[k - 1] + f[k])
  BY <1>2 DEF AddTwo, Res
<1> QED BY <1>3, <1>4 DEF s

\* What the loop adds up to: any totals t that are right modulo Q at every
\* share give the sum.
LEMMA SumByTotals ==
  ASSUME NEW n \in Nat, NEW f \in [1 .. n -> Int], NEW t \in [0 .. n -> Int],
         Res(t[0]) = 0,
         \A k \in 1 .. n : Res(t[k]) = Res(t[k - 1] + f[k])
  PROVE  AddShares(f) = Res(t[n])
<1> DEFINE s == PartialSums(f)
           T == {k \in 0 .. n : s[k] # Res(t[k])}
<1>1. s[0] = 0 /\ \A k \in 1 .. n : s[k] = Res(s[k - 1] + f[k])
  BY TotalsStep
<1> HIDE DEF s
<1>2. T = {}
  <2> SUFFICES ASSUME T # {} PROVE FALSE
    OBVIOUS
  <2>1. T \in SUBSET Nat
    OBVIOUS
  <2>2. PICK k \in T : \A y \in T : k <= y
    <3> HIDE DEF T
    <3> QED BY <2>1, NatLeast
  <2>3. k \in 1 .. n /\ k - 1 \in 0 .. n
    BY <1>1
  <2>4. s[k - 1] = Res(t[k - 1])
    BY <2>2, <2>3
  <2>5. s[k] = Res(Res(t[k - 1]) + f[k])
    BY <1>1, <2>3, <2>4
  <2>6. t[k - 1] \in Int /\ f[k] \in Int
    BY <2>3
  <2>7. s[k] = Res(t[k])
    BY <2>3, <2>5, <2>6, ResAdd
  <2> QED BY <2>7
<1>3. AddShares(f) = s[n]
  BY LenOfVector DEF AddShares, s
<1>4. n \in 0 .. n /\ n \notin T
  BY <1>2
<1> QED BY <1>3, <1>4

\* The totals of the loop themselves are such totals, and integers.
LEMMA TotalsType ==
  ASSUME NEW n \in Nat, NEW f \in [1 .. n -> Int]
  PROVE  /\ \A k \in 0 .. n : PartialSums(f)[k] \in Residues
         /\ AddShares(f) = PartialSums(f)[n] /\ AddShares(f) \in Residues
<1> DEFINE s == PartialSums(f)
           T == {k \in 0 .. n : s[k] \notin Residues}
<1>1. s[0] = 0 /\ \A k \in 1 .. n : s[k] = Res(s[k - 1] + f[k])
  BY TotalsStep
<1> HIDE DEF s
<1>2. T = {}
  <2> SUFFICES ASSUME T # {} PROVE FALSE
    OBVIOUS
  <2>1. T \in SUBSET Nat
    OBVIOUS
  <2>2. PICK k \in T : \A y \in T : k <= y
    <3> HIDE DEF T
    <3> QED BY <2>1, NatLeast
  <2>3. k \in 1 .. n /\ k - 1 \in 0 .. n
    BY <1>1, ResZero
  <2>4. s[k - 1] \in Residues
    BY <2>2, <2>3
  <2>5. s[k - 1] + f[k] \in Int
    BY <2>3, <2>4, ResOfResidue
  <2>6. s[k] \in Residues
    BY <1>1, <2>3, <2>5, ResType
  <2> QED BY <2>6
<1>3. AddShares(f) = s[n]
  BY LenOfVector DEF AddShares, s
<1> QED BY <1>2, <1>3 DEF s

\* h is what n parties compute from f and g with public factors.
IsCombination(h, n, a, f, b, g) ==
  /\ n \in Nat /\ a \in Int /\ b \in Int
  /\ f \in [1 .. n -> Int] /\ g \in [1 .. n -> Int] /\ h \in [1 .. n -> Int]
  /\ \A p \in 1 .. n : Res(h[p]) = Res(a * f[p] + b * g[p])

\* Sums are linear: such an h is a sharing of the same combination of the sums.
LEMMA SumLinear ==
  ASSUME NEW n, NEW f, NEW g, NEW h, NEW a, NEW b, IsCombination(h, n, a, f, b, g)
  PROVE  AddShares(h) = Res(a * AddShares(f) + b * AddShares(g))
<1> USE DEF IsCombination
<1> DEFINE F == PartialSums(f)
           G == PartialSums(g)
           t == [k \in 0 .. n |-> a * F[k] + b * G[k]]
<1>1. /\ F[0] = 0 /\ \A k \in 1 .. n : F[k] = Res(F[k - 1] + f[k])
      /\ G[0] = 0 /\ \A k \in 1 .. n : G[k] = Res(G[k - 1] + g[k])
  BY TotalsStep
<1>2. /\ \A k \in 0 .. n : F[k] \in Int /\ G[k] \in Int
      /\ AddShares(f) = F[n] /\ AddShares(g) = G[n]
  BY TotalsType, ResOfResidue
<1> HIDE DEF F, G
<1>3. t \in [0 .. n -> Int]
  BY <1>2
<1>4. Res(t[0]) = 0
  BY <1>1, ResZero
<1>5. ASSUME NEW k \in 1 .. n PROVE Res(t[k]) = Res(t[k - 1] + h[k])
  <2>1. k - 1 \in 0 .. n
    OBVIOUS
  <2> DEFINE u == F[k - 1]
             v == G[k - 1]
  <2>2. u \in Int /\ v \in Int /\ f[k] \in Int /\ g[k] \in Int /\ h[k] \in Int
    BY <1>2, <2>1
  <2>3. t[k - 1] = a * u + b * v /\ t[k] = a * Res(u + f[k]) + b * Res(v + g[k])
    BY <1>1, <2>1
  <2> HIDE DEF t, u, v
  <2>4. Res(a * Res(u + f[k]) + b * Res(v + g[k])) = Res(a * (u + f[k]) + b * (v + g[k]))
    <3> DEFINE x == u + f[k]
               y == v + g[k]
    <3>1. x \in Int /\ y \in Int
      BY <2>2
    <3> HIDE DEF x, y
    <3>2. Res(a * Res(x) + b * Res(y)) = Res(a * x + b * y)
      BY <3>1, ResLinear
    <3> QED BY <3>2 DEF x, y
  <2>5. a * (u + f[k]) + b * (v + g[k]) = (a * f[k] + b * g[k]) + (a * u + b * v)
    BY <2>2
  <2>6. Res((a * f[k] + b * g[k]) + (a * u + b * v)) = Res(h[k] + (a * u + b * v))
    <3>1. a * f[k] \in Int /\ b * g[k] \in Int /\ a * u \in Int /\ b * v \in Int
      BY <2>2
    <3> DEFINE w == a * f[k] + b * g[k]
               z == a * u + b * v
    <3>2. w \in Int /\ z \in Int /\ Res(h[k]) = Res(w)
      BY <3>1
    <3> HIDE DEF w, z
    <3>3. Res(w + z) = Res(h[k] + z)
      BY <2>2, <3>2, ResSame
    <3> QED BY <3>3 DEF w, z
  <2>7. h[k] + (a * u + b * v) = (a * u + b * v) + h[k]
    BY <2>2
  <2> QED BY <2>3, <2>4, <2>5, <2>6, <2>7
<1>6. t[n] = a * AddShares(f) + b * AddShares(g)
  BY <1>2
<1> HIDE DEF t
<1>7. AddShares(h) = Res(t[n])
  BY <1>3, <1>4, <1>5, SumByTotals
<1> QED BY <1>6, <1>7

\* What one party alone adds is added once.
IsPoint(h, n, q, c) ==
  /\ n \in Nat /\ q \in 1 .. n /\ c \in Int
  /\ h = [p \in 1 .. n |-> IF p = q THEN c ELSE 0]

LEMMA SumPoint ==
  ASSUME NEW n, NEW q, NEW c, NEW h, IsPoint(h, n, q, c)
  PROVE  AddShares(h) = Res(c) /\ h \in [1 .. n -> Int]
<1> USE DEF IsPoint
<1> DEFINE t == [k \in 0 .. n |-> IF k < q THEN 0 ELSE c]
<1>1. t \in [0 .. n -> Int] /\ Res(t[0]) = 0 /\ t[n] = c
  BY ResZero
<1>2. \A k \in 1 .. n : t[k] = t[k - 1] + h[k]
  OBVIOUS
<1>3. h \in [1 .. n -> Int]
  OBVIOUS
<1> HIDE DEF t
<1> QED BY <1>1, <1>2, <1>3, SumByTotals

LEMMA SumZero == None \in Sharings /\ AddShares(None) = 0
<1>1. N \in Nat /\ None \in [1 .. N -> Int]
  BY SharingAssumption DEF None, Parties
<1> DEFINE t == [k \in 0 .. N |-> 0]
<1>2. AddShares(None) = Res(t[N])
  <2>1. /\ t \in [0 .. N -> Int] /\ Res(t[0]) = 0
        /\ \A k \in 1 .. N : t[k] = t[k - 1] + None[k]
    BY <1>1, ResZero DEF None, Parties
  <2> HIDE DEF t
  <2> QED BY <1>1, <2>1, SumByTotals
<1> QED BY <1>1, <1>2, ResZero DEF None, Sharings
LEMMA SumOfTwo ==
  ASSUME NEW x \in Residues, NEW y \in Residues
  PROVE  AddShares(<<x, y>>) = Res(x + y)
<1> DEFINE f == <<x, y>>
           t == [k \in 0 .. 2 |-> IF k = 0 THEN 0 ELSE IF k = 1 THEN x ELSE x + y]
<1>1. x \in Int /\ y \in Int
  BY ResOfResidue
<1>2. f \in [1 .. 2 -> Int] /\ t \in [0 .. 2 -> Int]
  BY <1>1
<1>3. t[2] = x + y /\ Res(t[0]) = 0
  BY ResZero
<1>4. \A k \in 1 .. 2 : t[k] = t[k - 1] + f[k]
  BY <1>1
<1> HIDE DEF f, t
<1>5. AddShares(f) = Res(t[2])
  BY <1>2, <1>3, <1>4, SumByTotals
<1> QED BY <1>3, <1>5 DEF f

LEMMA SumPlus ==
  ASSUME NEW n \in Nat, NEW f \in [1 .. n -> Int], NEW g \in [1 .. n -> Int],
         NEW h \in [1 .. n -> Int],
         \A p \in 1 .. n : Res(h[p]) = Res(f[p] + g[p])
  PROVE  AddShares(h) = Res(AddShares(f) + AddShares(g))
<1>1. \A p \in 1 .. n : Res(h[p]) = Res(1 * f[p] + 1 * g[p])
  <2> TAKE p \in 1 .. n
  <2>1. f[p] \in Int /\ g[p] \in Int
    OBVIOUS
  <2>2. \A x \in Int : 1 * x = x
    OBVIOUS
  <2> QED BY <2>1, <2>2
<1>2. IsCombination(h, n, 1, f, 1, g)
  BY <1>1 DEF IsCombination
<1>3. AddShares(h) = Res(1 * AddShares(f) + 1 * AddShares(g))
  BY <1>2, SumLinear
<1>4. AddShares(f) \in Int /\ AddShares(g) \in Int
  BY TotalsType, ResOfResidue
<1> QED BY <1>3, <1>4

\* A public combination of two vectors.
Combined(n, a, f, b, g) == [p \in 1 .. n |-> a * f[p] + b * g[p]]

LEMMA CombinedType ==
  ASSUME NEW n \in Nat, NEW f \in [1 .. n -> Int], NEW g \in [1 .. n -> Int],
         NEW a \in Int, NEW b \in Int
  PROVE  IsCombination(Combined(n, a, f, b, g), n, a, f, b, g)
<1> DEFINE h == Combined(n, a, f, b, g)
<1>1. ASSUME NEW p \in 1 .. n PROVE a * f[p] + b * g[p] \in Int
  <2>1. f[p] \in Int /\ g[p] \in Int
    OBVIOUS
  <2>2. \A x \in Int, y \in Int : a * x + b * y \in Int
    OBVIOUS
  <2> QED BY <2>1, <2>2
<1>2. h \in [1 .. n -> Int] /\ \A p \in 1 .. n : h[p] = a * f[p] + b * g[p]
  BY <1>1 DEF Combined
<1> HIDE DEF h
<1>3. IsCombination(h, n, a, f, b, g)
  BY <1>2 DEF IsCombination
<1> QED BY <1>3 DEF h

IsSumOfFour(h, n, a, f, b, g, c, u, d, v) ==
  /\ n \in Nat /\ a \in Int /\ b \in Int /\ c \in Int /\ d \in Int
  /\ f \in [1 .. n -> Int] /\ g \in [1 .. n -> Int] /\ h \in [1 .. n -> Int]
  /\ u \in [1 .. n -> Int] /\ v \in [1 .. n -> Int]
  /\ \A p \in 1 .. n :
       Res(h[p]) = Res((a * f[p] + b * g[p]) + (c * u[p] + d * v[p]))

LEMMA SumFour ==
  ASSUME NEW n, NEW f, NEW g, NEW h, NEW u, NEW v, NEW a, NEW b, NEW c, NEW d,
         IsSumOfFour(h, n, a, f, b, g, c, u, d, v)
  PROVE  AddShares(h) = Res((a * AddShares(f) + b * AddShares(g))
                              + (c * AddShares(u) + d * AddShares(v)))
<1> USE DEF IsSumOfFour
<1> DEFINE i == Combined(n, a, f, b, g)
           j == Combined(n, c, u, d, v)
           x == a * AddShares(f) + b * AddShares(g)
           y == c * AddShares(u) + d * AddShares(v)
<1>1. /\ IsCombination(i, n, a, f, b, g)
      /\ \A p \in 1 .. n : i[p] = a * f[p] + b * g[p]
  <2>1. IsCombination(i, n, a, f, b, g)
    BY CombinedType
  <2> QED BY <2>1 DEF Combined
<1>2. /\ IsCombination(j, n, c, u, d, v)
      /\ \A p \in 1 .. n : j[p] = c * u[p] + d * v[p]
  <2>1. IsCombination(j, n, c, u, d, v)
    BY CombinedType
  <2> QED BY <2>1 DEF Combined
<1>3. x \in Int /\ y \in Int
  <2>1. /\ AddShares(f) \in Int /\ AddShares(g) \in Int
        /\ AddShares(u) \in Int /\ AddShares(v) \in Int
    BY TotalsType, ResOfResidue
  <2> QED BY <2>1
<1> HIDE DEF i, j, x, y
<1>4. AddShares(h) = Res(AddShares(i) + AddShares(j))
  <2>1. \A p \in 1 .. n : Res(h[p]) = Res(i[p] + j[p])
    BY <1>1, <1>2
  <2>2. i \in [1 .. n -> Int] /\ j \in [1 .. n -> Int]
    BY <1>1, <1>2 DEF IsCombination
  <2> QED BY <2>1, <2>2, SumPlus
<1>5. Res(Res(x) + Res(y)) = Res(x + y)
  BY <1>3, ResBoth
<1>6. AddShares(i) = Res(x) /\ AddShares(j) = Res(y)
  BY <1>1, <1>2, SumLinear DEF x, y
<1> QED BY <1>4, <1>5, <1>6 DEF x, y

-----------------------------------------------------------------------------
(* Beaver's formula and the MACs, for the sums themselves.                 *)

\* X Y is opened as c + a (Y - b) + b (X - a) + (X - a)(Y - b) modulo Q.
LEMMA BeaverFormula ==
  ASSUME NEW X \in Int, NEW Y \in Int, NEW A \in Int, NEW B \in Int,
         NEW C, NEW E, NEW R,
         C = Res(A * B), E = Res(X - A), R = Res(Y - B)
  PROVE  Res(C + A * R + B * E + E * R) = Res(X * Y)
<1>1. A * B \in Int /\ X - A \in Int /\ Y - B \in Int
  OBVIOUS
<1>2. C \in Int /\ E \in Int /\ R \in Int
  BY <1>1, ResType
<1>3. PICK k \in Int : A * B = C + Q * k
  BY <1>1, Quotient
<1>4. PICK i \in Int : X - A = E + Q * i
  BY <1>1, Quotient
<1>5. PICK j \in Int : Y - B = R + Q * j
  BY <1>1, Quotient
<1> DEFINE s == C + A * R + B * E + E * R
           d == k + A * j + i * B + E * j + i * R + Q * (i * j)
<1>6. s \in Int /\ d \in Int
  BY <1>2, QFacts
<1>7. X * Y = s + Q * d
  <2>1. X = A + (E + Q * i) /\ Y = B + (R + Q * j)
    BY <1>2, <1>4, <1>5, QFacts
  <2>2. X * Y = A * B + A * (R + Q * j) + (E + Q * i) * B + (E + Q * i) * (R + Q * j)
    BY <1>2, <2>1, QFacts
  <2>3. A * (R + Q * j) = A * R + Q * (A * j)
    BY <1>2, QFacts
  <2>4. (E + Q * i) * B = B * E + Q * (i * B)
    BY <1>2, QFacts
  <2>5. (E + Q * i) * (R + Q * j) = E * R + Q * (E * j) + Q * (i * R) + Q * (Q * (i * j))
    BY <1>2, QFacts
  <2>6. Q * d = Q * k + Q * (A * j) + Q * (i * B) + Q * (E * j) + Q * (i * R) + Q * (Q * (i * j))
    BY <1>2, QFacts
  <2>7. /\ A * R \in Int /\ B * E \in Int /\ E * R \in Int /\ Q * k \in Int
        /\ Q * (A * j) \in Int /\ Q * (i * B) \in Int /\ Q * (E * j) \in Int
        /\ Q * (i * R) \in Int /\ Q * (Q * (i * j)) \in Int
    BY <1>2, QFacts
  <2> HIDE DEF d
  <2> QED BY <1>2, <1>3, <2>2, <2>3, <2>4, <2>5, <2>6, <2>7
<1> HIDE DEF s, d
<1>8. Res(X * Y) = Res(s)
  BY <1>6, <1>7, ResShift
<1> QED BY <1>8 DEF s

\* Twice a residue is a MAC of the value it stands for.
LEMMA ResTwice ==
  ASSUME NEW x \in Int
  PROVE  Res(2 * Res(x)) = Res(2 * x) /\ 2 * x \in Int
<1>1. Res(Res(x) * 2) = Res(x * 2)
  BY ResMul
<1>2. Res(x) * 2 = 2 * Res(x) /\ x * 2 = 2 * x
  BY ResType
<1> QED BY <1>1, <1>2

\* The MAC of the product is the same combination of the MACs.
MacSum(a, b, c, e, r) ==
  Res(Res(2 * c) + e * Res(2 * b) + r * Res(2 * a) + (e * r) * 2)

LEMMA MacFormula ==
  ASSUME NEW A \in Int, NEW B \in Int, NEW C \in Int, NEW E \in Int, NEW R \in Int
  PROVE  MacSum(A, B, C, E, R) = Res(2 * Res(C + A * R + B * E + E * R))
<1> USE DEF MacSum
<1> DEFINE MA == Res(2 * A)
           MB == Res(2 * B)
           MC == Res(2 * C)
           s == C + A * R + B * E + E * R
           t == MC + E * MB + R * MA + (E * R) * 2
<1>1. 2 * A \in Int /\ 2 * B \in Int /\ 2 * C \in Int
  OBVIOUS
<1>2. MA \in Int /\ MB \in Int /\ MC \in Int
  BY <1>1, ResType
<1>3. PICK i \in Int : 2 * A = MA + Q * i
  BY <1>1, Quotient
<1>4. PICK j \in Int : 2 * B = MB + Q * j
  BY <1>1, Quotient
<1>5. PICK k \in Int : 2 * C = MC + Q * k
  BY <1>1, Quotient
<1> HIDE DEF MA, MB, MC
<1> DEFINE d == k + E * j + R * i
<1>6. s \in Int /\ t \in Int /\ d \in Int
  BY <1>2
<1>7. 2 * s = t + Q * d
  <2>1. 2 * s = 2 * C + R * (2 * A) + E * (2 * B) + (E * R) * 2
    OBVIOUS
  <2>2. 2 * s = (MC + Q * k) + R * (MA + Q * i) + E * (MB + Q * j) + (E * R) * 2
    BY <1>3, <1>4, <1>5, <2>1
  <2>3. R * (MA + Q * i) = R * MA + Q * (R * i)
    BY <1>2, QFacts
  <2>4. E * (MB + Q * j) = E * MB + Q * (E * j)
    BY <1>2, QFacts
  <2>5. Q * d = Q * k + Q * (E * j) + Q * (R * i)
    BY QFacts
  <2>6. /\ R * MA \in Int /\ E * MB \in Int /\ E * R \in Int /\ Q * k \in Int
        /\ Q * (E * j) \in Int /\ Q * (R * i) \in Int
    BY <1>2, QFacts
  <2> HIDE DEF d, s
  <2> QED BY <1>2, <2>2, <2>3, <2>4, <2>5, <2>6
<1> HIDE DEF s, t, d
<1>8. Res(2 * s) = Res(t)
  BY <1>6, <1>7, ResShift
<1>9. Res(2 * Res(s)) = Res(2 * s)
  BY <1>6, ResTwice
<1> QED BY <1>8, <1>9 DEF s, t, MA, MB, MC

\* The shares of generateBatchZeroShare cancel.
ZeroSum(x, y, a, b, e, r) ==
  Res((e * (Res(2 * x) - Res(2 * a)) + r * (Res(2 * y) - Res(2 * b)))
        - (e * Res(x - a) + r * Res(y - b)) * 2)

LEMMA ZeroFormula ==
  ASSUME NEW X \in Int, NEW Y \in Int, NEW A \in Int, NEW B \in Int,
         NEW e \in Int, NEW r \in Int
  PROVE  ZeroSum(X, Y, A, B, e, r) = 0
<1> USE DEF ZeroSum
<1> DEFINE MX == Res(2 * X)
           MY == Res(2 * Y)
           MA == Res(2 * A)
           MB == Res(2 * B)
           E == Res(X - A)
           R == Res(Y - B)
<1>1. /\ 2 * X \in Int /\ 2 * Y \in Int /\ 2 * A \in Int /\ 2 * B \in Int
      /\ X - A \in Int /\ Y - B \in Int
  OBVIOUS
<1>2. MX \in Int /\ MY \in Int /\ MA \in Int /\ MB \in Int /\ E \in Int /\ R \in Int
  BY <1>1, ResType
<1>3. PICK i \in Int : 2 * X = MX + Q * i
  BY <1>1, Quotient
<1>4. PICK j \in Int : 2 * Y = MY + Q * j
  BY <1>1, Quotient
<1>5. PICK k \in Int : 2 * A = MA + Q * k
  BY <1>1, Quotient
<1>6. PICK l \in Int : 2 * B = MB + Q * l
  BY <1>1, Quotient
<1>7. PICK m \in Int : X - A = E + Q * m
  BY <1>1, Quotient
<1>8. PICK n \in Int : Y - B = R + Q * n
  BY <1>1, Quotient
<1> HIDE DEF MX, MY, MA, MB, E, R
<1> DEFINE x == 2 * m - i + k
           y == 2 * n - j + l
           t == (e * (MX - MA) + r * (MY - MB)) - (e * E + r * R) * 2
<1>9. MX - MA = 2 * E + Q * x
  BY <1>2, <1>3, <1>5, <1>7, QFacts
<1>10. MY - MB = 2 * R + Q * y
  BY <1>2, <1>4, <1>6, <1>8, QFacts
<1>11. x \in Int /\ y \in Int
  OBVIOUS
<1> HIDE DEF x, y
<1>12. t = 0 + Q * (e * x + r * y)
  <2>1. t = (e * (2 * E + Q * x) + r * (2 * R + Q * y)) - (e * E + r * R) * 2
    BY <1>9, <1>10
  <2> QED BY <1>2, <1>11, <2>1, QFacts
<1>13. e * x + r * y \in Int /\ 0 \in Int
  BY <1>11
<1> DEFINE z == e * x + r * y
<1> HIDE DEF t, z
<1>14. Res(t) = Res(0)
  <2>1. t = 0 + Q * z /\ z \in Int
    BY <1>12, <1>13 DEF z
  <2> QED BY <2>1, ResShift
<1> QED BY <1>14, ResZero DEF t, MX, MY, MA, MB, E, R
-----------------------------------------------------------------------------
(* The sharings of a session.                                              *)

LEMMA SharingFacts ==
  ASSUME NEW f \in Sharings
  PROVE  /\ N \in Nat \ {0} /\ f \in [1 .. N -> Int]
         /\ \A p \in Parties : f[p] \in Int /\ f[p] \in Residues
         /\ AddShares(f) \in Residues /\ AddShares(f) \in Int
         /\ ReconstructSecret(f) = AddShares(f)
<1>1. N \in Nat \ {0} /\ f \in [1 .. N -> Int]
  BY SharingAssumption, ResOfResidue DEF Sharings, Parties
<1>2. AddShares(f) \in Residues
  BY <1>1, TotalsType
<1> QED BY <1>1, <1>2, ResOfResidue DEF Sharings, Parties, ReconstructSecret

\* (AdditiveSecretSharing.cpp:45-66)  generateShares makes a sharing of its
\* secret, whatever it draws.
THEOREM GeneratedSharesAddUp ==
  ASSUME NEW s \in Residues, NEW d \in [1 .. N - 1 -> Residues]
  PROVE  /\ GenerateShares(s, d) \in Sharings
         /\ ReconstructSecret(GenerateShares(s, d)) = s
<1> DEFINE g == GenerateShares(s, d)
           D == PartialSums(d)
<1>1. N \in Nat \ {0} /\ N - 1 \in Nat /\ s \in Int /\ Res(s) = s
  BY SharingAssumption, ResOfResidue
<1>2. d \in [1 .. N - 1 -> Int]
  BY ResOfResidue
<1>3. /\ D[0] = 0 /\ \A k \in 1 .. N - 1 : D[k] = Res(D[k - 1] + d[k])
      /\ \A k \in 0 .. N - 1 : D[k] \in Residues
      /\ AddShares(d) = D[N - 1]
  BY <1>1, <1>2, TotalsStep, TotalsType
<1>4. \A k \in 0 .. N - 1 : D[k] \in Int /\ Res(D[k]) = D[k]
  BY <1>3, ResOfResidue
<1> HIDE DEF D
<1> DEFINE last == s - D[N - 1]
<1>5. D[N - 1] \in Int /\ last \in Int
  BY <1>1, <1>4
<1>6. Res(last) \in Residues /\ Res(last) \in Int
  BY <1>5, ResType
<1>7. g = [p \in 1 .. N |-> IF p < N THEN d[p] ELSE Res(last)]
  BY <1>3 DEF GenerateShares, Parties, Res
<1> HIDE DEF last, g
<1>8. g \in Sharings
  BY <1>1, <1>6, <1>7 DEF Sharings, Parties
<1> DEFINE t == [k \in 0 .. N |-> IF k < N THEN D[k] ELSE s]
<1>9. t \in [0 .. N -> Int] /\ Res(t[0]) = 0 /\ t[N] = s
  BY <1>1, <1>3, <1>4, ResZero
<1>10. ASSUME NEW k \in 1 .. N PROVE Res(t[k]) = Res(t[k - 1] + g[k])
  <2>1. CASE k < N
    <3>1. t[k] = D[k] /\ t[k - 1] = D[k - 1] /\ g[k] = d[k] /\ k \in 1 .. N - 1
      BY <1>1, <1>7, <2>1
    <3> HIDE DEF t
    <3>2. Res(t[k]) = D[k] /\ D[k] = Res(D[k - 1] + d[k])
      BY <1>3, <1>4, <3>1
    <3> QED BY <3>1, <3>2
  <2>2. CASE k = N
    <3>1. t[k] = s /\ t[k - 1] = D[N - 1] /\ g[k] = Res(last)
      BY <1>1, <1>7, <2>2
    <3> HIDE DEF t
    <3>2. Res(Res(last) + D[N - 1]) = Res(last + D[N - 1])
      BY <1>5, ResAdd
    <3>3. last + D[N - 1] = s /\ Res(last) + D[N - 1] = D[N - 1] + Res(last)
      BY <1>1, <1>5, <1>6 DEF last
    <3> QED BY <3>1, <3>2, <3>3
  <2> QED BY <1>1, <2>1, <2>2
<1> HIDE DEF t
<1>11. g \in [1 .. N -> Int]
  BY <1>8, SharingFacts
<1>12. AddShares(g) = Res(t[N])
  BY <1>1, <1>9, <1>10, <1>11, SumByTotals
<1> QED BY <1>1, <1>8, <1>9, <1>12 DEF g, ReconstructSecret

LEMMA GeneratedMacsAddUp ==
  ASSUME NEW s \in Residues, NEW d \in [1 .. N - 1 -> Residues]
  PROVE  /\ GenerateMacShares(s, d) \in Sharings
         /\ ReconstructSecret(GenerateMacShares(s, d)) = Res(2 * s)
<1>1. s * MacKey = 2 * s /\ 2 * s \in Int
  BY ResOfResidue DEF MacKey
<1>2. GenerateMacShares(s, d) = GenerateShares(Res(2 * s), d)
  BY <1>1 DEF GenerateMacShares, Res
<1>3. Res(2 * s) \in Residues
  BY <1>1, ResType
<1> QED BY <1>2, <1>3, GeneratedSharesAddUp

\* The sums that a session depends on.
SecretsShared ==
  ReconstructSecret(share.x) = secret[1] /\ ReconstructSecret(share.y) = secret[2]

TripleShared ==
  /\ ReconstructSecret(triple.c) =
       (ReconstructSecret(triple.a) * ReconstructSecret(triple.b)) % Q
  /\ phase \in {"dealt", "multiplied", "done"} => ReconstructSecret(triple.key) = MacKey

ProductShared ==
  phase \in {"multiplied", "done"} =>
    ReconstructSecret(product.z) = (secret[1] * secret[2]) % Q

ResultsSoFar ==
  /\ phase \notin {"start", "shared"} => result.sum = (secret[1] + secret[2]) % Q
  /\ phase = "done" => result.product = (secret[1] * secret[2]) % Q

\* The sharings of every round add up to what they stand for.
SharingInv ==
  /\ TypeOK
  /\ AssertionsHold
  /\ Authenticated
  /\ SecretsShared
  /\ TripleShared
  /\ ProductShared
  /\ ResultsSoFar

-----------------------------------------------------------------------------
LEMMA InitSharingInv == Init => SharingInv
<1> SUFFICES ASSUME Init PROVE SharingInv
  OBVIOUS
<1>1. None \in Sharings /\ ReconstructSecret(None) = 0
  BY SumZero DEF ReconstructSecret
<1>2. 0 \in Residues /\ 0 % Q = 0
  BY ResZero DEF Res
<1>3. (MacKey * 0) % Q = 0 /\ (0 * 0) % Q = 0
  BY <1>2 DEF MacKey
<1>4. TypeOK
  BY <1>1, <1>2 DEF Init, TypeOK
<1>5. Authenticated
  BY <1>1, <1>3 DEF Init, Authenticated
<1>6. SecretsShared /\ TripleShared
  BY <1>1, <1>3 DEF Init, SecretsShared, TripleShared
<1> QED BY <1>4, <1>5, <1>6 DEF Init, SharingInv, AssertionsHold, ProductShared, ResultsSoFar

LEMMA ShareSecretsKeeps == SharingInv /\ ShareSecrets => SharingInv'
<1> SUFFICES ASSUME SharingInv, ShareSecrets PROVE SharingInv'
  OBVIOUS
<1> USE DEF ShareSecrets
<1> PICK v \in Locals :
      /\ secret' = <<v % Q, (v + 1) % Q>>
      /\ share' \in {[x  |-> GenerateShares(v % Q, d[1]),
                       y  |-> GenerateShares((v + 1) % Q, d[2]),
                       mx |-> GenerateMacShares(v % Q, d[3]),
                       my |-> GenerateMacShares((v + 1) % Q, d[4])] : d \in [1 .. 4 -> Draws]}
  OBVIOUS
<1> DEFINE x == v % Q
           y == (v + 1) % Q
<1>1. PICK d \in [1 .. 4 -> Draws] :
        share' = [x  |-> GenerateShares(x, d[1]),  y  |-> GenerateShares(y, d[2]),
                  mx |-> GenerateMacShares(x, d[3]), my |-> GenerateMacShares(y, d[4])]
  OBVIOUS
<1>2. \A i \in 1 .. 4 : d[i] \in [1 .. N - 1 -> Residues]
  BY SharingAssumption
<1>3. x \in Residues /\ y \in Residues
  <2>1. v \in Int /\ v + 1 \in Int
    BY SharingAssumption
  <2> QED BY <2>1, ResType DEF Res
<1>4. secret' = <<x, y>>
  OBVIOUS
<1> HIDE DEF x, y
<1>5. /\ share'.x \in Sharings /\ ReconstructSecret(share'.x) = x
      /\ share'.y \in Sharings /\ ReconstructSecret(share'.y) = y
  BY <1>1, <1>2, <1>3, GeneratedSharesAddUp
<1>6. /\ share'.mx \in Sharings /\ ReconstructSecret(share'.mx) = Res(2 * x)
      /\ share'.my \in Sharings /\ ReconstructSecret(share'.my) = Res(2 * y)
  BY <1>1, <1>2, <1>3, GeneratedMacsAddUp
<1>7. TypeOK'
  BY <1>1, <1>3, <1>4, <1>5, <1>6 DEF TypeOK, SharingInv
<1>8. Authenticated'
  BY <1>5, <1>6 DEF Authenticated, SharingInv, MacKey, Res
<1>9. SecretsShared'
  BY <1>4, <1>5 DEF SecretsShared
<1>10. TripleShared'
  BY DEF TripleShared, SharingInv
<1> QED BY <1>7, <1>8, <1>9, <1>10
        DEF SharingInv, AssertionsHold, ProductShared, ResultsSoFar

\* Adding the shares party by party adds the sums.
LEMMA PairwiseSum ==
  ASSUME NEW f \in Sharings, NEW g \in Sharings
  PROVE  ReconstructSecret([p \in Parties |-> AddShares(<<f[p], g[p]>>)])
           = Res(ReconstructSecret(f) + ReconstructSecret(g))
<1> DEFINE h == [p \in Parties |-> AddShares(<<f[p], g[p]>>)]
<1>1. ASSUME NEW p \in Parties
      PROVE  h[p] \in Residues /\ Res(h[p]) = Res(f[p] + g[p])
  <2>1. f[p] \in Residues /\ g[p] \in Residues /\ f[p] + g[p] \in Int
    BY SharingFacts
  <2>2. h[p] = Res(f[p] + g[p])
    BY <2>1, SumOfTwo
  <2> QED BY <2>1, <2>2, ResType, ResOfResidue
<1>2. h \in Sharings
  BY <1>1 DEF Sharings
<1> HIDE DEF h
<1>3. AddShares(h) = Res(AddShares(f) + AddShares(g))
  <2>1. \A p \in 1 .. N : Res(h[p]) = Res(f[p] + g[p])
    BY <1>1 DEF Parties
  <2> QED BY <1>2, <2>1, SharingFacts, SumPlus
<1> QED BY <1>2, <1>3, SharingFacts DEF h

LEMMA SumKeeps == SharingInv /\ Sum => SharingInv'
<1> SUFFICES ASSUME SharingInv, Sum PROVE SharingInv'
  OBVIOUS
<1> USE DEF SharingInv
<1> DEFINE S == ReconstructSecret([p \in Parties |-> AddShares(<<share.x[p], share.y[p]>>)])
           M == ReconstructSecret([p \in Parties |-> AddShares(<<share.mx[p], share.my[p]>>)])
           x == secret[1]
           y == secret[2]
<1>1. /\ share.x \in Sharings /\ share.y \in Sharings
      /\ share.mx \in Sharings /\ share.my \in Sharings
      /\ x \in Residues /\ y \in Residues /\ x \in Int /\ y \in Int
  BY ResOfResidue DEF TypeOK
<1>2. S = Res(x + y)
  BY <1>1, PairwiseSum DEF SecretsShared
<1>3. M = Res(Res(2 * x) + Res(2 * y))
  <2>1. ReconstructSecret(share.mx) = Res(2 * x) /\ ReconstructSecret(share.my) = Res(2 * y)
    BY DEF Authenticated, SecretsShared, MacKey, Res
  <2> QED BY <1>1, <2>1, PairwiseSum
<1>4. result' = [result EXCEPT !.sum = S] /\ UNCHANGED <<secret, share, triple, product>>
  BY DEF Sum
<1>5. phase = "shared" /\ phase' = IF (MacKey * S) % Q = M THEN "summed" ELSE "aborted"
  BY DEF Sum
<1> HIDE DEF S, M, x, y
<1>6. Res(2 * S) = M
  <2>1. x + y \in Int /\ 2 * x \in Int /\ 2 * y \in Int
    BY <1>1
  <2>2. Res(2 * Res(x + y)) = Res(2 * (x + y))
    BY <2>1, ResTwice
  <2> DEFINE u == 2 * x
             w == 2 * y
  <2>3. 2 * (x + y) = u + w /\ u \in Int /\ w \in Int
    BY <1>1
  <2> HIDE DEF u, w
  <2>4. Res(Res(u) + Res(w)) = Res(u + w)
    BY <2>3, ResBoth
  <2> QED BY <1>2, <1>3, <2>2, <2>3, <2>4 DEF u, w
<1>7. S \in Residues
  BY <1>1, <1>2, ResType
<1>8. phase' = "summed"
  BY <1>5, <1>6 DEF MacKey, Res
<1>9. result'.sum = S /\ result'.product = result.product
      /\ result' \in [sum: Residues, product: Residues]
  BY <1>4, <1>7 DEF TypeOK
<1>10. TypeOK'
  BY <1>4, <1>8, <1>9 DEF TypeOK
<1>11. Authenticated' /\ SecretsShared' /\ TripleShared'
  BY <1>4, <1>8 DEF Authenticated, SecretsShared, TripleShared
<1>12. ResultsSoFar'
  BY <1>2, <1>4, <1>8, <1>9 DEF ResultsSoFar, Res, x, y
<1> QED BY <1>8, <1>10, <1>11, <1>12 DEF AssertionsHold, ProductShared

LEMMA DistributeBeaverTripleKeeps == SharingInv /\ DistributeBeaverTriple => SharingInv'
<1> SUFFICES ASSUME SharingInv, DistributeBeaverTriple PROVE SharingInv'
  OBVIOUS
<1> USE DEF DistributeBeaverTriple
<1> PICK a \in Coins, b \in Coins : triple' \in Deals(a, b, (a * b) % Q)
  OBVIOUS
<1> DEFINE c == (a * b) % Q
<1>1. a \in Residues /\ b \in Residues /\ a \in Int /\ b \in Int
  BY SharingAssumption, ResOfResidue
<1>2. c \in Residues /\ c = Res(a * b)
  <2>1. a * b \in Int
    BY <1>1
  <2> QED BY <2>1, ResType DEF Res
<1>3. triple' \in Deals(a, b, c)
  OBVIOUS
<1> HIDE DEF c
<1>4. PICK d \in [1 .. 7 -> Draws] :
        triple' = [a   |-> GenerateShares(a, d[1]),
                   b   |-> GenerateShares(b, d[2]),
                   c   |-> GenerateShares(c, d[3]),
                   ma  |-> GenerateMacShares(a, d[4]),
                   mb  |-> GenerateMacShares(b, d[5]),
                   mc  |-> GenerateMacShares(c, d[6]),
                   key |-> GenerateShares(MacKey, d[7])]
  BY <1>3 DEF Deals
<1>5. \A i \in 1 .. 7 : d[i] \in [1 .. N - 1 -> Residues]
  BY SharingAssumption
<1>6. MacKey \in Residues
  BY QFacts DEF MacKey, Residues
<1>7. /\ triple'.a \in Sharings /\ ReconstructSecret(triple'.a) = a
      /\ triple'.b \in Sharings /\ ReconstructSecret(triple'.b) = b
      /\ triple'.c \in Sharings /\ ReconstructSecret(triple'.c) = c
      /\ triple'.key \in Sharings /\ ReconstructSecret(triple'.key) = MacKey
  BY <1>1, <1>2, <1>4, <1>5, <1>6, GeneratedSharesAddUp
<1>8. /\ triple'.ma \in Sharings /\ ReconstructSecret(triple'.ma) = Res(2 * a)
      /\ triple'.mb \in Sharings /\ ReconstructSecret(triple'.mb) = Res(2 * b)
      /\ triple'.mc \in Sharings /\ ReconstructSecret(triple'.mc) = Res(2 * c)
  BY <1>1, <1>2, <1>4, <1>5, GeneratedMacsAddUp
<1>9. TypeOK'
  BY <1>4, <1>7, <1>8 DEF TypeOK, SharingInv
<1>10. Authenticated'
  BY <1>7, <1>8 DEF Authenticated, SharingInv, MacKey, Res
<1>11. SecretsShared'
  BY DEF SecretsShared, SharingInv
<1>12. TripleShared'
  BY <1>2, <1>7 DEF TripleShared, Res
<1> QED BY <1>9, <1>10, <1>11, <1>12
        DEF SharingInv, AssertionsHold, ProductShared, ResultsSoFar

-----------------------------------------------------------------------------
(* The multiplication.  The sums of the sharings, for short.               *)

X == ReconstructSecret(share.x)
Y == ReconstructSecret(share.y)
A == ReconstructSecret(triple.a)
B == ReconstructSecret(triple.b)
C == ReconstructSecret(triple.c)

LEMMA OpenedSums ==
  ASSUME TypeOK
  PROVE  /\ X \in Residues /\ Y \in Residues /\ X \in Int /\ Y \in Int
         /\ A \in Residues /\ B \in Residues /\ A \in Int /\ B \in Int
         /\ C \in Residues /\ C \in Int
BY SharingFacts, ResOfResidue DEF TypeOK, X, Y, A, B, C

\* What is opened is the difference of the sums.
LEMMA PairwiseDifference ==
  ASSUME NEW f \in Sharings, NEW g \in Sharings
  PROVE  AddShares([p \in Parties |-> (f[p] - g[p]) % Q])
           = Res(ReconstructSecret(f) - ReconstructSecret(g))
<1> DEFINE h == [p \in Parties |-> (f[p] - g[p]) % Q]
<1>1. ASSUME NEW p \in Parties
      PROVE  /\ f[p] \in Int /\ g[p] \in Int
             /\ h[p] \in Int /\ Res(h[p]) = Res(f[p] - g[p])
  <2>1. f[p] \in Int /\ g[p] \in Int /\ f[p] - g[p] \in Int
    BY SharingFacts
  <2>2. h[p] = Res(f[p] - g[p])
    BY DEF Res
  <2> QED BY <2>1, <2>2, ResType, ResOfResidue
<1>2. h \in [1 .. N -> Int]
  BY <1>1 DEF Parties
<1> HIDE DEF h
<1>3. IsCombination(h, N, 1, f, -1, g)
  <2>1. \A p \in 1 .. N : 1 * f[p] + (-1) * g[p] = f[p] - g[p]
    BY <1>1 DEF Parties
  <2> QED BY <1>1, <1>2, <2>1, SharingFacts DEF IsCombination, Parties
<1>4. AddShares(h) = Res(1 * AddShares(f) + (-1) * AddShares(g))
  BY <1>3, SumLinear
<1>5. 1 * AddShares(f) + (-1) * AddShares(g) = AddShares(f) - AddShares(g)
  BY SharingFacts
<1> QED BY <1>4, <1>5, SharingFacts DEF h

LEMMA Opened ==
  ASSUME TypeOK
  PROVE  /\ Epsilon = Res(X - A) /\ Epsilon \in Residues /\ Epsilon \in Int
         /\ Rho = Res(Y - B) /\ Rho \in Residues /\ Rho \in Int
<1>1. /\ share.x \in Sharings /\ share.y \in Sharings
      /\ triple.a \in Sharings /\ triple.b \in Sharings
  BY DEF TypeOK
<1>2. Epsilon = Res(X - A) /\ Rho = Res(Y - B)
  BY <1>1, PairwiseDifference DEF Epsilon, Rho, X, A, Y, B
<1>3. X - A \in Int /\ Y - B \in Int
  BY OpenedSums
<1> QED BY <1>2, <1>3, ResType, ResOfResidue

TripleFacts ==
  /\ C = Res(A * B)
  /\ ReconstructSecret(triple.ma) = Res(2 * A)
  /\ ReconstructSecret(triple.mb) = Res(2 * B)
  /\ ReconstructSecret(triple.mc) = Res(2 * C)

LEMMA TripleFactsHold == SharingInv => TripleFacts
BY DEF SharingInv, TripleFacts, TripleShared, Authenticated, A, B, C, Res, MacKey

\* The shares of the product add up to the product.
LEMMA ProductAddsUp ==
  ASSUME SharingInv
  PROVE  LET z == [p \in Parties |-> ProductShare(p)]
         IN  /\ z \in Sharings
             /\ ReconstructSecret(z) = Res(C + A * Rho + B * Epsilon + Epsilon * Rho)
             /\ ReconstructSecret(z) = Res(X * Y)
<1> DEFINE z == [p \in Parties |-> ProductShare(p)]
           E == Epsilon
           R == Rho
           alone == [p \in Parties |-> IF p = 1 THEN E * R ELSE 0]
<1>1. TypeOK
  BY DEF SharingInv
<1>2. /\ E = Res(X - A) /\ E \in Int /\ R = Res(Y - B) /\ R \in Int
      /\ X \in Int /\ Y \in Int /\ A \in Int /\ B \in Int /\ C \in Int
  BY <1>1, Opened, OpenedSums
<1>3. triple.a \in Sharings /\ triple.b \in Sharings /\ triple.c \in Sharings
  BY <1>1 DEF TypeOK
<1>4. /\ N \in Nat \ {0}
      /\ triple.a \in [1 .. N -> Int] /\ triple.b \in [1 .. N -> Int]
      /\ triple.c \in [1 .. N -> Int]
  BY <1>3, SharingFacts
<1>5. /\ \A p \in Parties : z[p] = (triple.c[p] + triple.a[p] * R + triple.b[p] * E
                                       + (IF p = 1 THEN E * R ELSE 0)) % Q
  BY DEF ProductShare
<1> HIDE DEF E, R, z
<1>6. E * R \in Int
  BY <1>2
<1>7. alone \in [1 .. N -> Int] /\ AddShares(alone) = Res(E * R)
  <2>1. IsPoint(alone, N, 1, E * R)
    BY <1>4, <1>6 DEF Parties, IsPoint
  <2> QED BY <2>1, SumPoint
<1>8. ASSUME NEW p \in Parties
      PROVE  /\ z[p] \in Residues
             /\ Res(z[p]) = Res((1 * triple.c[p] + R * triple.a[p])
                                 + (E * triple.b[p] + 1 * alone[p]))
  <2> DEFINE i == (1 * triple.c[p] + R * triple.a[p]) + (E * triple.b[p] + 1 * alone[p])
  <2>1. triple.a[p] \in Int /\ triple.b[p] \in Int /\ triple.c[p] \in Int
    BY <1>3, SharingFacts
  <2>2. alone[p] \in Int /\ alone[p] = IF p = 1 THEN E * R ELSE 0
    BY <1>6
  <2> HIDE DEF alone
  <2>3. i = triple.c[p] + triple.a[p] * R + triple.b[p] * E + alone[p] /\ i \in Int
    BY <1>2, <2>1, <2>2
  <2>4. z[p] = Res(i)
    BY <1>5, <2>2, <2>3 DEF Res
  <2> HIDE DEF i
  <2>5. Res(i) \in Residues /\ Res(Res(i)) = Res(i)
    BY <2>3, ResType, ResOfResidue
  <2> QED BY <2>4, <2>5 DEF i
<1> HIDE DEF alone
<1>9. z \in Sharings
  BY <1>8 DEF Sharings, z
<1>10. AddShares(z) = Res((1 * AddShares(triple.c) + R * AddShares(triple.a))
                           + (E * AddShares(triple.b) + 1 * AddShares(alone)))
  <2>1. z \in [1 .. N -> Int] /\ 1 \in Int
    BY <1>9, SharingFacts
  <2>2. \A p \in 1 .. N : Res(z[p]) = Res((1 * triple.c[p] + R * triple.a[p])
                                            + (E * triple.b[p] + 1 * alone[p]))
    BY <1>8 DEF Parties
  <2>3. IsSumOfFour(z, N, 1, triple.c, R, triple.a, E, triple.b, 1, alone)
    BY <1>2, <1>4, <1>7, <2>1, <2>2 DEF IsSumOfFour
  <2> QED BY <2>3, SumFour
<1>11. ReconstructSecret(z) = Res((1 * C + R * A) + (E * B + 1 * Res(E * R)))
  BY <1>3, <1>7, <1>9, <1>10, SharingFacts DEF A, B, C
<1>12. ReconstructSecret(z) = Res(C + A * R + B * E + E * R)
  <2> DEFINE er == E * R
             w == C + A * R + B * E
  <2>1. er \in Int /\ w \in Int /\ Res(er) \in Int
    BY <1>2, <1>6, ResType
  <2>2. (1 * C + R * A) + (E * B + 1 * Res(er)) = Res(er) + w
    BY <1>2, <2>1
  <2>3. C + A * R + B * E + E * R = er + w
    BY <1>2
  <2> HIDE DEF er, w
  <2>4. Res(Res(er) + w) = Res(er + w)
    BY <2>1, ResAdd
  <2> QED BY <1>11, <2>2, <2>3, <2>4 DEF er
<1>13. Res(C + A * R + B * E + E * R) = Res(X * Y)
  BY <1>2, TripleFactsHold, BeaverFormula DEF TripleFacts
<1> QED BY <1>9, <1>12, <1>13 DEF z, E, R

\* The shares of the product's MAC add up to twice the product.
LEMMA ZmacAddsUp ==
  ASSUME SharingInv, ReconstructSecret(triple.key) = MacKey
  PROVE  LET m == [p \in Parties |-> GenerateZmac(p)]
         IN  /\ m \in Sharings
             /\ ReconstructSecret(m) =
                  Res(2 * Res(C + A * Rho + B * Epsilon + Epsilon * Rho))
<1> DEFINE m == [p \in Parties |-> GenerateZmac(p)]
           E == Epsilon
           R == Rho
           er == E * R
<1>1. TypeOK
  BY DEF SharingInv
<1>2. E \in Int /\ R \in Int /\ A \in Int /\ B \in Int /\ C \in Int
  BY <1>1, Opened, OpenedSums
<1>3. /\ triple.ma \in Sharings /\ triple.mb \in Sharings
      /\ triple.mc \in Sharings /\ triple.key \in Sharings
  BY <1>1 DEF TypeOK
<1>4. /\ N \in Nat \ {0}
      /\ triple.ma \in [1 .. N -> Int] /\ triple.mb \in [1 .. N -> Int]
      /\ triple.mc \in [1 .. N -> Int] /\ triple.key \in [1 .. N -> Int]
  BY <1>3, SharingFacts
<1>5. \A p \in Parties : m[p] = (triple.mc[p] + E * triple.mb[p] + R * triple.ma[p]
                                     + E * R * triple.key[p]) % Q
  BY DEF GenerateZmac
<1> HIDE DEF E, R, m
<1>6. er \in Int
  BY <1>2
<1>7. ASSUME NEW p \in Parties
      PROVE  /\ m[p] \in Residues
             /\ Res(m[p]) = Res((1 * triple.mc[p] + E * triple.mb[p])
                                 + (R * triple.ma[p] + er * triple.key[p]))
  <2> DEFINE i == (1 * triple.mc[p] + E * triple.mb[p]) + (R * triple.ma[p] + er * triple.key[p])
  <2>1. /\ triple.ma[p] \in Int /\ triple.mb[p] \in Int
        /\ triple.mc[p] \in Int /\ triple.key[p] \in Int
    BY <1>3, SharingFacts
  <2>2. /\ i = triple.mc[p] + E * triple.mb[p] + R * triple.ma[p] + E * R * triple.key[p]
        /\ i \in Int
    BY <1>2, <2>1
  <2>3. m[p] = Res(i)
    BY <1>5, <2>2 DEF Res
  <2> HIDE DEF i
  <2>4. Res(i) \in Residues /\ Res(Res(i)) = Res(i)
    BY <2>2, ResType, ResOfResidue
  <2> QED BY <2>3, <2>4 DEF i
<1> HIDE DEF er
<1>8. m \in Sharings
  BY <1>7 DEF Sharings, m
<1>9. AddShares(m) = Res((1 * AddShares(triple.mc) + E * AddShares(triple.mb))
                          + (R * AddShares(triple.ma) + er * AddShares(triple.key)))
  <2>1. m \in [1 .. N -> Int] /\ 1 \in Int
    BY <1>8, SharingFacts
  <2>2. \A p \in 1 .. N : Res(m[p]) = Res((1 * triple.mc[p] + E * triple.mb[p])
                                            + (R * triple.ma[p] + er * triple.key[p]))
    BY <1>7 DEF Parties
  <2>3. IsSumOfFour(m, N, 1, triple.mc, E, triple.mb, R, triple.ma, er, triple.key)
    BY <1>2, <1>4, <1>6, <2>1, <2>2 DEF IsSumOfFour
  <2> QED BY <2>3, SumFour
<1>10. ReconstructSecret(m) = Res((1 * Res(2 * C) + E * Res(2 * B)) + (R * Res(2 * A) + er * 2))
  BY <1>3, <1>8, <1>9, TripleFactsHold, SharingFacts DEF TripleFacts, MacKey
<1>11. (1 * Res(2 * C) + E * Res(2 * B)) + (R * Res(2 * A) + er * 2)
         = Res(2 * C) + E * Res(2 * B) + R * Res(2 * A) + (E * R) * 2
  <2>1. Res(2 * A) \in Int /\ Res(2 * B) \in Int /\ Res(2 * C) \in Int
    BY <1>2, ResTwice, ResType
  <2> QED BY <1>2, <2>1 DEF er
<1>12. ReconstructSecret(m) = Res(2 * Res(C + A * R + B * E + E * R))
  <2>1. MacSum(A, B, C, E, R) = Res(2 * Res(C + A * R + B * E + E * R))
    BY <1>2, MacFormula
  <2> QED BY <1>10, <1>11, <2>1 DEF MacSum
<1> QED BY <1>8, <1>12 DEF m, E, R

\* The shares of generateBatchZeroShare add up to zero.
LEMMA ZeroAddsUp ==
  ASSUME SharingInv, ReconstructSecret(triple.key) = MacKey
  PROVE  LET s == [p \in Parties |-> GenerateBatchZeroShare(p)]
         IN  s \in Sharings /\ ReconstructSecret(s) = 0
<1> DEFINE s == [p \in Parties |-> GenerateBatchZeroShare(p)]
           E == Epsilon
           R == Rho
           e == RandomEps
           r == RandomRho
           K == e * E + r * R
           ne == - e
           nr == - r
           nK == - K
           four == [p \in Parties |-> (e * share.mx[p] + ne * triple.ma[p])
                                      + (r * share.my[p] + nr * triple.mb[p])]
<1>1. TypeOK
  BY DEF SharingInv
<1>2. /\ E \in Int /\ R \in Int /\ A \in Int /\ B \in Int /\ X \in Int /\ Y \in Int
      /\ E = Res(X - A) /\ R = Res(Y - B)
  BY <1>1, Opened, OpenedSums
<1>3. /\ triple.ma \in Sharings /\ triple.mb \in Sharings
      /\ share.mx \in Sharings /\ share.my \in Sharings /\ triple.key \in Sharings
  BY <1>1 DEF TypeOK
<1>4. /\ N \in Nat \ {0}
      /\ triple.ma \in [1 .. N -> Int] /\ triple.mb \in [1 .. N -> Int]
      /\ share.mx \in [1 .. N -> Int] /\ share.my \in [1 .. N -> Int]
      /\ triple.key \in [1 .. N -> Int]
  BY <1>3, SharingFacts
<1>5. \A p \in Parties : s[p] = (e * (share.mx[p] - triple.ma[p])
                                     + r * (share.my[p] - triple.mb[p])
                                     - K * triple.key[p]) % Q
  BY DEF GenerateBatchZeroShare
<1>6. e \in Int /\ r \in Int
  BY SharingAssumption
<1> HIDE DEF E, R, e, r, s
<1>7. ne \in Int /\ nr \in Int /\ K \in Int /\ nK \in Int
  BY <1>2, <1>6
<1>8. ASSUME NEW p \in Parties
      PROVE  /\ four[p] \in Int
             /\ four[p] = (e * share.mx[p] + ne * triple.ma[p])
                             + (r * share.my[p] + nr * triple.mb[p])
             /\ s[p] \in Residues
             /\ Res(s[p]) = Res(1 * four[p] + nK * triple.key[p])
  <2>1. /\ triple.ma[p] \in Int /\ triple.mb[p] \in Int
        /\ share.mx[p] \in Int /\ share.my[p] \in Int /\ triple.key[p] \in Int
    BY <1>3, SharingFacts
  <2> DEFINE i == e * (share.mx[p] - triple.ma[p]) + r * (share.my[p] - triple.mb[p])
                    - K * triple.key[p]
             f == (e * share.mx[p] + ne * triple.ma[p]) + (r * share.my[p] + nr * triple.mb[p])
  <2>2. four[p] = f /\ f \in Int
    BY <1>6, <1>7, <2>1
  <2>3. s[p] = Res(i)
    BY <1>5 DEF Res
  <2>4. e * (share.mx[p] - triple.ma[p]) = e * share.mx[p] + ne * triple.ma[p]
    BY <1>6, <2>1
  <2>5. r * (share.my[p] - triple.mb[p]) = r * share.my[p] + nr * triple.mb[p]
    BY <1>6, <2>1
  <2> HIDE DEF K
  <2>6. K * triple.key[p] \in Int /\ nK * triple.key[p] = - (K * triple.key[p])
    BY <1>7, <2>1
  <2> HIDE DEF nK
  <2>7. i = f - K * triple.key[p]
    BY <1>6, <1>7, <2>1, <2>4, <2>5, <2>6
  <2>8. i \in Int /\ i = 1 * f + nK * triple.key[p]
    BY <2>2, <2>6, <2>7
  <2> HIDE DEF i, f, four
  <2>9. Res(i) \in Residues /\ Res(Res(i)) = Res(i)
    BY <2>8, ResType, ResOfResidue
  <2> QED BY <2>2, <2>3, <2>8, <2>9 DEF f
<1> HIDE DEF K, nK, ne, nr
<1>9. s \in Sharings /\ four \in [1 .. N -> Int]
  <2>1. four \in [1 .. N -> Int]
    BY <1>8 DEF Parties
  <2>2. s \in Sharings
    BY <1>8 DEF Sharings, s
  <2> QED BY <2>1, <2>2
<1> HIDE DEF four
<1> DEFINE F == (e * AddShares(share.mx) + ne * AddShares(triple.ma))
                  + (r * AddShares(share.my) + nr * AddShares(triple.mb))
<1>10. AddShares(four) = Res(F)
  <2>1. IsSumOfFour(four, N, e, share.mx, ne, triple.ma, r, share.my, nr, triple.mb)
    BY <1>4, <1>6, <1>7, <1>8, <1>9 DEF IsSumOfFour, Parties
  <2> QED BY <2>1, SumFour
<1>11. AddShares(s) = Res(1 * AddShares(four) + nK * AddShares(triple.key))
  <2>1. s \in [1 .. N -> Int] /\ 1 \in Int
    BY <1>9, SharingFacts
  <2>2. IsCombination(s, N, 1, four, nK, triple.key)
    BY <1>4, <1>7, <1>8, <1>9, <2>1 DEF IsCombination, Parties
  <2> QED BY <2>2, SumLinear
<1>12. /\ AddShares(share.mx) = Res(2 * X) /\ AddShares(triple.ma) = Res(2 * A)
       /\ AddShares(share.my) = Res(2 * Y) /\ AddShares(triple.mb) = Res(2 * B)
       /\ AddShares(triple.key) = 2
  BY DEF SharingInv, Authenticated, ReconstructSecret, X, Y, A, B, MacKey, Res
<1>13. Res(F) = Res(F) /\ F \in Int
  <2>1. /\ Res(2 * X) \in Int /\ Res(2 * A) \in Int
        /\ Res(2 * Y) \in Int /\ Res(2 * B) \in Int
    BY <1>2, ResTwice, ResType
  <2> QED BY <1>6, <1>7, <1>12, <2>1
<1>14. AddShares(s) = Res(F + nK * 2)
  <2>1. Res(F) \in Int /\ nK * 2 \in Int
    BY <1>7, <1>13, ResType
  <2>2. 1 * Res(F) = Res(F)
    BY <2>1
  <2> DEFINE k == nK * 2
  <2> HIDE DEF F, k
  <2>3. Res(Res(F) + k) = Res(F + k)
    BY <1>13, <2>1, ResAdd DEF k
  <2> QED BY <1>10, <1>11, <1>12, <2>2, <2>3 DEF k
<1>15. F + nK * 2 = (e * (Res(2 * X) - Res(2 * A)) + r * (Res(2 * Y) - Res(2 * B)))
                      - (e * Res(X - A) + r * Res(Y - B)) * 2
  <2>1. /\ Res(2 * X) \in Int /\ Res(2 * A) \in Int
        /\ Res(2 * Y) \in Int /\ Res(2 * B) \in Int
    BY <1>2, ResTwice, ResType
  <2> QED BY <1>2, <1>6, <1>7, <1>12, <2>1 DEF K, nK, ne, nr
<1>16. ZeroSum(X, Y, A, B, e, r) = 0
  BY <1>2, <1>6, ZeroFormula
<1>17. AddShares(s) = 0
  BY <1>14, <1>15, <1>16 DEF ZeroSum
<1> QED BY <1>9, <1>17 DEF s, ReconstructSecret

-----------------------------------------------------------------------------
LEMMA MultiplyKeeps == SharingInv /\ Multiply => SharingInv'
<1> SUFFICES ASSUME SharingInv, Multiply PROVE SharingInv'
  OBVIOUS
<1> DEFINE z == [p \in Parties |-> ProductShare(p)]
           m == [p \in Parties |-> GenerateZmac(p)]
           w == Res(C + A * Rho + B * Epsilon + Epsilon * Rho)
<1>1. /\ phase = "dealt" /\ phase' = "multiplied"
      /\ product' = [product EXCEPT !.z = z, !.mac = m]
      /\ UNCHANGED <<secret, share, triple, result>>
  BY DEF Multiply
<1>2. ReconstructSecret(triple.key) = MacKey
  BY <1>1 DEF SharingInv, TripleShared
<1>3. /\ z \in Sharings /\ ReconstructSecret(z) = w
      /\ ReconstructSecret(z) = Res(X * Y)
  BY ProductAddsUp
<1>4. m \in Sharings /\ ReconstructSecret(m) = Res(2 * w)
  BY <1>2, ZmacAddsUp
<1>5. X = secret[1] /\ Y = secret[2]
  BY DEF SharingInv, SecretsShared, X, Y
<1> HIDE DEF z, m, w
<1>6. product'.z = z /\ product'.mac = m /\ product'.sigma = product.sigma
      /\ product' \in [z: Sharings, mac: Sharings, sigma: Sharings]
  BY <1>1, <1>3, <1>4 DEF SharingInv, TypeOK
<1>7. TypeOK'
  BY <1>1, <1>6 DEF SharingInv, TypeOK
<1>8. Authenticated'
  BY <1>1, <1>3, <1>4, <1>6 DEF SharingInv, Authenticated, MacKey, Res
<1>9. ProductShared'
  BY <1>1, <1>3, <1>5, <1>6 DEF ProductShared, Res
<1>10. SecretsShared' /\ TripleShared' /\ ResultsSoFar'
  BY <1>1 DEF SharingInv, SecretsShared, TripleShared, ResultsSoFar
<1> QED BY <1>1, <1>7, <1>8, <1>9, <1>10 DEF SharingInv, AssertionsHold

LEMMA FetchKeeps == SharingInv /\ Fetch => SharingInv'
<1> SUFFICES ASSUME SharingInv, Fetch PROVE SharingInv'
  OBVIOUS
<1> DEFINE s == [p \in Parties |-> GenerateBatchZeroShare(p)]
           z == ReconstructSecret(product.z)
<1>1. /\ phase = "multiplied" /\ product' = [product EXCEPT !.sigma = s]
      /\ result' = [result EXCEPT !.product = z]
      /\ UNCHANGED <<secret, share, triple>>
  BY DEF Fetch
<1>2. phase' = IF /\ (z * MacKey) % Q = ReconstructSecret(product.mac)
                  /\ ReconstructSecret(product'.sigma) = 0
               THEN "done" ELSE "aborted"
  BY DEF Fetch
<1>3. ReconstructSecret(triple.key) = MacKey
  BY <1>1 DEF SharingInv, TripleShared
<1>4. s \in Sharings /\ ReconstructSecret(s) = 0
  BY <1>3, ZeroAddsUp
<1>5. product.z \in Sharings
  BY DEF SharingInv, TypeOK
<1>6. z \in Residues /\ z \in Int
  BY <1>5, SharingFacts
<1>7. ReconstructSecret(product.mac) = (MacKey * z) % Q
  BY DEF SharingInv, Authenticated
<1>8. z = (secret[1] * secret[2]) % Q
  BY <1>1 DEF SharingInv, ProductShared
<1> HIDE DEF s, z
<1>9. /\ product'.sigma = s /\ product'.z = product.z /\ product'.mac = product.mac
      /\ product' \in [z: Sharings, mac: Sharings, sigma: Sharings]
  BY <1>1, <1>4 DEF SharingInv, TypeOK
<1>10. phase' = "done"
  <2>1. z * MacKey = MacKey * z
    BY <1>6 DEF MacKey
  <2> QED BY <1>2, <1>4, <1>7, <1>9, <2>1
<1>11. result'.product = z /\ result'.sum = result.sum
       /\ result' \in [sum: Residues, product: Residues]
  BY <1>1, <1>6 DEF SharingInv, TypeOK
<1>12. TypeOK'
  BY <1>1, <1>9, <1>10, <1>11 DEF SharingInv, TypeOK
<1>13. Authenticated'
  BY <1>1, <1>9 DEF SharingInv, Authenticated
<1>14. SecretsShared' /\ TripleShared'
  BY <1>1, <1>3 DEF SharingInv, SecretsShared, TripleShared
<1>15. ProductShared'
  BY <1>1, <1>9 DEF SharingInv, ProductShared
<1>16. ResultsSoFar'
  BY <1>1, <1>8, <1>11 DEF SharingInv, ResultsSoFar
<1> QED BY <1>10, <1>12, <1>13, <1>14, <1>15, <1>16 DEF SharingInv, AssertionsHold

LEMMA NextKeeps == SharingInv /\ [Next]_vars => SharingInv'
<1> SUFFICES ASSUME SharingInv, [Next]_vars PROVE SharingInv'
  OBVIOUS
<1>1. CASE UNCHANGED vars
  BY <1>1 DEF vars, SharingInv, TypeOK, AssertionsHold, Authenticated, SecretsShared,
              TripleShared, ProductShared, ResultsSoFar
<1> QED BY <1>1, ShareSecretsKeeps, SumKeeps, DistributeBeaverTripleKeeps,
           MultiplyKeeps, FetchKeeps DEF Next

\* (Party.cpp:85-361, 672-1199)  In every round the sharings add up to the values
\* they stand for.
THEOREM Invariance == Spec => []SharingInv
BY InitSharingInv, NextKeeps, PTL DEF Spec

\* (AdditiveSecretSharing.cpp, Party.cpp:85-361)  Every share, opened value and
\* result stays a residue.
THEOREM TypeCorrect == Spec => []TypeOK
<1>1. SharingInv => TypeOK
  BY DEF SharingInv
<1> QED BY Invariance, <1>1, PTL

\* (Party.cpp:217, 325, 356)  No assertion of the secret holder fails, whatever is
\* drawn: a session that ends, ends with results.
THEOREM NoAbort == Spec => []AssertionsHold
<1>1. SharingInv => AssertionsHold
  BY DEF SharingInv
<1> QED BY Invariance, <1>1, PTL

\* (Party.cpp:690-701, 1183-1199)  In every round each MAC that is shared is MacKey
\* times the value that is shared.
THEOREM MacsAreRight == Spec => []Authenticated
<1>1. SharingInv => Authenticated
  BY DEF SharingInv
<1> QED BY Invariance, <1>1, PTL

\* (Party.cpp:207-210, 354-356, AdditiveSecretSharing.cpp:95-129)  The secret holder
\* prints the sum and the product of its secrets, and the product is the one
\* that multiplyShares makes of the whole values.
THEOREM SessionComputes == Spec => []ResultsAreRight
<1>1. SharingInv => ResultsAreRight
  <2> SUFFICES ASSUME SharingInv, phase = "done" PROVE ResultsAreRight
    BY DEF ResultsAreRight
  <2>1. /\ result.sum = (secret[1] + secret[2]) % Q
        /\ result.product = (secret[1] * secret[2]) % Q
    BY DEF SharingInv, ResultsSoFar
  <2>2. X = secret[1] /\ Y = secret[2]
    BY DEF SharingInv, SecretsShared, X, Y
  <2>3. X \in Int /\ Y \in Int /\ A \in Int /\ B \in Int
    BY OpenedSums DEF SharingInv
  <2> DEFINE d == Res(X - A)
             e == Res(Y - B)
  <2>4. Res(C + A * e + B * d + d * e) = Res(X * Y)
    BY <2>3, TripleFactsHold, BeaverFormula DEF TripleFacts
  <2>5. MultiplyShares(X, Y, A, B, C) = Res(C + A * e + B * d + d * e)
    BY DEF MultiplyShares, Res
  <2>6. result.product = MultiplyShares(X, Y, A, B, C)
    BY <2>1, <2>2, <2>4, <2>5 DEF Res
  <2> QED BY <2>1, <2>2, <2>6 DEF ResultsAreRight, A, B, C
<1> QED BY Invariance, <1>1, PTL

\* (AdditiveSecretSharing.cpp:56-63)  Whatever N - 1 parties hold fits every value.
LEMMA OthersFitEveryValue ==
  ASSUME NEW f \in Sharings, NEW out \in Parties, NEW other \in Residues
  PROVE  \E draws \in [1 .. N - 1 -> Residues] :
           \A p \in Parties \ {out} : GenerateShares(other, draws)[p] = f[p]
<1>1. N \in Nat \ {0} /\ N - 1 \in Nat /\ Parties = 1 .. N /\ N \in Parties
  BY SharingAssumption DEF Parties
<1>2. CASE out = N
  <2> DEFINE draws == [p \in 1 .. N - 1 |-> f[p]]
  <2>1. draws \in [1 .. N - 1 -> Residues]
    BY <1>1, SharingFacts
  <2>2. \A p \in Parties \ {out} : GenerateShares(other, draws)[p] = f[p]
    BY <1>1, <1>2 DEF GenerateShares
  <2> QED BY <2>1, <2>2
<1>3. CASE out # N
  <2>1. out \in 1 .. N - 1
    BY <1>1, <1>3
  <2> DEFINE base == [p \in 1 .. N - 1 |-> IF p = out THEN 0 ELSE f[p]]
             sum == AddShares(base)
             rest == other - f[N] - sum
             draws == [p \in 1 .. N - 1 |-> IF p = out THEN Res(rest) ELSE f[p]]
             point == [p \in 1 .. N - 1 |-> IF p = out THEN Res(rest) ELSE 0]
  <2>2. base \in [1 .. N - 1 -> Int]
    BY <1>1, SharingFacts
  <2>3. sum \in Int
    <3> HIDE DEF base
    <3> QED BY <1>1, <2>2, TotalsType, ResOfResidue
  <2>4. other \in Int /\ f[N] \in Int /\ f[N] \in Residues
    BY <1>1, SharingFacts, ResOfResidue
  <2> HIDE DEF sum
  <2>5. rest \in Int
    BY <2>3, <2>4
  <2> HIDE DEF rest
  <2>6. Res(rest) \in Residues /\ Res(rest) \in Int
    BY <2>5, ResType
  <2>7. draws \in [1 .. N - 1 -> Residues]
    BY <1>1, <2>6, SharingFacts
  <2>8. draws \in [1 .. N - 1 -> Int]
    BY <2>7, ResOfResidue
  <2>9. AddShares(point) = Res(Res(rest)) /\ point \in [1 .. N - 1 -> Int]
    <3>1. IsPoint(point, N - 1, out, Res(rest))
      BY <1>1, <2>1, <2>6 DEF IsPoint
    <3> HIDE DEF point
    <3> QED BY <3>1, SumPoint, <1>1
  <2>10. \A p \in 1 .. N - 1 : draws[p] = base[p] + point[p]
    BY <2>2, <2>6, <2>8
  <2> HIDE DEF point, base
  <2>11. AddShares(draws) = Res(sum + Res(Res(rest)))
    <3> HIDE DEF draws
    <3>1. \A p \in 1 .. N - 1 : Res(draws[p]) = Res(base[p] + point[p])
      BY <2>10
    <3>2. AddShares(draws) = Res(AddShares(base) + AddShares(point))
      BY <1>1, <2>2, <2>8, <2>9, <3>1, SumPlus
    <3> QED BY <2>9, <3>2 DEF sum
  <2>12. AddShares(draws) = Res(other - f[N])
    <3> HIDE DEF draws
    <3>1. Res(Res(rest)) = Res(rest)
      BY <2>6, ResOfResidue
    <3>2. Res(Res(rest) + sum) = Res(rest + sum)
      BY <2>3, <2>5, ResAdd
    <3>3. sum + Res(rest) = Res(rest) + sum /\ rest + sum = other - f[N]
      BY <2>3, <2>4, <2>6 DEF rest
    <3> QED BY <2>11, <3>1, <3>2, <3>3
  <2>13. (other - AddShares(draws)) % Q = f[N]
    <3> HIDE DEF draws
    <3> DEFINE v == other - f[N]
    <3>1. v \in Int
      BY <2>4
    <3>2. PICK k \in Int : v = Res(v) + Q * k
      BY <3>1, Quotient
    <3>3. Res(v) \in Int
      BY <3>1, ResType
    <3>4. other - Res(v) = f[N] + Q * k
      <4>1. Q * k \in Int
        BY QFacts
      <4> QED BY <2>4, <3>2, <3>3, <4>1
    <3>5. Res(f[N] + Q * k) = Res(f[N]) /\ Res(f[N]) = f[N]
      BY <2>4, ResShift, ResOfResidue
    <3> QED BY <2>12, <3>4, <3>5 DEF Res
  <2>14. \A p \in Parties \ {out} : GenerateShares(other, draws)[p] = f[p]
    <3> SUFFICES ASSUME NEW p \in Parties \ {out}
                 PROVE  GenerateShares(other, draws)[p] = f[p]
      OBVIOUS
    <3>1. CASE p < N
      <4>1. p \in 1 .. N - 1 /\ draws[p] = f[p]
        BY <1>1, <3>1
      <4> QED BY <3>1, <4>1 DEF GenerateShares
    <3>2. CASE p = N
      <4> HIDE DEF draws
      <4> QED BY <1>1, <2>13, <3>2 DEF GenerateShares
    <3> QED BY <1>1, <3>1, <3>2
  <2> QED BY <2>7, <2>14
<1> QED BY <1>2, <1>3

\* (AdditiveSecretSharing.cpp:56-63)  Any N - 1 shares of the first secret are
\* compatible with every value it could have.
THEOREM SharesHide == Spec => []SharesHideSecret
<1>1. SharingInv => SharesHideSecret
  <2> SUFFICES ASSUME SharingInv PROVE SharesHideSecret
    OBVIOUS
  <2>1. share.x \in Sharings
    BY DEF SharingInv, TypeOK
  <2> QED BY <2>1, OthersFitEveryValue DEF SharesHideSecret
<1> QED BY Invariance, <1>1, PTL
==============================================================================
