--------------------------- MODULE AdditiveSharing ---------------------------
(***************************************************************************)
(* What the values of a session are: the additive sharing of               *)
(* AdditiveSecretSharing.cpp and the arithmetic Party.cpp does on shares.  *)
(*                                                                         *)
(* A value is a residue modulo Q (PRIME_128_STR) and a sharing gives each  *)
(* computing party one residue.  The secret holder shares two secrets and  *)
(* their MACs, gets the sum back, deals a Beaver triple with its MACs and  *)
(* the MAC key, and gets the product back.  A step here is what all the    *)
(* parties do in one round: PartyProtocol shows (ImplementsBarrier) that   *)
(* rounds do not overlap and (OpeningComplete) that a party adds up the    *)
(* opening of every peer once, so that a round has one outcome.            *)
(***************************************************************************)
EXTENDS Integers, Sequences

CONSTANTS
  N,            \* m_totalParties
  Q,            \* the modulus of AdditiveSecretSharing::getPrime
  Locals,       \* the values m_localValue is checked for
  Coins,        \* the values BN_rand_range is checked for ...
  Draws,        \* ... and the sequences of N - 1 that one generateShares draws
  RandomEps,    \* m_agreed_random_values[0]
  RandomRho     \* m_agreed_random_values[1]

Residues == 0 .. Q - 1
Parties  == 1 .. N
Sharings == [Parties -> Residues]

ASSUME SharingAssumption ==
  /\ N \in Nat \ {0}
  /\ Q \in Nat /\ Q > 2
  /\ Locals \subseteq Nat
  /\ Coins \subseteq Residues
  /\ Draws \subseteq [1 .. N - 1 -> Residues]
  /\ RandomEps \in Nat /\ RandomRho \in Nat

MacKey == 2     \* m_global_mac_key, which ENABLE_UNIT_TESTS sets to 2

-----------------------------------------------------------------------------
(* AdditiveSecretSharing.cpp.                                              *)

\* Mutant: BN_add for BN_mod_add.
AddTwoUnreduced(x, y) == x + y

\* addShares of two values.
AddTwo(x, y) == (x + y) % Q

\* The loop over a vector: its total after the first k shares, for every k.
PartialSums(f) ==
  LET sum[k \in 0 .. Len(f)] == IF k = 0 THEN 0 ELSE AddTwo(sum[k - 1], f[k])
  IN  sum

\* Both addShares over a vector and reconstructSecret add up modulo Q.
AddShares(f) == PartialSums(f)[Len(f)]

ReconstructSecret(sharing) == AddShares(sharing)

\* Mutant: a loop that draws the first share only.
GenerateSharesOneDraw(secret, draws) ==
  [p \in Parties |-> CASE p = 1 /\ p < N -> draws[1]
                       [] p = N -> (secret - (IF N > 1 THEN draws[1] ELSE 0)) % Q
                       [] OTHER -> 0]

\* All shares but the last are drawn; the last makes up for their sum.
GenerateShares(secret, draws) ==
  [p \in Parties |->
     IF p < N THEN draws[p] ELSE (secret - AddShares(draws)) % Q]

\* Beaver's formula with the differences taken of the arguments themselves
\* (nobody calls it).
MultiplyShares(x, y, a, b, c) ==
  LET d == (x - a) % Q
      e == (y - b) % Q
  IN  (c + a * e + b * d + d * e) % Q

GenerateMacShares(secret, draws) == GenerateShares((secret * MacKey) % Q, draws)

-----------------------------------------------------------------------------
VARIABLES
  phase,   \* the round the session is in, or how it ended
  secret,  \* m_secrets
  share,   \* m_receivedShares and m_receivedMacShares of all parties
  triple,  \* myTriple, myTripleMac and m_global_key_share of all parties
  product, \* m_z_i, m_z_i_mac and m_sigma of all parties
  result   \* what the secret holder has reconstructed

vars == <<phase, secret, share, triple, product, result>>

None == [p \in Parties |-> 0]

Init ==
  /\ phase = "start"
  /\ secret = <<0, 0>>
  /\ share = [x |-> None, y |-> None, mx |-> None, my |-> None]
  /\ triple = [a |-> None, b |-> None, c |-> None,
               ma |-> None, mb |-> None, mc |-> None, key |-> None]
  /\ product = [z |-> None, mac |-> None, sigma |-> None]
  /\ result = [sum |-> 0, product |-> 0]

\* The secrets are m_localValue and its successor.
ShareSecrets ==
  /\ phase = "start"
  /\ phase' = "shared"
  /\ \E v \in Locals :
       LET x == v % Q
           y == (v + 1) % Q
       IN  /\ secret' = <<x, y>>
           /\ share' \in {[x  |-> GenerateShares(x, d[1]),
                           y  |-> GenerateShares(y, d[2]),
                           mx |-> GenerateMacShares(x, d[3]),
                           my |-> GenerateMacShares(y, d[4])] : d \in [1 .. 4 -> Draws]}
  /\ UNCHANGED <<triple, product, result>>

\* CMD_ADDITION at every party, and the secret holder's assertion.
Sum ==
  /\ phase = "shared"
  /\ LET sum == ReconstructSecret([p \in Parties |->
                   AddShares(<<share.x[p], share.y[p]>>)])
         mac == ReconstructSecret([p \in Parties |->
                   AddShares(<<share.mx[p], share.my[p]>>)])
     IN  /\ result' = [result EXCEPT !.sum = sum]
         /\ phase' = IF (MacKey * sum) % Q = mac THEN "summed" ELSE "aborted"
  /\ UNCHANGED <<secret, share, triple, product>>

\* The sharings of a triple, of its MACs and of the MAC key.
Deals(a, b, c) ==
  {[a   |-> GenerateShares(a, d[1]),
    b   |-> GenerateShares(b, d[2]),
    c   |-> GenerateShares(c, d[3]),
    ma  |-> GenerateMacShares(a, d[4]),
    mb  |-> GenerateMacShares(b, d[5]),
    mc  |-> GenerateMacShares(c, d[6]),
    key |-> GenerateShares(MacKey, d[7])] : d \in [1 .. 7 -> Draws]}

\* Mutant: c is drawn as a and b are.
DistributeThreeCoins ==
  /\ phase = "summed"
  /\ phase' = "dealt"
  /\ \E a, b, c \in Coins : triple' \in Deals(a, b, c)
  /\ UNCHANGED <<secret, share, product, result>>

DistributeBeaverTriple ==
  /\ phase = "summed"
  /\ phase' = "dealt"
  /\ \E a, b \in Coins : triple' \in Deals(a, b, (a * b) % Q)
  /\ UNCHANGED <<secret, share, product, result>>

-----------------------------------------------------------------------------
(* The multiplication at every party.                                      *)

\* D and E of doMultiplicationDemo, m_epsilon and m_rho afterwards.
Epsilon == AddShares([p \in Parties |-> (share.x[p] - triple.a[p]) % Q])
Rho     == AddShares([p \in Parties |-> (share.y[p] - triple.b[p]) % Q])

\* Mutant: without the test of m_partyId.
ProductShareEach(p) ==
  (triple.c[p] + triple.a[p] * Rho + triple.b[p] * Epsilon + Epsilon * Rho) % Q

\* Party 1 alone adds the public D * E.
ProductShare(p) ==
  (triple.c[p] + triple.a[p] * Rho + triple.b[p] * Epsilon
     + (IF p = 1 THEN Epsilon * Rho ELSE 0)) % Q

\* Mutant: the test of m_partyId, where every party has its share of the key.
GenerateZmacOnce(p) ==
  (triple.mc[p] + Epsilon * triple.mb[p] + Rho * triple.ma[p]
     + (IF p = 1 THEN Epsilon * Rho * triple.key[p] ELSE 0)) % Q

GenerateZmac(p) ==
  (triple.mc[p] + Epsilon * triple.mb[p] + Rho * triple.ma[p]
     + Epsilon * Rho * triple.key[p]) % Q

GenerateBatchZeroShare(p) ==
  (RandomEps * (share.mx[p] - triple.ma[p]) + RandomRho * (share.my[p] - triple.mb[p])
     - (RandomEps * Epsilon + RandomRho * Rho) * triple.key[p]) % Q

Multiply ==
  /\ phase = "dealt"
  /\ phase' = "multiplied"
  /\ product' = [product EXCEPT !.z   = [p \in Parties |-> ProductShare(p)],
                                !.mac = [p \in Parties |-> GenerateZmac(p)]]
  /\ UNCHANGED <<secret, share, triple, result>>

\* CMD_FETCH_MULT_SHARE at every party computes the shares of zero; then the
\* secret holder reconstructs and makes its two last assertions.
Fetch ==
  /\ phase = "multiplied"
  /\ product' = [product EXCEPT !.sigma =
                   [p \in Parties |-> GenerateBatchZeroShare(p)]]
  /\ LET z == ReconstructSecret(product.z)
     IN  /\ result' = [result EXCEPT !.product = z]
         /\ phase' = IF /\ (z * MacKey) % Q = ReconstructSecret(product.mac)
                        /\ ReconstructSecret(product'.sigma) = 0
                       THEN "done" ELSE "aborted"
  /\ UNCHANGED <<secret, share, triple>>

Next == ShareSecrets \/ Sum \/ DistributeBeaverTriple \/ Multiply \/ Fetch

Spec == Init /\ [][Next]_vars
-----------------------------------------------------------------------------
\* (AdditiveSecretSharing.cpp, Party.cpp:85-361)  Every share, opened or kept, is a
\* residue: no subtraction leaves the range that serializeShare can carry.
TypeOK ==
  /\ phase \in {"start", "shared", "summed", "dealt", "multiplied", "done", "aborted"}
  /\ secret \in Residues \X Residues
  /\ share \in [x: Sharings, y: Sharings, mx: Sharings, my: Sharings]
  /\ triple \in [a: Sharings, b: Sharings, c: Sharings,
                 ma: Sharings, mb: Sharings, mc: Sharings, key: Sharings]
  /\ product \in [z: Sharings, mac: Sharings, sigma: Sharings]
  /\ result \in [sum: Residues, product: Residues]

\* (Party.cpp:207-210, 354-356, AdditiveSecretSharing.cpp:95-129)  What the
\* secret holder prints at the end is the sum and the product of its own
\* secrets, for any shares, triple and key shares drawn on the way; the product
\* is what multiplyShares makes of the whole values.
ResultsAreRight ==
  phase = "done" =>
    /\ result.sum = (secret[1] + secret[2]) % Q
    /\ result.product = (secret[1] * secret[2]) % Q
    /\ result.product = MultiplyShares(secret[1], secret[2],
                          ReconstructSecret(triple.a), ReconstructSecret(triple.b),
                          ReconstructSecret(triple.c))

\* (Party.cpp:217, 325, 356)  In a session of parties that follow the program no
\* assertion of the secret holder fails.
AssertionsHold == phase # "aborted"

\* (Party.cpp:690-701, 1183-1199)  The invariant behind the assertions: what is
\* shared as the MAC of a value is MacKey times that value, for the secrets,
\* for the triple, and for the product the parties have computed from them.
Authenticated ==
  LET IsMacOf(m, v) == ReconstructSecret(m) = (MacKey * ReconstructSecret(v)) % Q
  IN  /\ IsMacOf(share.mx, share.x) /\ IsMacOf(share.my, share.y)
      /\ IsMacOf(triple.ma, triple.a) /\ IsMacOf(triple.mb, triple.b)
      /\ IsMacOf(triple.mc, triple.c)
      /\ IsMacOf(product.mac, product.z)

\* (AdditiveSecretSharing.cpp:56-63)  Any N - 1 shares fit every secret: whichever
\* party is left out, draws exist that give the others the very shares they
\* hold of the first secret and yet share another value.
SharesHideSecret ==
  phase = "shared" =>
    \A out \in Parties, other \in Residues :
      \E draws \in [1 .. N - 1 -> Residues] :
        \A p \in Parties \ {out} : GenerateShares(other, draws)[p] = share.x[p]
=============================================================================
