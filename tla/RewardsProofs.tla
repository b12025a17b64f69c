--------------------------- MODULE RewardsProofs ----------------------------
(***************************************************************************)
(* Proofs about the authors of blocks, their reward points and what the    *)
(* payouts mint, for any sets of accounts, any elections and any sequence  *)
(* of valid and invalid blocks.                                            *)
(***************************************************************************)
EXTENDS BlockRewards, InflationProofs

-----------------------------------------------------------------------------
(* The author of a block.                                                  *)

\* An author and a header's author digests agree.
Agree(a, digests) == \/ a = NoAuthor /\ digests = <<>>
                     \/ a \in Authors /\ digests = <<a>>

\* The storage of the last valid block must be part of the invariant: an
\* invalid block puts it back.
IInv ==
  /\ phase \in {"between", "executing"}
  /\ claims \in Seq(Authors)
  /\ height \in Nat
  /\ Agree(author, logs)
  /\ Agree(parent.author, parent.logs)
  /\ height > 0 => parent.author # NoAuthor
  /\ phase = "between" => author = parent.author /\ logs = parent.logs

\* create_inherent and other producers put accounts into a block.
LEMMA BodiesType == Bodies \subseteq Seq(Authors)
<1>1. ASSUME NEW d \in Authors \cup {NoAuthor} PROVE CreateInherent(d) \in Seq(Authors)
  BY DEF CreateInherent
<1>2. ASSUME NEW n \in 0 .. MaxClaims, NEW f \in [1 .. n -> Authors]
      PROVE  f \in Seq(Authors)
  BY AuthorAssumption
<1> QED BY <1>1, <1>2 DEF Bodies

\* Genesis has neither an author nor digests.
LEMMA InitIInv == Init => IInv
BY DEF Init, IInv, Agree, Storage

\* on_initialize clears what the block before left.
LEMMA InitializeIInv ==
  ASSUME IInv, NEW body \in Bodies, InitializeBlock(body)
  PROVE  IInv'
BY BodiesType DEF IInv, InitializeBlock, AuthorInitialize, Cleared, Agree

\* set_author writes the storage item and the digest together.
LEMMA InherentIInv == IInv /\ Inherent => IInv'
<1> SUFFICES ASSUME IInv, Inherent PROVE IInv'
  OBVIOUS
<1>1. /\ phase = "executing" /\ claims # <<>> /\ author = NoAuthor
      /\ author' = Head(claims) /\ logs' = Append(logs, Head(claims))
      /\ claims' = Tail(claims)
      /\ UNCHANGED <<phase, height, parent>>
  BY DEF Inherent, SetAuthor, CanSetAuthor
<1>2. claims \in Seq(Authors) /\ Head(claims) \in Authors /\ Tail(claims) \in Seq(Authors)
  BY <1>1 DEF IInv
<1>3. logs = <<>>
  BY <1>1, AuthorAssumption DEF IInv, Agree
<1>4. Agree(author', logs')
  BY <1>1, <1>2, <1>3 DEF Agree
<1> QED BY <1>1, <1>2, <1>4 DEF IInv

\* note_author leaves the author alone.
LEMMA NoteIInv ==
  ASSUME IInv, NEW a \in Authors, NoteAuthor(a)
  PROVE  IInv'
BY DEF IInv, NoteAuthor, authorVars

\* on_finalize seals a block only with its author.
LEMMA FinalizeIInv == IInv /\ FinalizeBlock => IInv'
<1> SUFFICES ASSUME IInv, FinalizeBlock PROVE IInv'
  OBVIOUS
<1>1. /\ author # NoAuthor /\ phase' = "between" /\ height' = height + 1
      /\ UNCHANGED <<claims, author, logs>>
      /\ parent' = Storage'
  BY DEF FinalizeBlock, AuthorFinalize, AuthorWasSet
<1>2. parent'.author = author' /\ parent'.logs = logs'
  BY <1>1 DEF Storage
<1> QED BY <1>1, <1>2 DEF IInv, Agree

\* An invalid block is rolled back to the block before it.
LEMMA DropIInv == IInv /\ DropBlock => IInv'
BY DEF IInv, DropBlock, Agree

\* Every step keeps the invariant.
LEMMA NextIInv == IInv /\ [Next]_vars => IInv'
<1> SUFFICES ASSUME IInv, [Next]_vars PROVE IInv'
  OBVIOUS
<1>1. CASE UNCHANGED vars
  BY <1>1 DEF IInv, vars, authorVars
<1>2. CASE Next
  BY <1>2, InitializeIInv, InherentIInv, NoteIInv, FinalizeIInv, DropIInv DEF Next
<1> QED BY <1>1, <1>2

\* The invariant holds of every chain of blocks.
THEOREM Invariance == Spec => []IInv
BY InitIInv, NextIInv, PTL DEF Spec

\* find_author never names an author that is not in the header of the same
\* block.
THEOREM AuthorMatchesHeader == Spec => []AuthorIsLogged
<1>1. IInv => AuthorIsLogged
  BY DEF IInv, Agree, AuthorIsLogged, FindAuthor
<1> QED BY <1>1, Invariance, PTL

\* Every accepted block has exactly one author.
THEOREM EveryBlockHasItsAuthor == Spec => []SealedWithAuthor
<1>1. IInv => SealedWithAuthor
  BY DEF IInv, Agree, SealedWithAuthor
<1> QED BY <1>1, Invariance, PTL

-----------------------------------------------------------------------------
(* Shares of a payout.                                                     *)

\* Each f[c] * p is within g[c] * q and an allowance k.
Within(S, f, p, g, q, k) ==
  /\ f \in [S -> Nat] /\ g \in [S -> Nat]
  /\ \A c \in S : f[c] * p <= g[c] * q + k

\* A bound for every element is a bound for the sums, the constant taken once
\* for each.
LEMMA LinearSum ==
  ASSUME NEW S, IsFiniteSet(S), NEW f, NEW g, NEW p \in Nat, NEW q \in Nat,
         NEW k \in Nat, Within(S, f, p, g, q, k)
  PROVE  /\ SumFunctionOnSet(f, S) \in Nat /\ SumFunctionOnSet(g, S) \in Nat
         /\ SumFunctionOnSet(f, S) * p <=
              SumFunctionOnSet(g, S) * q + Cardinality(S) * k
<1> DEFINE fp == [c \in S |-> f[c] * p]
           gq == [c \in S |-> g[c] * q]
           kk == [c \in S |-> k]
           gk == [c \in S |-> gq[c] + kk[c]]
<1>1. \A c \in S : f[c] \in Nat /\ g[c] \in Nat
  BY DEF Within
<1>2. \A c \in S : f[c] * p \in Nat /\ g[c] * q \in Nat
  BY <1>1, ProductNat
<1>3. \A c \in S : /\ fp[c] = f[c] * p /\ gq[c] = g[c] * q /\ kk[c] = k
                   /\ gk[c] = gq[c] + kk[c]
  OBVIOUS
<1> HIDE DEF fp, gq, kk, gk
<1>4. \A c \in S : /\ fp[c] \in Nat /\ gq[c] \in Nat /\ kk[c] \in Nat
                   /\ gk[c] \in Nat /\ fp[c] <= gk[c]
  BY <1>2, <1>3 DEF Within
<1>5. SumFunctionOnSet(fp, S) <= SumFunctionOnSet(gk, S)
  BY <1>4, SumLeq
<1>6. SumFunctionOnSet(gk, S) = SumFunctionOnSet(gq, S) + SumFunctionOnSet(kk, S)
  <2>1. \A c \in S : gq[c] \in Int /\ kk[c] \in Int /\ gk[c] = gq[c] + kk[c]
    BY <1>3, <1>4
  <2> QED BY <2>1, SumPlus
<1>7. SumFunctionOnSet(kk, S) = Cardinality(S) * k
  BY <1>3, SumConstant
<1>8. SumFunctionOnSet(fp, S) = SumFunctionOnSet(f, S) * p
  BY <1>1, <1>3, SumScale
<1>9. SumFunctionOnSet(gq, S) = SumFunctionOnSet(g, S) * q
  BY <1>1, <1>3, SumScale
<1>10. SumFunctionOnSet(f, S) \in Nat /\ SumFunctionOnSet(g, S) \in Nat
  BY <1>1, SumNat
<1> QED BY <1>5, <1>6, <1>7, <1>8, <1>9, <1>10

\* Parts of a whole, each rounded down, are no more than the whole.
LEMMA SharesBound ==
  ASSUME NEW S, IsFiniteSet(S), NEW whole \in Nat, NEW f, NEW g,
         Within(S, g, whole, f, Accuracy, 0), SumFunctionOnSet(f, S) <= whole,
         whole = 0 => \A c \in S : g[c] = 0
  PROVE  SumFunctionOnSet(g, S) \in Nat /\ SumFunctionOnSet(g, S) <= Accuracy
<1> DEFINE sf == SumFunctionOnSet(f, S)
           sg == SumFunctionOnSet(g, S)
<1>1. Accuracy \in Nat /\ Accuracy > 0
  BY PerThingAssumption
<1>2. sf \in Nat /\ sg \in Nat /\ sg * whole <= sf * Accuracy + Cardinality(S) * 0
  BY <1>1, LinearSum
<1>3. CASE whole = 0
  <2>1. sg = 0
    BY <1>3, SumZero
  <2> QED BY <1>1, <2>1
<1>4. CASE whole # 0
  <2>1. Cardinality(S) \in Nat
    BY FS_CardinalityType
  <2>2. sf <= whole
    OBVIOUS
  <2> HIDE DEF sf, sg
  <2>3. sf * Accuracy <= whole * Accuracy
    BY <1>1, <1>2, <2>2, ProductMonotone
  <2>4. whole * Accuracy = Accuracy * whole
    BY <1>1
  <2>5. sg * whole \in Nat /\ sf * Accuracy \in Nat /\ Accuracy * whole \in Nat
    BY <1>1, <1>2, ProductNat
  <2>6. sg * whole <= Accuracy * whole
    BY <1>2, <2>1, <2>3, <2>4, <2>5
  <2>7. sg <= Accuracy
    BY <1>1, <1>2, <1>4, <2>6, FactorOut
  <2> QED BY <1>2, <2>7 DEF sg
<1> QED BY <1>3, <1>4

\* Half of one is at most a half.
LEMMA HalfBound == Half \in Nat /\ 2 * Half <= Accuracy
<1>1. Accuracy \in Nat /\ Accuracy > 0
  BY PerThingAssumption
<1>2. Half = (50 * Accuracy) \div 100
  BY DEF Half, FromRational
<1> QED BY <1>1, <1>2

\* What a collator is paid for its stake x and its points y: half of either
\* share, and at most a half more for the rounding of either.
LEMMA CollatorShare ==
  ASSUME NEW x \in Nat, NEW y \in Nat, NEW payout \in Nat, NEW reward,
         reward = PartOf(PartOfPart(Half, x), payout) + PartOf(PartOfPart(Half, y), payout)
  PROVE  /\ reward \in Nat
         /\ 2 * (reward * Accuracy) <= (x + y) * payout + 2 * Accuracy
<1> DEFINE hx == PartOfPart(Half, x)
           hy == PartOfPart(Half, y)
           px == PartOf(hx, payout)
           py == PartOf(hy, payout)
<1>1. Accuracy \in Nat /\ Accuracy > 0
  BY PerThingAssumption
<1>2. hx \in Nat /\ 2 * hx <= x /\ hy \in Nat /\ 2 * hy <= y
  BY HalfBound, HalfPart
<1> HIDE DEF hx, hy
<1>3. /\ px \in Nat /\ 2 * (px * Accuracy) <= 2 * (hx * payout) + Accuracy
      /\ py \in Nat /\ 2 * (py * Accuracy) <= 2 * (hy * payout) + Accuracy
  BY <1>2, RoundedPart
<1>4. reward = px + py
  BY DEF hx, hy
<1> HIDE DEF px, py
<1>5. (2 * hx) * payout <= x * payout /\ (2 * hy) * payout <= y * payout
  BY <1>2, ProductMonotone
<1>6. /\ (2 * hx) * payout = 2 * (hx * payout) /\ (2 * hy) * payout = 2 * (hy * payout)
      /\ (x + y) * payout = x * payout + y * payout
      /\ reward * Accuracy = px * Accuracy + py * Accuracy
  BY <1>1, <1>2, <1>3, <1>4
<1>7. /\ hx * payout \in Nat /\ hy * payout \in Nat
      /\ x * payout \in Nat /\ y * payout \in Nat
      /\ px * Accuracy \in Nat /\ py * Accuracy \in Nat
  BY <1>1, <1>2, <1>3, ProductNat
<1> QED BY <1>1, <1>3, <1>4, <1>5, <1>6, <1>7

\* What is shared of a payout by a fraction of A parts, rounding r included, is
\* shared of it by V / D when the fraction is at most that.
LEMMA InProportion ==
  ASSUME NEW A \in Nat, A > 0, NEW D \in Nat, NEW V \in Nat, NEW s \in Nat,
         NEW t \in Nat, NEW r \in Nat, NEW payout \in Nat,
         t * A <= s * payout + r * A, s * D <= V * A
  PROVE  D * t <= payout * V + D * r
<1>1. /\ t * A \in Nat /\ s * payout \in Nat /\ r * A \in Nat
      /\ s * D \in Nat /\ V * A \in Nat /\ payout * V \in Nat /\ D * r \in Nat
      /\ D * t \in Nat
  BY ProductNat
<1>2. (t * A) * D <= (s * payout + r * A) * D
  BY <1>1, ProductMonotone
<1>3. (s * D) * payout <= (V * A) * payout
  BY <1>1, ProductMonotone
<1>4. (t * A) * D = (D * t) * A
  OBVIOUS
<1>5. (s * payout + r * A) * D = (s * D) * payout + (D * r) * A
  OBVIOUS
<1>6. (payout * V + D * r) * A = (V * A) * payout + (D * r) * A
  OBVIOUS
<1>7. /\ (s * D) * payout \in Nat /\ (V * A) * payout \in Nat
      /\ (D * r) * A \in Nat /\ (D * t) * A \in Nat
  BY <1>1, ProductNat
<1>8. (D * t) * A <= (payout * V + D * r) * A
  BY <1>2, <1>3, <1>4, <1>5, <1>6, <1>7
<1> QED BY <1>1, <1>8, FactorOut

\* The stake behind the collators in E.
WeightOf(E, N, own, others) ==
  SumFunctionOnSet([c \in E |-> own[c] + SumFunctionOnSet(others[c], N)], E)

\* The collators' parts cr share half of the payout by points and half by
\* stake, the nominators' nr, which are not halved, the whole by stake; W is
\* the stake and D the TotalStaked it is divided by.
InBudget(E, N, payout, D, W, cr, nr) ==
  LET C == SumFunctionOnSet(cr, E)
      M == SumFunctionOnSet([c \in E |-> SumFunctionOnSet(nr[c], N)], E)
  IN  /\ cr \in [E -> Nat] /\ nr \in [E -> [N -> Nat]]
      /\ C \in Nat /\ M \in Nat
      /\ D * (2 * C) <= payout * (D + W) + D * (2 * Cardinality(E))
      /\ D * (2 * (C + M))
           <= payout * (D + 2 * W) + D * (Cardinality(E) * (2 + Cardinality(N)))

\* cr and nr are what payout_stakers computes for the collators in E and the
\* nominators in N, out of bonds, nominations and points; the points do not
\* exceed the round's total, bonds and nominations may exceed `staked`.
Rewarded(E, N, payout, staked, total, own, others, points, cr, nr) ==
  /\ payout \in Nat /\ staked \in Nat /\ total \in Nat
  /\ own \in [E -> Nat] /\ others \in [E -> [N -> Nat]] /\ points \in [E -> Nat]
  /\ SumFunctionOnSet(points, E) <= total
  /\ cr = [c \in E |->
             PartOf(PartOfPart(Half, FromRational(own[c], staked)), payout)
             + PartOf(PartOfPart(Half, FromRational(points[c], total)), payout)]
  /\ nr = [c \in E |-> [n \in N |-> PartOf(FromRational(others[c][n], staked), payout)]]

\* What payout_stakers computes is in the budget.
LEMMA PayoutBudget ==
  ASSUME NEW E, IsFiniteSet(E), NEW N, IsFiniteSet(N),
         NEW payout, NEW staked, NEW total, NEW own, NEW others, NEW points,
         NEW cr, NEW nr,
         Rewarded(E, N, payout, staked, total, own, others, points, cr, nr)
  PROVE  InBudget(E, N, payout, Divisor(staked), WeightOf(E, N, own, others), cr, nr)
<1>a. payout \in Nat /\ staked \in Nat /\ total \in Nat
  BY DEF Rewarded
<1>b. own \in [E -> Nat] /\ others \in [E -> [N -> Nat]] /\ points \in [E -> Nat]
  BY DEF Rewarded
<1>d. SumFunctionOnSet(points, E) <= total
  BY Zenon DEF Rewarded
<1>e. \A c \in E : cr[c] =
             PartOf(PartOfPart(Half, FromRational(own[c], staked)), payout)
             + PartOf(PartOfPart(Half, FromRational(points[c], total)), payout)
  BY DEF Rewarded
<1>f. \A c \in E : \A n \in N :
         nr[c][n] = PartOf(FromRational(others[c][n], staked), payout)
  BY DEF Rewarded
<1>g. cr = [c \in E |-> cr[c]] /\ nr = [c \in E |-> [n \in N |-> nr[c][n]]]
  BY DEF Rewarded
<1> USE <1>a
<1> DEFINE A == Accuracy
           D == Divisor(staked)
           x == [c \in E |-> FromRational(own[c], staked)]
           y == [c \in E |-> FromRational(points[c], total)]
           z == [c \in E |-> [n \in N |-> FromRational(others[c][n], staked)]]
           Z == [c \in E |-> SumFunctionOnSet(z[c], N)]
           O == [c \in E |-> SumFunctionOnSet(others[c], N)]
           R == [c \in E |-> SumFunctionOnSet(nr[c], N)]
           b == [c \in E |-> own[c] + O[c]]
           w == [c \in E |-> x[c] + Z[c]]
           xy == [c \in E |-> x[c] + y[c]]
<1>0. A \in Nat /\ A > 0 /\ D \in Nat
  BY PerThingAssumption, FractionUnder
<1>1. /\ \A c \in E : own[c] \in Nat /\ points[c] \in Nat /\ others[c] \in [N -> Nat]
      /\ \A c \in E : \A n \in N : others[c][n] \in Nat
  BY <1>b
<1>2. \A c \in E : O[c] \in Nat /\ b[c] \in Nat
  BY <1>1, SumNat
<1> DEFINE W == SumFunctionOnSet(b, E)
<1>3. W \in Nat /\ W = WeightOf(E, N, own, others)
  <2>1. b = [c \in E |-> own[c] + SumFunctionOnSet(others[c], N)]
    OBVIOUS
  <2>2. SumFunctionOnSet(b, E) \in Nat
    BY <1>2, SumNat
  <2> HIDE DEF b
  <2> QED BY <2>1, <2>2 DEF WeightOf
<1>6. \A c \in E : points[c] <= total
  <2> TAKE c \in E
  <2>1. points[c] <= SumFunctionOnSet(points, E) /\ SumFunctionOnSet(points, E) \in Nat
    BY <1>1, SumMember, SumNat
  <2> QED BY <1>1, <1>d, <2>1
<1>7. \A c \in E : /\ x[c] \in Nat /\ x[c] * D <= own[c] * A
                   /\ x[c] = FromRational(own[c], staked)
  BY <1>1, FractionUnder
<1>8. \A c \in E : /\ y[c] \in Nat /\ y[c] * total <= points[c] * A
                   /\ total = 0 => y[c] = 0
                   /\ y[c] = FromRational(points[c], total)
  BY <1>1, <1>6, FractionBound
<1>9. \A c \in E : \A n \in N :
         /\ z[c][n] \in Nat /\ z[c][n] * D <= others[c][n] * A
         /\ z[c][n] = FromRational(others[c][n], staked)
  BY <1>1, FractionUnder
<1>10. \A c \in E : z[c] \in [N -> Nat] /\ Z[c] = SumFunctionOnSet(z[c], N)
  BY <1>9
<1>11. \A c \in E : Z[c] \in Nat /\ Z[c] * D <= O[c] * A
  <2> TAKE c \in E
  <2>1. z[c] \in [N -> Nat] /\ others[c] \in [N -> Nat]
    BY <1>1, <1>10
  <2>2. Within(N, z[c], D, others[c], A, 0)
    <3>1. \A n \in N : z[c][n] * D <= others[c][n] * A + 0
      BY <1>0, <1>1, <1>9, ProductNat
    <3> QED BY <2>1, <3>1 DEF Within
  <2>3. /\ Z[c] \in Nat /\ O[c] \in Nat
        /\ Z[c] * D <= O[c] * A + Cardinality(N) * 0
    <3> HIDE DEF A, D, z
    <3>1. Z[c] = SumFunctionOnSet(z[c], N) /\ O[c] = SumFunctionOnSet(others[c], N)
      BY <1>10
    <3> HIDE DEF Z, O
    <3> QED BY <1>0, <2>2, <3>1, LinearSum
  <2>5. Cardinality(N) \in Nat
    BY FS_CardinalityType
  <2> HIDE DEF Z, O, A, D
  <2> QED BY <1>0, <2>3, <2>5, ProductNat
<1>12. w \in [E -> Nat] /\ b \in [E -> Nat] /\ xy \in [E -> Nat] /\ y \in [E -> Nat]
       /\ x \in [E -> Nat] /\ Z \in [E -> Nat]
  BY <1>2, <1>7, <1>8, <1>11
<1>13. \A c \in E : w[c] = x[c] + Z[c] /\ b[c] = own[c] + O[c] /\ xy[c] = x[c] + y[c]
  OBVIOUS
<1> HIDE DEF x, y, z, Z, O, b, w, xy, A, D
<1>14. \A c \in E : w[c] * D <= b[c] * A
  <2> TAKE c \in E
  <2>1. w[c] * D = x[c] * D + Z[c] * D
    BY <1>0, <1>7, <1>11, <1>13
  <2>2. b[c] * A = own[c] * A + O[c] * A
    BY <1>0, <1>1, <1>2, <1>13
  <2>3. /\ x[c] * D \in Nat /\ Z[c] * D \in Nat
        /\ own[c] * A \in Nat /\ O[c] * A \in Nat
    BY <1>0, <1>1, <1>2, <1>7, <1>11, ProductNat
  <2> QED BY <1>7, <1>11, <2>1, <2>2, <2>3
<1>15. SumFunctionOnSet(w, E) \in Nat /\ SumFunctionOnSet(w, E) * D <= W * A
  <2>1. \A c \in E : w[c] * D <= b[c] * A + 0
    BY <1>0, <1>12, <1>14, ProductNat
  <2>2. Within(E, w, D, b, A, 0)
    BY <1>12, <2>1 DEF Within
  <2>3. /\ SumFunctionOnSet(w, E) \in Nat
        /\ SumFunctionOnSet(w, E) * D <= W * A + Cardinality(E) * 0
    BY <1>0, <2>2, LinearSum
  <2>4. Cardinality(E) \in Nat /\ W * A \in Nat
    BY <1>0, <1>3, FS_CardinalityType, ProductNat
  <2> QED BY <2>3, <2>4
<1>16. SumFunctionOnSet(y, E) \in Nat /\ SumFunctionOnSet(y, E) <= A
  <2>1. \A c \in E : y[c] * total <= points[c] * A + 0
    BY <1>0, <1>1, <1>8, ProductNat
  <2>2. Within(E, y, total, points, Accuracy, 0)
    BY <1>12, <1>b, <2>1 DEF Within, A
  <2>3. total = 0 => \A c \in E : y[c] = 0
    BY <1>8
  <2> QED BY <1>d, <2>2, <2>3, SharesBound DEF A
<1> DEFINE sx == SumFunctionOnSet(x, E)
           sy == SumFunctionOnSet(y, E)
           sz == SumFunctionOnSet(Z, E)
           sxy == SumFunctionOnSet(xy, E)
<1>17. /\ sx \in Nat /\ sy \in Nat /\ sz \in Nat /\ sxy \in Nat
       /\ SumFunctionOnSet(w, E) = sx + sz /\ sxy = sx + sy
  <2>1. \A c \in E : x[c] \in Nat /\ y[c] \in Nat /\ Z[c] \in Nat /\ xy[c] \in Nat
    BY <1>12
  <2>2. sx \in Nat /\ sy \in Nat /\ sz \in Nat /\ sxy \in Nat
    BY <2>1, SumNat
  <2>3. \A c \in E : x[c] \in Int /\ Z[c] \in Int /\ w[c] = x[c] + Z[c]
    BY <1>13, <2>1
  <2>4. \A c \in E : x[c] \in Int /\ y[c] \in Int /\ xy[c] = x[c] + y[c]
    BY <1>13, <2>1
  <2>5. SumFunctionOnSet(w, E) = sx + sz
    BY <2>3, SumPlus
  <2>6. sxy = sx + sy
    BY <2>4, SumPlus
  <2> QED BY <2>2, <2>5, <2>6
<1> DEFINE C == SumFunctionOnSet(cr, E)
           M == SumFunctionOnSet(R, E)
           e == Cardinality(E)
           k == Cardinality(N)
<1>18. e \in Nat /\ k \in Nat
  BY FS_CardinalityType
<1>19. \A c \in E : cr[c] \in Nat /\ cr[c] * (2 * A) <= xy[c] * payout + 2 * A
  <2> TAKE c \in E
  <2>1. cr[c] = PartOf(PartOfPart(Half, x[c]), payout) + PartOf(PartOfPart(Half, y[c]), payout)
    BY <1>7, <1>8, <1>e
  <2>2. cr[c] \in Nat /\ 2 * (cr[c] * A) <= (x[c] + y[c]) * payout + 2 * A
    BY <1>7, <1>8, <2>1, CollatorShare DEF A
  <2>3. cr[c] * (2 * A) = 2 * (cr[c] * A)
    BY <1>0, <2>2
  <2> QED BY <1>13, <2>2, <2>3
<1>20. cr \in [E -> Nat]
  BY <1>19, <1>g
<1>21. C \in Nat /\ C * (2 * A) <= sxy * payout + e * (2 * A)
  <2> DEFINE p == 2 * A
  <2>1. p \in Nat
    BY <1>0
  <2>2. \A c \in E : cr[c] * p <= xy[c] * payout + p
    BY <1>19
  <2> HIDE DEF p
  <2>3. Within(E, cr, p, xy, payout, p)
    BY <1>12, <1>20, <2>2 DEF Within
  <2>4. C \in Nat /\ C * p <= sxy * payout + e * p
    BY <2>1, <2>3, LinearSum
  <2> QED BY <2>4 DEF p
<1>22. \A c \in E : \A n \in N :
         nr[c][n] \in Nat /\ nr[c][n] * (2 * A) <= z[c][n] * (2 * payout) + A
  <2> TAKE c \in E
  <2> TAKE n \in N
  <2>1. nr[c][n] = PartOf(z[c][n], payout)
    BY <1>9, <1>f
  <2>2. nr[c][n] \in Nat /\ 2 * (nr[c][n] * A) <= 2 * (z[c][n] * payout) + A
    BY <1>9, <2>1, RoundedPart DEF A
  <2>3. nr[c][n] * (2 * A) = 2 * (nr[c][n] * A)
    BY <1>0, <2>2
  <2>4. z[c][n] * (2 * payout) = 2 * (z[c][n] * payout)
    BY <1>9
  <2> QED BY <2>2, <2>3, <2>4
<1>23. \A c \in E : nr[c] \in [N -> Nat]
  BY <1>22, <1>g
<1>24. nr \in [E -> [N -> Nat]]
  BY <1>23, <1>g
<1> DEFINE p == 2 * A
           q == 2 * payout
           j == k * A
<1>25. p \in Nat /\ q \in Nat /\ j \in Nat
  BY <1>0, <1>18, ProductNat
<1> HIDE DEF p, q, j
<1>26. \A c \in E : R[c] \in Nat /\ R[c] * p <= Z[c] * q + j
  <2> TAKE c \in E
  <2>1. \A n \in N : nr[c][n] * p <= z[c][n] * q + A
    BY <1>22 DEF p, q
  <2>2. R[c] = SumFunctionOnSet(nr[c], N)
    OBVIOUS
  <2>3. z[c] \in [N -> Nat] /\ Z[c] = SumFunctionOnSet(z[c], N)
    BY <1>10
  <2> HIDE DEF R
  <2>4. Within(N, nr[c], p, z[c], q, A)
    BY <1>23, <2>1, <2>3 DEF Within
  <2>5. R[c] \in Nat /\ R[c] * p <= Z[c] * q + Cardinality(N) * A
    BY <1>0, <1>25, <2>2, <2>3, <2>4, LinearSum
  <2> QED BY <2>5 DEF j
<1>27. M \in Nat /\ M * (2 * A) <= sz * (2 * payout) + e * (k * A)
  <2>1. R \in [E -> Nat]
    BY <1>26
  <2> HIDE DEF R
  <2>2. Within(E, R, p, Z, q, j)
    BY <1>12, <1>26, <2>1 DEF Within
  <2>3. M \in Nat /\ M * p <= sz * q + e * j
    BY <1>18, <1>25, <2>2, LinearSum
  <2> QED BY <2>3 DEF p, q, j
<1>28. M = SumFunctionOnSet([c \in E |-> SumFunctionOnSet(nr[c], N)], E)
  OBVIOUS
<1>29. (sx + sz) * D <= W * A /\ sy <= A
  BY <1>15, <1>16, <1>17
<1> HIDE DEF C, M, W, e, k, sx, sy, sz, sxy, R
<1>30. sxy * D <= (D + W) * A /\ (sxy + 2 * sz) * D <= (D + 2 * W) * A
  <2>1. /\ sx * D \in Nat /\ sy * D \in Nat /\ sz * D \in Nat
        /\ W * A \in Nat /\ D * A \in Nat
    BY <1>0, <1>3, <1>17, ProductNat
  <2>2. (sx + sz) * D = sx * D + sz * D
    BY <1>0, <1>17
  <2>3. sy * D <= A * D /\ A * D = D * A
    BY <1>0, <1>17, <1>29, ProductMonotone
  <2>4. /\ sxy * D = sx * D + sy * D
        /\ (sxy + 2 * sz) * D = sx * D + sy * D + 2 * (sz * D)
    BY <1>0, <1>17
  <2>5. /\ (D + W) * A = D * A + W * A
        /\ (D + 2 * W) * A = D * A + 2 * (W * A)
    BY <1>0, <1>3
  <2> QED BY <1>29, <2>1, <2>2, <2>3, <2>4, <2>5
<1>31. D * (2 * C) <= payout * (D + W) + D * (2 * e)
  <2>1. (2 * C) * A <= sxy * payout + (2 * e) * A
    <3>1. (2 * C) * A = C * (2 * A) /\ (2 * e) * A = e * (2 * A)
      BY <1>0, <1>18, <1>21
    <3> QED BY <1>21, <3>1
  <2>2. 2 * C \in Nat /\ 2 * e \in Nat /\ D + W \in Nat
    BY <1>0, <1>3, <1>18, <1>21
  <2> QED BY <1>0, <1>17, <1>30, <2>1, <2>2, InProportion
<1>32. D * (2 * (C + M)) <= payout * (D + 2 * W) + D * (e * (2 + k))
  <2> DEFINE t == 2 * (C + M)
             r == e * (2 + k)
             s == sxy + 2 * sz
             V == D + 2 * W
  <2>1. s * payout = sxy * payout + sz * (2 * payout)
    BY <1>17
  <2>2. t * A = C * (2 * A) + M * (2 * A)
    BY <1>0, <1>21, <1>27
  <2>3. r * A = e * (2 * A) + e * (k * A)
    BY <1>0, <1>18
  <2>4. /\ sxy * payout \in Nat /\ sz * (2 * payout) \in Nat
        /\ e * (2 * A) \in Nat /\ e * (k * A) \in Nat
        /\ C * (2 * A) \in Nat /\ M * (2 * A) \in Nat
    <3>1. k * A \in Nat /\ 2 * A \in Nat /\ 2 * payout \in Nat
      BY <1>0, <1>18, ProductNat
    <3> QED BY <1>17, <1>18, <1>21, <1>27, <3>1, ProductNat
  <2>5. t * A <= s * payout + r * A
    BY <1>21, <1>27, <2>1, <2>2, <2>3, <2>4
  <2>6. t \in Nat /\ r \in Nat /\ s \in Nat /\ V \in Nat
    BY <1>0, <1>3, <1>17, <1>18, <1>21, <1>27, ProductNat
  <2>7. s * D <= V * A
    BY <1>30
  <2> HIDE DEF t, r, s, V
  <2>8. D * t <= payout * V + D * r
    BY <1>0, <2>5, <2>6, <2>7, InProportion
  <2> QED BY <2>8 DEF t, r, V
<1> QED BY <1>3, <1>20, <1>21, <1>24, <1>27, <1>28, <1>31, <1>32 DEF C, e, k, D, InBudget

-----------------------------------------------------------------------------
(* Reward points.                                                          *)

\* A storage map of numbers, with zero for a missing entry.
Counts(m) == \A k \in DOMAIN m : m[k] \in Nat

\* StorageMap::insert, seen through a ValueQuery.
LEMMA GetInsert ==
  ASSUME NEW m, NEW k, NEW v, NEW x
  PROVE  Get(MapInsert(m, k, v), x) = IF x = k THEN v ELSE Get(m, x)
BY DEF Get, Has, MapInsert

\* An entry, or zero.
LEMMA GetNat ==
  ASSUME NEW m, Counts(m), NEW x
  PROVE  Get(m, x) \in Nat
BY DEF Counts, Get, Has

\* What is inserted is a number, like what was there.
LEMMA CountsInsert ==
  ASSUME NEW m, Counts(m), NEW k, NEW v \in Nat
  PROVE  Counts(MapInsert(m, k, v))
BY DEF Counts, MapInsert

\* Points by the blocks the ghost cr knows of, in every round, and only for
\* accounts that can be authors.
PointsOK(cp, tp, cr) ==
  /\ DOMAIN cp \subseteq Nat \X Authors
  /\ Counts(cp) /\ Counts(tp) /\ Counts(cr)
  /\ \A r \in Nat : \A c \in Authors :
       Get(cp, <<r, c>>) = 20 * Noted(cr, r, c)
  /\ \A r \in Nat :
       Get(tp, r) = 20 * SumFunction([c \in Authors |-> Noted(cr, r, c)])

\* What Noted sums.
NotedIn(m, r, c) ==
  [b \in 1 .. MaxBlock + 1 |-> IF RoundOf(b) = r THEN Get(m, <<b, c>>) ELSE 0]

\* The blocks in sight are finitely many.
LEMMA BlocksFinite == IsFiniteSet(1 .. MaxBlock + 1)
<1>1. MaxBlock + 1 \in Int
  BY RewardsAssumption
<1> QED BY <1>1, FS_Interval

\* How often an author was noted is a number.
LEMMA NotedNat ==
  ASSUME NEW m, Counts(m), NEW r, NEW c
  PROVE  /\ NotedIn(m, r, c) \in [1 .. MaxBlock + 1 -> Nat]
         /\ Noted(m, r, c) = SumFunction(NotedIn(m, r, c))
         /\ Noted(m, r, c) \in Nat
<1>1. NotedIn(m, r, c) \in [1 .. MaxBlock + 1 -> Nat]
  BY GetNat DEF NotedIn
<1>2. Noted(m, r, c) = SumFunction(NotedIn(m, r, c))
  BY DEF Noted, NotedIn
<1>3. SumFunction(NotedIn(m, r, c)) \in Nat
  BY <1>1, BlocksFinite, SumOfNats
<1> QED BY <1>1, <1>2, <1>3

\* note_author in a block of round `round`: one more for its author there,
\* and nothing anywhere else.
LEMMA NotedAgain ==
  ASSUME NEW m, Counts(m), NEW b \in 1 .. MaxBlock + 1, NEW a,
         NEW n, n = MapInsert(m, <<b, a>>, Get(m, <<b, a>>) + 1)
  PROVE  /\ Counts(n)
         /\ Noted(n, RoundOf(b), a) = Noted(m, RoundOf(b), a) + 1
         /\ \A r, c : <<r, c>> # <<RoundOf(b), a>> => Noted(n, r, c) = Noted(m, r, c)
<1>1. Get(m, <<b, a>>) \in Nat
  BY GetNat
<1>2. Counts(n)
  BY <1>1, CountsInsert
<1>3. \A x, c : Get(n, <<x, c>>) =
        IF x = b /\ c = a THEN Get(m, <<b, a>>) + 1 ELSE Get(m, <<x, c>>)
  BY GetInsert
<1>4. Noted(n, RoundOf(b), a) = Noted(m, RoundOf(b), a) + 1
  <2> DEFINE f == NotedIn(m, RoundOf(b), a)
             g == NotedIn(n, RoundOf(b), a)
  <2>1. /\ f \in [1 .. MaxBlock + 1 -> Nat] /\ g \in [1 .. MaxBlock + 1 -> Nat]
        /\ Noted(m, RoundOf(b), a) = SumFunction(f)
        /\ Noted(n, RoundOf(b), a) = SumFunction(g)
    BY <1>2, NotedNat
  <2>2. g[b] = f[b] + 1
    BY <1>3 DEF NotedIn
  <2>3. \A x \in 1 .. MaxBlock + 1 : x # b => g[x] = f[x]
    BY <1>3 DEF NotedIn
  <2> DEFINE B == 1 .. MaxBlock + 1
             k == b
  <2> HIDE DEF f, g
  <2>4. /\ f \in [B -> Nat] /\ g \in [B -> Nat] /\ k \in B /\ IsFiniteSet(B)
        /\ g[k] = f[k] + 1 /\ 1 \in Nat
        /\ \A x \in B : x # k => g[x] = f[x]
    BY <2>1, <2>2, <2>3, BlocksFinite
  <2> HIDE DEF B, k
  <2>5. SumFunction(g) = SumFunction(f) + 1
    BY <2>4, SumRaise
  <2> QED BY <2>1, <2>5
<1>5. ASSUME NEW r, NEW c, <<r, c>> # <<RoundOf(b), a>>
      PROVE  Noted(n, r, c) = Noted(m, r, c)
  <2>1. \A x \in 1 .. MaxBlock + 1 :
          (IF RoundOf(x) = r THEN Get(n, <<x, c>>) ELSE 0) =
          (IF RoundOf(x) = r THEN Get(m, <<x, c>>) ELSE 0)
    BY <1>3, <1>5
  <2>2. NotedIn(n, r, c) = NotedIn(m, r, c)
    BY <2>1 DEF NotedIn
  <2> QED BY <1>2, <2>2, NotedNat
<1> QED BY <1>2, <1>4, <1>5

\* The three maps that note_author and its ghost write stay in step.
LEMMA PointsAgain ==
  ASSUME NEW cp, NEW tp, NEW cr, PointsOK(cp, tp, cr),
         NEW b \in 1 .. MaxBlock + 1, RoundOf(b) \in Nat, NEW a \in Authors
  PROVE  LET r == RoundOf(b)
         IN  PointsOK(MapInsert(cp, <<r, a>>, Get(cp, <<r, a>>) + 20),
                      MapInsert(tp, r, Get(tp, r) + 20),
                      MapInsert(cr, <<b, a>>, Get(cr, <<b, a>>) + 1))
<1> DEFINE R  == RoundOf(b)
           cq == MapInsert(cp, <<R, a>>, Get(cp, <<R, a>>) + 20)
           tq == MapInsert(tp, R, Get(tp, R) + 20)
           cs == MapInsert(cr, <<b, a>>, Get(cr, <<b, a>>) + 1)
           Old(r) == [c \in Authors |-> Noted(cr, r, c)]
           New(r) == [c \in Authors |-> Noted(cs, r, c)]
<1>1. /\ Counts(cp) /\ Counts(tp) /\ Counts(cr) /\ DOMAIN cp \subseteq Nat \X Authors
      /\ IsFiniteSet(Authors)
  BY RewardsAssumption DEF PointsOK
<1>2. /\ Counts(cs) /\ Noted(cs, R, a) = Noted(cr, R, a) + 1
      /\ \A r, c : <<r, c>> # <<R, a>> => Noted(cs, r, c) = Noted(cr, r, c)
  <2> HIDE DEF R
  <2> QED BY <1>1, NotedAgain DEF R
<1>3. \A x : Get(cq, x) = IF x = <<R, a>> THEN Get(cp, <<R, a>>) + 20 ELSE Get(cp, x)
  BY GetInsert
<1>4. \A x : Get(tq, x) = IF x = R THEN Get(tp, R) + 20 ELSE Get(tp, x)
  BY GetInsert
<1>5. Counts(cq) /\ Counts(tq)
  <2>1. Get(cp, <<R, a>>) + 20 \in Nat /\ Get(tp, R) + 20 \in Nat
    BY <1>1, GetNat
  <2> QED BY <1>1, <2>1, CountsInsert
<1>6. DOMAIN cq \subseteq Nat \X Authors
  BY <1>1 DEF MapInsert
<1> HIDE DEF cq, tq, cs, R
<1>7. \A r, c : Noted(cr, r, c) \in Nat /\ Noted(cs, r, c) \in Nat
  BY <1>1, <1>2, NotedNat
<1>8. ASSUME NEW r \in Nat, NEW c \in Authors
      PROVE  Get(cq, <<r, c>>) = 20 * Noted(cs, r, c)
  <2>1. Get(cp, <<r, c>>) = 20 * Noted(cr, r, c)
    BY DEF PointsOK
  <2>2. CASE <<r, c>> = <<R, a>>
    <3>1. r = R /\ c = a
      BY <2>2
    <3> QED BY <1>2, <1>3, <1>7, <2>1, <3>1
  <2>3. CASE <<r, c>> # <<R, a>>
    <3>1. Get(cq, <<r, c>>) = Get(cp, <<r, c>>)
      BY <1>3, <2>3
    <3> QED BY <1>2, <2>1, <2>3, <3>1
  <2> QED BY <2>2, <2>3
<1>9. ASSUME NEW r \in Nat
      PROVE  Get(tq, r) = 20 * SumFunction(New(r))
  <2>1. Get(tp, r) = 20 * SumFunction(Old(r))
    BY DEF PointsOK
  <2>2. Old(r) \in [Authors -> Nat] /\ New(r) \in [Authors -> Nat]
    BY <1>7
  <2>3. SumFunction(Old(r)) \in Nat
    BY <1>1, <2>2, SumOfNats
  <2>4. CASE r = R
    <3>1. New(r)[a] = Old(r)[a] + 1 /\ \A c \in Authors : c # a => New(r)[c] = Old(r)[c]
      BY <1>2, <2>4
    <3> HIDE DEF New, Old
    <3>2. SumFunction(New(r)) = SumFunction(Old(r)) + 1
      BY <1>1, <2>2, <3>1, SumRaise
    <3> QED BY <1>4, <2>1, <2>3, <2>4, <3>2
  <2>5. CASE r # R
    <3>1. \A c \in Authors : Noted(cs, r, c) = Noted(cr, r, c)
      BY <1>2, <2>5
    <3>2. New(r) = Old(r)
      BY <3>1
    <3> HIDE DEF New, Old
    <3> QED BY <1>4, <2>1, <2>5, <3>2
  <2> QED BY <2>4, <2>5
<1>10. PointsOK(cq, tq, cs)
  BY <1>2, <1>5, <1>6, <1>8, <1>9 DEF PointsOK
<1> QED BY <1>10 DEF cq, tq, cs, R

\* Before the first block there are no points.
LEMMA NoPoints == PointsOK(EmptyMap, EmptyMap, EmptyMap)
<1>1. Counts(EmptyMap) /\ DOMAIN EmptyMap = {}
  BY DEF Counts, EmptyMap
<1>2. \A x : Get(EmptyMap, x) = 0
  BY <1>1 DEF Get, Has
<1>3. \A r, c : Noted(EmptyMap, r, c) = 0
  <2> TAKE r, c
  <2>1. /\ NotedIn(EmptyMap, r, c) \in [1 .. MaxBlock + 1 -> Nat]
        /\ Noted(EmptyMap, r, c) = SumFunction(NotedIn(EmptyMap, r, c))
    BY <1>1, NotedNat
  <2>2. \A b \in 1 .. MaxBlock + 1 : NotedIn(EmptyMap, r, c)[b] = 0
    BY <1>2 DEF NotedIn
  <2> QED BY <2>1, <2>2, BlocksFinite, SumZero DEF SumFunction
<1>4. ASSUME NEW r PROVE SumFunction([c \in Authors |-> Noted(EmptyMap, r, c)]) = 0
  <2> DEFINE f == [c \in Authors |-> Noted(EmptyMap, r, c)]
  <2>1. DOMAIN f = Authors /\ \A c \in Authors : f[c] = 0
    BY <1>3
  <2> HIDE DEF f
  <2>2. SumFunction(f) = 0
    BY <2>1, RewardsAssumption, SumZero DEF SumFunction
  <2> QED BY <2>2 DEF f
<1>5. \A r \in Nat : \A c \in Authors :
        Get(EmptyMap, <<r, c>>) = 20 * Noted(EmptyMap, r, c)
  BY <1>2, <1>3
<1>6. \A r \in Nat :
        Get(EmptyMap, r) = 20 * SumFunction([c \in Authors |-> Noted(EmptyMap, r, c)])
  <2> TAKE r \in Nat
  <2> DEFINE t == SumFunction([c \in Authors |-> Noted(EmptyMap, r, c)])
  <2>1. t = 0
    BY <1>4
  <2> HIDE DEF t
  <2>2. Get(EmptyMap, r) = 20 * t
    BY <1>2, <2>1
  <2> QED BY <2>2 DEF t
<1> QED BY <1>1, <1>5, <1>6 DEF PointsOK

\* The collators of any round share at most its total.
LEMMA PointsShared ==
  ASSUME NEW cp, NEW tp, NEW cr, PointsOK(cp, tp, cr), NEW r \in Nat,
         NEW E, IsFiniteSet(E), NEW points \in [E -> Nat],
         \A c \in E : points[c] = Get(cp, <<r, c>>)
  PROVE  SumFunctionOnSet(points, E) <= Get(tp, r)
<1> DEFINE f == [c \in Authors |-> Noted(cr, r, c)]
           g == [c \in Authors |-> Get(cp, <<r, c>>)]
           T == E \cap Authors
<1>1. /\ Counts(cp) /\ Counts(tp) /\ Counts(cr) /\ DOMAIN cp \subseteq Nat \X Authors
      /\ IsFiniteSet(Authors)
  BY RewardsAssumption DEF PointsOK
<1>2. \A c \in Authors : f[c] \in Nat /\ g[c] \in Nat /\ g[c] = f[c] * 20
  <2> TAKE c \in Authors
  <2>1. Noted(cr, r, c) \in Nat
    BY <1>1, NotedNat
  <2>2. Get(cp, <<r, c>>) = 20 * Noted(cr, r, c)
    BY DEF PointsOK
  <2> QED BY <2>1, <2>2
<1>3. Get(tp, r) = 20 * SumFunctionOnSet(f, Authors)
  BY DEF PointsOK, SumFunction
<1>4. \A c \in T : points[c] = g[c]
  OBVIOUS
<1>5. \A c \in E \ T : points[c] = 0
  <2> TAKE c \in E \ T
  <2>1. <<r, c>> \notin DOMAIN cp
    BY <1>1
  <2> QED BY <2>1 DEF Get, Has
<1>6. IsFiniteSet(T) /\ IsFiniteSet(E \ T)
  BY FS_Subset
<1>7. T \in SUBSET E /\ T \in SUBSET Authors
  OBVIOUS
<1> HIDE DEF f, g, T
<1>8. SumFunctionOnSet(g, Authors) = SumFunctionOnSet(f, Authors) * 20
  BY <1>1, <1>2, SumScale
<1>9. SumFunctionOnSet(f, Authors) \in Nat /\ SumFunctionOnSet(g, Authors) \in Nat
  BY <1>1, <1>2, SumNat
<1>10. SumFunctionOnSet(points, E) =
         SumFunctionOnSet(points, T) + SumFunctionOnSet(points, E \ T)
  <2>1. \A c \in E : points[c] \in Int
    OBVIOUS
  <2> QED BY <1>7, <2>1, SumSplit
<1>11. SumFunctionOnSet(points, E \ T) = 0
  BY <1>5, <1>6, SumZero
<1>12. SumFunctionOnSet(points, T) = SumFunctionOnSet(g, T)
  <2>1. \A c \in T : points[c] \in Int /\ points[c] = g[c]
    BY <1>4, <1>7
  <2> QED BY <1>6, <2>1, SumEqual
<1>13. SumFunctionOnSet(g, T) <= SumFunctionOnSet(g, Authors) /\ SumFunctionOnSet(g, T) \in Nat
  BY <1>1, <1>2, <1>7, SumSubset, SumNat
<1> QED BY <1>3, <1>8, <1>9, <1>10, <1>11, <1>12, <1>13

-----------------------------------------------------------------------------
(* Exposures.                                                              *)

ElectedIn(ex, r) == {c \in Collators : <<r, c>> \in DOMAIN ex}

\* Exposures of no later round than the current one.
StakeOK(ex, st, index) ==
  /\ DOMAIN ex \subseteq Nat \X Collators
  /\ \A k \in DOMAIN ex : k[1] <= index /\ ex[k] \in Exposure
  /\ Counts(st)

\* The round change: the paid exposures go, the new round's come with its
\* TotalStakedAt, all others stay with theirs.
LEMMA StakeNext ==
  ASSUME NEW i \in Nat \ {0}, StakeOK(exposures, totalStakedAt, i), NEW e \in Elections
  PROVE  StakeOK(ExposuresAfter(i + 1, e.exposed),
                 MapInsert(totalStakedAt, i + 1, e.staked), i + 1)
<1> DEFINE D  == {k \in DOMAIN exposures : k[1] # (i + 1) - PayoutDuration}
           F  == {i + 1} \X DOMAIN e.exposed
           ex == ExposuresAfter(i + 1, e.exposed)
           st == MapInsert(totalStakedAt, i + 1, e.staked)
<1>1. /\ e.staked \in Nat /\ DOMAIN e.exposed \subseteq Collators
      /\ \A c \in DOMAIN e.exposed : e.exposed[c] \in Exposure
  BY RewardsAssumption
<1>2. /\ DOMAIN exposures \subseteq Nat \X Collators
      /\ \A k \in DOMAIN exposures : k[1] <= i /\ exposures[k] \in Exposure
      /\ Counts(totalStakedAt)
  BY DEF StakeOK
<1>3. PayoutDuration \in Nat \ {0}
  BY RewardsAssumption
<1>4. /\ DOMAIN ex = D \cup F
      /\ \A k \in F : ex[k] = e.exposed[k[2]]
      /\ \A k \in D : k \notin F => ex[k] = exposures[k]
  BY DEF ExposuresAfter, MapInsertAll
<1>5. \A k \in D : k[1] \in Nat /\ k[1] <= i /\ k \notin F
  BY <1>2
<1>9. Counts(st)
  BY <1>1, <1>2, CountsInsert
<1>10. \A k \in F : k[1] = i + 1 /\ k[2] \in DOMAIN e.exposed
  OBVIOUS
<1>11. F \subseteq Nat \X Collators /\ D \subseteq Nat \X Collators
  BY <1>1, <1>2
<1> HIDE DEF ex, st, D, F
<1>13. \A k \in DOMAIN ex : k[1] <= i + 1 /\ ex[k] \in Exposure
  <2> TAKE k \in DOMAIN ex
  <2>1. CASE k \in F
    BY <1>1, <1>4, <1>10, <2>1
  <2>2. CASE k \in D
    <3>1. k \in DOMAIN exposures
      BY <2>2 DEF D
    <3> QED BY <1>2, <1>4, <1>5, <2>2, <3>1
  <2> QED BY <1>4, <2>1, <2>2
<1>15. DOMAIN ex \subseteq Nat \X Collators
  BY <1>4, <1>11
<1> QED BY <1>9, <1>13, <1>15 DEF StakeOK, ex, st

-----------------------------------------------------------------------------
(* What one payout mints.                                                  *)

\* The interest on a round's issuance, pro-rated.
LEMMA PayoutNat ==
  ASSUME Counts(totalStakedAt), Counts(totalIssuanceAt), NEW r
  PROVE  TotalPayout(r) \in Nat
<1> DEFINE issuance == Get(totalIssuanceAt, r)
           x == FromRational(Get(totalStakedAt, r), issuance)
<1>1. issuance \in Nat /\ Get(totalStakedAt, r) \in Nat
  BY GetNat
<1>2. x \in Parts
  BY <1>1, FractionType
<1>3. TotalPayout(r) = PartOf(Portion, PartOf(Interest[x], issuance))
  BY DEF TotalPayout
<1> HIDE DEF x, issuance
<1> DEFINE i_0 == FromRational(25, 1000)
           i_ideal == FromRational(20, 100)
           d == FromRational(5, 100)
           a == [x |-> x, x_ideal |-> Half, d |-> d]
<1>4. i_0 \in Parts /\ i_ideal \in Parts /\ d \in Parts /\ Half \in Parts
  BY FractionType DEF Half
<1>5. Interest[x] = InterestAt(i_0, i_ideal, Half, ComputeInflation(a))
  BY <1>2 DEF Interest
<1> HIDE DEF i_0, i_ideal, d
<1>6. a \in Arguments
  BY <1>2, <1>4 DEF Arguments
<1> HIDE DEF a
<1>7. ComputeInflation(a) \in Parts
  BY <1>6, CurveType
<1>8. Interest[x] \in Parts
  BY <1>4, <1>5, <1>7, InterestType
<1>9. Interest[x] \in Nat /\ Portion \in Nat
  BY <1>8, PerThingAssumption, RewardsAssumption DEF Parts
<1>10. PartOf(Interest[x], issuance) \in Nat
  BY <1>1, <1>9, RoundedPart
<1>11. PartOf(Portion, PartOf(Interest[x], issuance)) \in Nat
  BY <1>9, <1>10, RoundedPart
<1> QED BY <1>3, <1>11

\* mint pays what it is asked to, or nothing.
LEMMA MintedBound ==
  ASSUME NEW who, NEW amount \in Nat
  PROVE  Minted(who, amount) \in Nat /\ Minted(who, amount) <= amount
BY DEF Minted

\* MintWithinBudget, for what one payout minted.
Budget(m) ==
  LET den == IF m.staked = 0 THEN 1 ELSE m.staked
  IN  /\ 2 * den * m.collators
           <= m.payout * (den + m.weight) + 2 * den * m.elected
      /\ 2 * den * (m.collators + m.nominators)
           <= m.payout * (den + 2 * m.weight)
                + den * m.elected * (2 + Cardinality(Nominators))

\* What holds of a number of parts holds of any smaller number of them.
LEMMA FewerParts ==
  ASSUME NEW D \in Nat, NEW x \in Nat, NEW X \in Nat, x <= X,
         NEW A \in Int, D * (2 * X) <= A
  PROVE  2 * D * x <= A
<1>1. x * D \in Nat /\ X * D \in Nat /\ x * D <= X * D
  BY ProductNat, ProductMonotone
<1>2. D * (2 * X) = 2 * (X * D) /\ 2 * D * x = 2 * (x * D)
  OBVIOUS
<1> QED BY <1>1, <1>2

\* payout_stakers for round r, out of what is stored of that round: every
\* staker gets a number of tokens, and all of them together stay within the
\* budget.
LEMMA RoundPayout ==
  ASSUME NEW i, StakeOK(exposures, totalStakedAt, i), Counts(totalIssuanceAt),
         PointsOK(collatorPoints, totalPoints, credited), NEW r \in Nat
  PROVE  /\ \A a : RewardOf(r, a, TotalPayout(r)) \in Nat
         /\ Budget(MintedFor(r))
<1> DEFINE P  == TotalPayout(r)
           E  == Elected(r)
           staked == Get(totalStakedAt, r)
           total  == Get(totalPoints, r)
           own    == [c \in E |-> exposures[<<r, c>>].own]
           others == [c \in E |-> exposures[<<r, c>>].others]
           points == [c \in E |-> Get(collatorPoints, <<r, c>>)]
           cr == [c \in E |-> CollatorReward(r, c, P)]
           nr == [c \in E |-> [n \in Nominators |-> NominatorReward(r, c, n, P)]]
<1>1. /\ DOMAIN exposures \subseteq Nat \X Collators
      /\ \A k \in DOMAIN exposures : exposures[k] \in Exposure
      /\ Counts(totalStakedAt)
  BY DEF StakeOK
<1>2. Counts(collatorPoints) /\ Counts(totalPoints)
  BY DEF PointsOK
<1>3. IsFiniteSet(Collators) /\ IsFiniteSet(Nominators)
  BY RewardsAssumption
<1>4. P \in Nat /\ staked \in Nat /\ total \in Nat
  BY <1>1, <1>2, PayoutNat, GetNat
<1>5. E = ElectedIn(exposures, r)
  <2>1. ASSUME NEW c \in E PROVE c \in ElectedIn(exposures, r)
    <3>1. PICK k \in DOMAIN exposures : k[1] = r /\ c = k[2]
      BY DEF Elected
    <3>2. k = <<r, c>> /\ c \in Collators
      BY <1>1, <3>1
    <3> QED BY <3>1, <3>2 DEF ElectedIn
  <2>2. ASSUME NEW c \in ElectedIn(exposures, r) PROVE c \in E
    <3>1. <<r, c>> \in {x \in DOMAIN exposures : x[1] = r} /\ <<r, c>>[2] = c
      BY DEF ElectedIn
    <3> QED BY <3>1 DEF Elected
  <2> QED BY <2>1, <2>2
<1>6. /\ E \subseteq Collators /\ IsFiniteSet(E)
      /\ \A c \in E : exposures[<<r, c>>] \in Exposure
  <2>1. E \subseteq Collators /\ \A c \in E : <<r, c>> \in DOMAIN exposures
    BY <1>5 DEF ElectedIn
  <2>2. IsFiniteSet(E)
    BY <1>3, <2>1, FS_Subset
  <2> QED BY <1>1, <2>1, <2>2
<1> HIDE DEF P, E, staked, total
<1>7. own \in [E -> Nat] /\ others \in [E -> [Nominators -> Nat]]
  BY <1>6 DEF Exposure
<1>8. points \in [E -> Nat]
  BY <1>2, GetNat
<1>9. SumFunction([c \in E |-> Weight(exposures[<<r, c>>])]) =
        WeightOf(E, Nominators, own, others)
  <2>1. \A c \in E : Weight(exposures[<<r, c>>]) =
                       own[c] + SumFunctionOnSet(others[c], Nominators)
    <3> TAKE c \in E
    <3>1. exposures[<<r, c>>].others \in [Nominators -> Nat]
      BY <1>6 DEF Exposure
    <3>2. DOMAIN exposures[<<r, c>>].others = Nominators
      BY <3>1
    <3> QED BY <3>2 DEF Weight, SumFunction
  <2> DEFINE f == [c \in E |-> Weight(exposures[<<r, c>>])]
  <2>2. f = [c \in E |-> own[c] + SumFunctionOnSet(others[c], Nominators)]
    BY <2>1
  <2>3. DOMAIN f = E
    OBVIOUS
  <2> HIDE DEF own, others, f
  <2>4. SumFunction(f) = SumFunctionOnSet(f, E)
    BY <2>3 DEF SumFunction
  <2> QED BY <2>2, <2>4 DEF WeightOf, f
<1>10. SumFunctionOnSet(points, E) <= total
  <2>1. \A c \in E : points[c] = Get(collatorPoints, <<r, c>>)
    OBVIOUS
  <2> HIDE DEF points
  <2> QED BY <1>6, <1>8, <2>1, PointsShared DEF total
<1>11. cr = [c \in E |->
               PartOf(PartOfPart(Half, FromRational(own[c], staked)), P)
               + PartOf(PartOfPart(Half, FromRational(points[c], total)), P)]
  <2>1. \A c \in E : CollatorReward(r, c, P) =
               PartOf(PartOfPart(Half, FromRational(own[c], staked)), P)
               + PartOf(PartOfPart(Half, FromRational(points[c], total)), P)
    BY DEF CollatorReward, staked, total
  <2> HIDE DEF own, points
  <2> QED BY <2>1
<1>12. nr = [c \in E |-> [n \in Nominators |-> PartOf(FromRational(others[c][n], staked), P)]]
  <2>1. \A c \in E : \A n \in Nominators :
          NominatorReward(r, c, n, P) = PartOf(FromRational(others[c][n], staked), P)
    BY DEF NominatorReward, staked
  <2> HIDE DEF others
  <2> QED BY <2>1
<1>13. \A c \in E : cr[c] = CollatorReward(r, c, P)
  OBVIOUS
<1>14. \A c \in E : \A n \in Nominators : nr[c][n] = NominatorReward(r, c, n, P)
  OBVIOUS
<1> HIDE DEF own, others, points, cr, nr
<1> DEFINE C == SumFunctionOnSet(cr, E)
           M == SumFunctionOnSet([c \in E |-> SumFunctionOnSet(nr[c], Nominators)], E)
           D == Divisor(staked)
           W == WeightOf(E, Nominators, own, others)
           e == Cardinality(E)
           k == Cardinality(Nominators)
<1>15. /\ cr \in [E -> Nat] /\ nr \in [E -> [Nominators -> Nat]]
       /\ C \in Nat /\ M \in Nat
       /\ D * (2 * C) <= P * (D + W) + D * (2 * e)
       /\ D * (2 * (C + M)) <= P * (D + 2 * W) + D * (e * (2 + k))
  <2>1. Rewarded(E, Nominators, P, staked, total, own, others, points, cr, nr)
    BY <1>4, <1>7, <1>8, <1>10, <1>11, <1>12, Zenon DEF Rewarded
  <2>2. InBudget(E, Nominators, P, D, W, cr, nr)
    BY <1>3, <1>6, <2>1, PayoutBudget
  <2> QED BY <2>2 DEF InBudget
<1> DEFINE ac == [a \in Collators |-> AsCollator(r, a, P)]
           an == [a \in Nominators |-> AsNominator(r, a, P)]
<1>16. \A a : /\ AsCollator(r, a, P) \in Nat
              /\ a \in E => AsCollator(r, a, P) <= cr[a]
              /\ a \notin E => AsCollator(r, a, P) = 0
  <2> TAKE a
  <2>1. CASE a \in E
    <3>1. cr[a] \in Nat /\ AsCollator(r, a, P) = Minted(a, cr[a])
      BY <1>13, <1>15, <2>1 DEF AsCollator, E
    <3> QED BY <2>1, <3>1, MintedBound
  <2>2. CASE a \notin E
    BY <2>2 DEF AsCollator, E
  <2> QED BY <2>1, <2>2
<1>17. \A a : AsNominator(r, a, P) \in Nat
  <2> TAKE a
  <2>1. CASE a \notin Nominators
    BY <2>1 DEF AsNominator
  <2>2. CASE a \in Nominators
    <3> DEFINE f == [c \in E |-> Minted(a, NominatorReward(r, c, a, P))]
    <3>1. \A c \in E : f[c] \in Nat
      BY <1>14, <1>15, <2>2, MintedBound
    <3>2. DOMAIN f = E
      OBVIOUS
    <3>3. AsNominator(r, a, P) = SumFunction(f)
      BY <2>2 DEF AsNominator, E
    <3> HIDE DEF f
    <3> QED BY <1>6, <3>1, <3>2, <3>3, SumOfNats
  <2> QED BY <2>1, <2>2
<1>18. \A a : RewardOf(r, a, P) \in Nat
  BY <1>16, <1>17 DEF RewardOf
<1>19. SumFunctionOnSet(ac, Collators) \in Nat /\ SumFunctionOnSet(ac, Collators) <= C
  <2>1. \A a \in Collators : ac[a] = AsCollator(r, a, P)
    OBVIOUS
  <2> HIDE DEF ac
  <2>2. \A a \in Collators : ac[a] \in Nat /\ ac[a] \in Int
    BY <1>16, <2>1
  <2>3. SumFunctionOnSet(ac, Collators) =
          SumFunctionOnSet(ac, E) + SumFunctionOnSet(ac, Collators \ E)
    BY <1>3, <1>6, <2>2, SumSplit
  <2>4. SumFunctionOnSet(ac, Collators \ E) = 0
    <3>1. IsFiniteSet(Collators \ E)
      BY <1>3, FS_Subset
    <3>2. \A a \in Collators \ E : ac[a] = 0
      BY <1>16, <2>1
    <3> QED BY <3>1, <3>2, SumZero
  <2>5. SumFunctionOnSet(ac, E) <= SumFunctionOnSet(cr, E)
    <3>1. \A a \in E : ac[a] \in Int /\ cr[a] \in Int /\ ac[a] <= cr[a]
      BY <1>6, <1>15, <1>16, <2>1, <2>2
    <3> QED BY <1>6, <3>1, SumLeq
  <2>6. SumFunctionOnSet(ac, E) \in Nat
    BY <1>6, <2>2, SumNat
  <2> QED BY <1>15, <2>3, <2>4, <2>5, <2>6
<1>20. SumFunctionOnSet(an, Nominators) \in Nat /\ SumFunctionOnSet(an, Nominators) <= M
  <2> DEFINE G == [n \in Nominators |-> SumFunctionOnSet([c \in E |-> nr[c][n]], E)]
  <2>1. SumFunctionOnSet(G, Nominators) = M
    BY <1>3, <1>6, <1>15, SumSwap
  <2>2. \A n \in Nominators : an[n] = AsNominator(r, n, P) /\ an[n] \in Nat
    BY <1>17
  <2>3. \A n \in Nominators : G[n] \in Nat /\ an[n] <= G[n]
    <3> TAKE n \in Nominators
    <3> DEFINE f == [c \in E |-> Minted(n, NominatorReward(r, c, n, P))]
               g == [c \in E |-> nr[c][n]]
    <3>1. \A c \in E : f[c] \in Nat /\ g[c] \in Nat /\ f[c] <= g[c]
      BY <1>14, <1>15, MintedBound
    <3>2. DOMAIN f = E
      OBVIOUS
    <3>3. an[n] = SumFunction(f)
      BY DEF AsNominator, E
    <3>4. G[n] = SumFunctionOnSet(g, E)
      OBVIOUS
    <3> HIDE DEF f, g, G, an
    <3>5. SumFunctionOnSet(g, E) \in Nat
      BY <1>6, <3>1, SumNat
    <3>6. \A c \in E : f[c] \in Int /\ g[c] \in Int /\ f[c] <= g[c]
      BY <3>1
    <3>7. SumFunctionOnSet(f, E) <= SumFunctionOnSet(g, E)
      BY <1>6, <3>6, SumLeq
    <3> QED BY <3>2, <3>3, <3>4, <3>5, <3>7 DEF SumFunction
  <2> HIDE DEF G, an
  <2>4. \A n \in Nominators : an[n] \in Int /\ G[n] \in Int /\ an[n] <= G[n]
    BY <2>2, <2>3
  <2>5. SumFunctionOnSet(an, Nominators) <= SumFunctionOnSet(G, Nominators)
    BY <1>3, <2>4, SumLeq
  <2>6. SumFunctionOnSet(an, Nominators) \in Nat
    BY <1>3, <2>2, SumNat
  <2> QED BY <2>1, <2>5, <2>6
<1>21. Budget(MintedFor(r))
  <2> DEFINE m == MintedFor(r)
  <2>1. /\ m.payout = P /\ m.elected = e /\ m.staked = staked
        /\ m.collators = SumFunction(ac) /\ m.nominators = SumFunction(an)
        /\ m.weight = SumFunction([c \in E |-> Weight(exposures[<<r, c>>])])
    BY DEF MintedFor, P, E, staked
  <2>2. /\ m.collators = SumFunctionOnSet(ac, Collators)
        /\ m.nominators = SumFunctionOnSet(an, Nominators)
    <3>1. DOMAIN ac = Collators /\ DOMAIN an = Nominators
      OBVIOUS
    <3> HIDE DEF ac, an, m
    <3> QED BY <2>1, <3>1 DEF SumFunction
  <2>3. e \in Nat /\ k \in Nat
    BY <1>3, <1>6, FS_CardinalityType
  <2>4. m.weight = W
    BY <1>9, <2>1
  <2>5. D \in Nat /\ D = IF m.staked = 0 THEN 1 ELSE m.staked
    BY <1>4, <2>1, FractionUnder DEF Divisor
  <2> DEFINE c == m.collators
             n == m.nominators
  <2> HIDE DEF m, ac, an, C, M, D, W, e
  <2>6. c \in Nat /\ n \in Nat /\ c <= C /\ n <= M
    BY <1>19, <1>20, <2>2
  <2> HIDE DEF c, n
  <2>7. W \in Nat
    <3>1. \A x \in E : SumFunctionOnSet(others[x], Nominators) \in Nat
      BY <1>3, <1>7, SumNat
    <3> DEFINE f == [x \in E |-> own[x] + SumFunctionOnSet(others[x], Nominators)]
    <3>2. \A x \in E : f[x] \in Nat
      BY <1>7, <3>1
    <3> HIDE DEF f
    <3>3. SumFunctionOnSet(f, E) \in Nat
      BY <1>6, <3>2, SumNat
    <3> QED BY <3>3 DEF W, WeightOf, f
  <2> HIDE DEF k
  <2>8. /\ C \in Nat /\ M \in Nat
        /\ D * (2 * C) <= P * (D + W) + D * (2 * e)
        /\ D * (2 * (C + M)) <= P * (D + 2 * W) + D * (e * (2 + k))
    BY <1>15
  <2>9. 2 * D * c <= P * (D + W) + 2 * D * e
    <3>1. P * (D + W) \in Nat /\ D * (2 * e) \in Nat /\ D * (2 * e) = 2 * D * e
      BY <1>4, <2>3, <2>5, <2>7, ProductNat
    <3>2. P * (D + W) + D * (2 * e) \in Int
      BY <3>1
    <3>3. 2 * D * c <= P * (D + W) + D * (2 * e)
      BY <2>5, <2>6, <2>8, <3>2, FewerParts
    <3> QED BY <3>1, <3>3
  <2>10. 2 * D * (c + n) <= P * (D + 2 * W) + D * e * (2 + k)
    <3>1. e * (2 + k) \in Nat
      BY <2>3, ProductNat
    <3>2. /\ P * (D + 2 * W) \in Nat /\ D * (e * (2 + k)) \in Nat
          /\ D * (e * (2 + k)) = D * e * (2 + k)
      BY <1>4, <2>3, <2>5, <2>7, <3>1, ProductNat
    <3>3. P * (D + 2 * W) + D * (e * (2 + k)) \in Int
      BY <3>2
    <3>4. c + n \in Nat /\ C + M \in Nat /\ c + n <= C + M
      BY <2>6, <2>8
    <3>5. 2 * D * (c + n) <= P * (D + 2 * W) + D * (e * (2 + k))
      BY <2>5, <2>8, <3>3, <3>4, FewerParts
    <3> QED BY <3>2, <3>5
  <2> QED BY <2>1, <2>4, <2>5, <2>9, <2>10 DEF Budget, m, c, n, k
<1> QED BY <1>18, <1>21 DEF P

-----------------------------------------------------------------------------
(* Rounds, points, exposures and payouts.                                  *)

\* A full round of blocks has started, and is not over.
RoundOK(h, round) ==
  /\ round.index \in Nat \ {0} /\ round.length = BlocksPerRound
  /\ round.start_in \in Nat
  /\ round.start_in = (round.index - 1) * BlocksPerRound
  /\ round.start_in <= h /\ h < round.start_in + BlocksPerRound
  /\ round = [index |-> round.index, start_in |-> round.start_in,
              length |-> round.length]

\* The block being executed when the bound is reached has no single author.
HeightOK ==
  /\ height <= MaxBlock
  /\ phase = "executing" /\ height = MaxBlock => Len(claims) + Len(logs) # 1

\* note_author writes before a block can turn out to be invalid, so the
\* points of the parent are part of the invariant too.
RInv ==
  /\ IInv
  /\ HeightOK /\ notes \in 0 .. MaxNotes
  /\ RoundOK(height, currentRound)
  /\ PointsOK(collatorPoints, totalPoints, credited)
  /\ PointsOK(parent.collators, parent.total, parent.credited)
  /\ StakeOK(exposures, totalStakedAt, currentRound.index)
  /\ Counts(totalIssuanceAt)
  /\ balance \in [Stakers -> Nat]
  /\ \A r \in DOMAIN minted : Budget(minted[r])

\* The digests that agree with an author are a sequence of authors.
LEMMA DigestsType ==
  ASSUME NEW a, NEW digests, Agree(a, digests)
  PROVE  digests \in Seq(Authors) /\ a \in Authors \cup {NoAuthor}
<1>1. CASE a = NoAuthor /\ digests = <<>>
  <2>1. <<>> \in Seq(Authors)
    OBVIOUS
  <2> QED BY <1>1, <2>1
<1>2. CASE a \in Authors /\ digests = <<a>>
  <2>1. ASSUME NEW c \in Authors PROVE <<c>> \in Seq(Authors)
    OBVIOUS
  <2> QED BY <1>2, <2>1
<1> QED BY <1>1, <1>2 DEF Agree

\* A block number between two multiples of the length of a round.
LEMMA RoundNumber ==
  ASSUME NEW q \in Nat, NEW b \in Nat, b > 0, NEW h \in Nat, q * b <= h, h < q * b + b
  PROVE  h \div b = q
<1> DEFINE d == h \div b
<1>1. d \in Nat /\ d * b <= h /\ h < d * b + b
  OBVIOUS
<1> HIDE DEF d
<1>2. ASSUME d < q PROVE FALSE
  <2>1. (d + 1) * b <= q * b
    BY <1>1, <1>2, ProductMonotone
  <2>2. (d + 1) * b = d * b + b
    BY <1>1
  <2>3. d * b \in Nat /\ q * b \in Nat
    BY <1>1, ProductNat
  <2> QED BY <1>1, <2>1, <2>2, <2>3
<1>3. ASSUME q < d PROVE FALSE
  <2>1. (q + 1) * b <= d * b
    BY <1>1, <1>3, ProductMonotone
  <2>2. (q + 1) * b = q * b + b
    OBVIOUS
  <2>3. d * b \in Nat /\ q * b \in Nat
    BY <1>1, ProductNat
  <2> QED BY <1>1, <2>1, <2>2, <2>3
<1>4. d = q
  BY <1>1, <1>2, <1>3
<1> QED BY <1>4 DEF d

\* The block that is being executed belongs to the current round, also when
\* its on_finalize is going to start the next one.
LEMMA PointsForThisRound ==
  ASSUME NEW h \in Nat, NEW round, RoundOK(h, round)
  PROVE  RoundOf(h + 1) = round.index
<1>1. BlocksPerRound \in Nat /\ BlocksPerRound > 0
  BY RewardsAssumption
<1>2. round.index - 1 \in Nat
  BY DEF RoundOK
<1>3. (round.index - 1) * BlocksPerRound <= h
      /\ h < (round.index - 1) * BlocksPerRound + BlocksPerRound
  BY DEF RoundOK
<1>4. h \div BlocksPerRound = round.index - 1
  BY <1>1, <1>2, <1>3, RoundNumber
<1>5. (h + 1) - 1 = h
  OBVIOUS
<1> QED BY <1>2, <1>4, <1>5 DEF RoundOf, RoundOK

\* Genesis.
LEMMA InitRInv == Init => RInv
<1> SUFFICES ASSUME Init PROVE RInv
  OBVIOUS
<1>1. IInv
  BY InitIInv
<1>2. HeightOK /\ notes \in 0 .. MaxNotes
  BY RewardsAssumption DEF Init, HeightOK
<1>3. RoundOK(height, currentRound)
  BY RewardsAssumption DEF Init, RoundOK
<1>4. PointsOK(collatorPoints, totalPoints, credited)
  BY NoPoints DEF Init
<1>5. PointsOK(parent.collators, parent.total, parent.credited)
  <2>1. /\ parent.collators = collatorPoints /\ parent.total = totalPoints
        /\ parent.credited = credited
    BY DEF Init, Storage
  <2> QED BY <1>4, <2>1
<1>6. Counts(totalStakedAt)
  BY RewardsAssumption DEF Init, Counts
<1>7. balance \in [Stakers -> Nat] /\ IsFiniteSet(Stakers)
  <2>1. IsFiniteSet(Collators \cup Nominators)
    BY RewardsAssumption, FS_Union
  <2> QED BY <2>1, RewardsAssumption DEF Init, Stakers
<1>8. Counts(totalIssuanceAt)
  <2>1. Endowment \in [Stakers -> Nat] /\ Elsewhere \in Nat
    BY RewardsAssumption
  <2>2. SumFunction(Endowment) \in Nat
    BY <1>7, <2>1, SumOfNats
  <2>3. TotalIssuance(Endowment) \in Nat
    BY <2>1, <2>2 DEF TotalIssuance
  <2> QED BY <2>3 DEF Init, Counts
<1>9. exposures = EmptyMap /\ DOMAIN exposures = {}
  BY DEF Init, EmptyMap
<1>10. StakeOK(exposures, totalStakedAt, currentRound.index)
  BY <1>6, <1>9 DEF StakeOK
<1>11. DOMAIN minted = {}
  BY DEF Init, EmptyMap
<1> QED BY <1>1, <1>2, <1>3, <1>4, <1>5, <1>7, <1>8, <1>10, <1>11 DEF RInv

\* on_initialize counts nothing.
LEMMA InitializeRInv ==
  ASSUME RInv, NEW body \in Bodies, InitializeBlock(body)
  PROVE  RInv'
<1>1. /\ IInv' /\ phase' = "executing" /\ claims' = body /\ logs' = <<>>
      /\ notes' = 0 /\ UNCHANGED <<height, staking, parent>>
      /\ Len(body) = 1 => height < MaxBlock
  BY InitializeIInv DEF RInv, InitializeBlock, AuthorInitialize
<1>2. body \in Seq(Authors) /\ height \in Nat /\ MaxBlock \in Nat /\ MaxNotes \in Nat
  BY BodiesType, RewardsAssumption DEF RInv, IInv
<1>3. HeightOK' /\ notes' \in 0 .. MaxNotes
  <2>1. Len(claims') + Len(logs') = Len(body)
    BY <1>1, <1>2
  <2> QED BY <1>1, <1>2, <2>1 DEF RInv, HeightOK
<1> QED BY <1>1, <1>3 DEF RInv, staking

\* set_author moves a claim of the block into its header.
LEMMA InherentRInv ==
  ASSUME RInv, Inherent
  PROVE  RInv'
<1>1. /\ IInv' /\ claims # <<>> /\ UNCHANGED <<phase, height, notes, staking, parent>>
      /\ logs' = Append(logs, Head(claims)) /\ claims' = Tail(claims)
  BY InherentIInv DEF RInv, Inherent, SetAuthor
<1>2. claims \in Seq(Authors) /\ logs \in Seq(Authors)
  BY DigestsType DEF RInv, IInv
<1>3. Len(claims') + Len(logs') = Len(claims) + Len(logs)
  BY <1>1, <1>2
<1>4. HeightOK'
  BY <1>1, <1>3 DEF RInv, HeightOK
<1> QED BY <1>1, <1>4 DEF RInv, staking

\* note_author credits the round its block belongs to.
LEMMA NoteRInv ==
  ASSUME RInv, NEW a \in Authors, NoteAuthor(a)
  PROVE  RInv'
<1>1. IInv'
  BY NoteIInv DEF RInv
<1>2. /\ UNCHANGED <<authorVars, height, currentRound, exposures, totalStakedAt,
                     totalIssuanceAt, balance, minted, parent>>
      /\ notes' = notes + 1 /\ notes < MaxNotes
  BY DEF NoteAuthor
<1>3. /\ height \in Nat /\ MaxBlock \in Nat /\ height <= MaxBlock
      /\ RoundOK(height, currentRound)
  BY RewardsAssumption DEF RInv, IInv, HeightOK
<1> DEFINE b == height + 1
<1>4. b \in 1 .. MaxBlock + 1 /\ RoundOf(b) = PointsRound /\ RoundOf(b) \in Nat
  <2>1. RoundOf(b) = currentRound.index
    BY <1>3, PointsForThisRound
  <2> QED BY <1>3, <2>1 DEF PointsRound, RoundOK
<1>5. /\ collatorPoints' = MapInsert(collatorPoints, <<RoundOf(b), a>>,
                                     Get(collatorPoints, <<RoundOf(b), a>>) + 20)
      /\ totalPoints' = MapInsert(totalPoints, RoundOf(b), Get(totalPoints, RoundOf(b)) + 20)
      /\ credited' = MapInsert(credited, <<b, a>>, Get(credited, <<b, a>>) + 1)
  BY <1>4 DEF NoteAuthor
<1> HIDE DEF b
<1>6. PointsOK(collatorPoints, totalPoints, credited)
  BY DEF RInv
<1>7. PointsOK(collatorPoints', totalPoints', credited')
  BY <1>4, <1>5, <1>6, PointsAgain
<1>8. notes' \in 0 .. MaxNotes
  BY <1>2, RewardsAssumption DEF RInv
<1>9. HeightOK'
  BY <1>2 DEF RInv, HeightOK, authorVars
<1> QED BY <1>1, <1>2, <1>7, <1>8, <1>9 DEF RInv

\* The round change pays one round and opens the next.
LEMMA StartRoundRInv ==
  ASSUME RInv, ShouldGotoNextRound, NEW e \in Elections,
         StartRound(currentRound.index + 1, e), height' = height + 1
  PROVE  /\ RoundOK(height', currentRound')
         /\ StakeOK(exposures', totalStakedAt', currentRound'.index)
         /\ Counts(totalIssuanceAt') /\ balance' \in [Stakers -> Nat]
         /\ \A r \in DOMAIN minted' : Budget(minted'[r])
         /\ UNCHANGED <<collatorPoints, totalPoints, credited>>
<1> DEFINE i == currentRound.index
           r == (i + 1) - PayoutDuration
<1>1. /\ i \in Nat \ {0} /\ PayoutDuration \in Nat \ {0} /\ height \in Nat
      /\ BlocksPerRound \in Nat \ {0}
      /\ StakeOK(exposures, totalStakedAt, i) /\ Counts(totalIssuanceAt)
      /\ PointsOK(collatorPoints, totalPoints, credited)
      /\ balance \in [Stakers -> Nat]
      /\ \A x \in DOMAIN minted : Budget(minted[x])
  BY RewardsAssumption DEF RInv, RoundOK, IInv
<1>2. /\ currentRound' = [index |-> i + 1, start_in |-> height + 1,
                          length |-> BlocksPerRound]
      /\ balance' = Paid(i + 1)
      /\ exposures' = ExposuresAfter(i + 1, e.exposed)
      /\ totalStakedAt' = MapInsert(totalStakedAt, i + 1, e.staked)
      /\ totalIssuanceAt' = MapInsert(totalIssuanceAt, i + 1, IssuanceAfter(i + 1))
      /\ minted' = IF i + 1 > PayoutDuration
                     THEN MapInsert(minted, r, MintedFor(r)) ELSE minted
      /\ UNCHANGED <<collatorPoints, totalPoints, credited>>
  BY DEF StartRound
<1>3. RoundOK(height', currentRound')
  <2> DEFINE s == (i - 1) * BlocksPerRound
  <2>1. s \in Nat /\ s <= height /\ height < s + BlocksPerRound
        /\ height + 1 - s >= BlocksPerRound
    BY DEF RInv, RoundOK, ShouldGotoNextRound
  <2>2. i * BlocksPerRound = s + BlocksPerRound
    BY <1>1
  <2> HIDE DEF s
  <2>3. height + 1 = i * BlocksPerRound
    BY <1>1, <2>1, <2>2
  <2>4. ((i + 1) - 1) * BlocksPerRound = i * BlocksPerRound
    BY <1>1
  <2> DEFINE n == i * BlocksPerRound
  <2>5. height + 1 = n /\ ((i + 1) - 1) * BlocksPerRound = n
    BY <2>3, <2>4
  <2> HIDE DEF n, i
  <2> QED BY <1>1, <1>2, <2>5 DEF RoundOK
<1>4. StakeOK(exposures', totalStakedAt', currentRound'.index)
  <2>1. currentRound'.index = i + 1
    BY <1>2
  <2> HIDE DEF i
  <2> QED BY <1>1, <1>2, <2>1, StakeNext
<1>5. i + 1 > PayoutDuration =>
        /\ r \in Nat /\ \A a : RewardOf(r, a, TotalPayout(r)) \in Nat
        /\ Budget(MintedFor(r))
  <2> SUFFICES ASSUME i + 1 > PayoutDuration
               PROVE  /\ r \in Nat /\ \A a : RewardOf(r, a, TotalPayout(r)) \in Nat
                      /\ Budget(MintedFor(r))
    OBVIOUS
  <2>1. r \in Nat
    BY <1>1
  <2> HIDE DEF r, i
  <2> QED BY <1>1, <2>1, RoundPayout
<1>6. balance' \in [Stakers -> Nat]
  <2>1. CASE i + 1 > PayoutDuration
    <3>1. balance' = [a \in Stakers |-> balance[a] + RewardOf(r, a, TotalPayout(r))]
      BY <1>2, <2>1 DEF Paid
    <3> HIDE DEF r, i
    <3> QED BY <1>1, <1>5, <2>1, <3>1
  <2>2. CASE ~ (i + 1 > PayoutDuration)
    BY <1>1, <1>2, <2>2 DEF Paid
  <2> QED BY <2>1, <2>2
<1>7. Counts(totalIssuanceAt')
  <2>1. IsFiniteSet(Stakers)
    BY RewardsAssumption, FS_Union DEF Stakers
  <2>2. SumFunction(balance') \in Nat
    BY <1>6, <2>1, SumOfNats
  <2>3. IssuanceAfter(i + 1) = Elsewhere + SumFunction(balance')
    BY <1>2 DEF IssuanceAfter, TotalIssuance
  <2>4. IssuanceAfter(i + 1) \in Nat
    BY <2>2, <2>3, RewardsAssumption
  <2> QED BY <1>1, <1>2, <2>4, CountsInsert
<1>8. \A x \in DOMAIN minted' : Budget(minted'[x])
  <2>1. CASE i + 1 > PayoutDuration
    <3>1. minted' = MapInsert(minted, r, MintedFor(r)) /\ Budget(MintedFor(r))
      BY <1>2, <1>5, <2>1
    <3> HIDE DEF r, i
    <3>2. DOMAIN minted' = DOMAIN minted \cup {r}
      BY <3>1 DEF MapInsert
    <3>3. \A x \in DOMAIN minted' : minted'[x] = IF x = r THEN MintedFor(r) ELSE minted[x]
      BY <3>1 DEF MapInsert
    <3> QED BY <1>1, <3>1, <3>2, <3>3
  <2>2. CASE ~ (i + 1 > PayoutDuration)
    BY <1>1, <1>2, <2>2
  <2> QED BY <2>1, <2>2
<1> QED BY <1>2, <1>3, <1>4, <1>6, <1>7, <1>8

\* on_finalize: another block of the round, or the next round.
LEMMA FinalizeRInv ==
  ASSUME RInv, FinalizeBlock
  PROVE  RInv'
<1>1. /\ IInv' /\ height' = height + 1 /\ phase = "executing" /\ claims = <<>>
      /\ author # NoAuthor /\ phase' = "between" /\ notes' = 0 /\ parent' = Storage'
  BY FinalizeIInv DEF RInv, FinalizeBlock, AuthorFinalize, AuthorWasSet
<1>2. HeightOK' /\ notes' \in 0 .. MaxNotes
  <2>1. Len(claims) + Len(logs) = 1
    BY <1>1 DEF RInv, IInv, Agree
  <2>2. height \in Nat /\ MaxBlock \in Nat /\ MaxNotes \in Nat
    BY RewardsAssumption DEF RInv, IInv
  <2>3. height < MaxBlock
    BY <1>1, <2>1, <2>2 DEF RInv, HeightOK
  <2> QED BY <1>1, <2>2, <2>3 DEF HeightOK
<1>3. /\ parent'.collators = collatorPoints' /\ parent'.total = totalPoints'
      /\ parent'.credited = credited'
  BY <1>1 DEF Storage
<1>4. /\ RoundOK(height', currentRound')
      /\ StakeOK(exposures', totalStakedAt', currentRound'.index)
      /\ Counts(totalIssuanceAt') /\ balance' \in [Stakers -> Nat]
      /\ \A r \in DOMAIN minted' : Budget(minted'[r])
      /\ UNCHANGED <<collatorPoints, totalPoints, credited>>
  <2>1. CASE ShouldGotoNextRound
    <3>1. PICK e \in Elections : StartRound(currentRound.index + 1, e)
      BY <2>1 DEF FinalizeBlock
    <3> QED BY <1>1, <2>1, <3>1, StartRoundRInv
  <2>2. CASE ~ ShouldGotoNextRound
    <3>1. UNCHANGED staking
      BY <2>2 DEF FinalizeBlock
    <3>2. RoundOK(height', currentRound')
      <4>1. height \in Nat /\ BlocksPerRound \in Nat
        BY RewardsAssumption DEF RInv, IInv
      <4>2. height + 1 - currentRound.start_in < BlocksPerRound
        BY <2>2, <4>1 DEF RInv, RoundOK, ShouldGotoNextRound
      <4> QED BY <1>1, <3>1, <4>1, <4>2 DEF RInv, RoundOK, staking
    <3> QED BY <3>1, <3>2 DEF RInv, staking
  <2> QED BY <2>1, <2>2
<1>5. PointsOK(collatorPoints', totalPoints', credited')
  BY <1>4 DEF RInv
<1> QED BY <1>1, <1>2, <1>3, <1>4, <1>5 DEF RInv

\* An invalid block takes its notes with it.
LEMMA DropRInv ==
  ASSUME RInv, DropBlock
  PROVE  RInv'
<1>1. /\ IInv' /\ phase' = "between" /\ notes' = 0
      /\ collatorPoints' = parent.collators /\ totalPoints' = parent.total
      /\ credited' = parent.credited
      /\ UNCHANGED <<height, parent, currentRound, exposures, totalStakedAt,
                     totalIssuanceAt, balance, minted>>
  BY DropIInv DEF RInv, DropBlock
<1>2. HeightOK' /\ notes' \in 0 .. MaxNotes
  BY <1>1, RewardsAssumption DEF RInv, HeightOK
<1> QED BY <1>1, <1>2 DEF RInv

\* Every step keeps the invariant.
LEMMA NextRInv == RInv /\ [Next]_vars => RInv'
<1> SUFFICES ASSUME RInv, [Next]_vars PROVE RInv'
  OBVIOUS
<1>1. CASE UNCHANGED vars
  <2>1. IInv'
    BY <1>1, NextIInv DEF RInv
  <2>2. UNCHANGED <<phase, claims, logs, height, notes, staking, parent>>
    BY <1>1 DEF vars, authorVars
  <2>3. HeightOK'
    BY <2>2 DEF RInv, HeightOK
  <2> QED BY <2>1, <2>2, <2>3 DEF RInv, staking
<1>2. CASE Next
  BY <1>2, InitializeRInv, InherentRInv, NoteRInv, FinalizeRInv, DropRInv DEF Next
<1> QED BY <1>1, <1>2

\* The invariant holds of every chain of blocks, rounds and payouts.
THEOREM RewardsInvariance == Spec => []RInv
BY InitRInv, NextRInv, PTL DEF Spec

\* The storage of author-inherent and staking keeps its types through valid
\* and invalid blocks, and no payout takes tokens away from a staker.
THEOREM TypeCorrect == Spec => []TypeOK
<1>1. RInv => TypeOK
  <2> SUFFICES ASSUME RInv PROVE TypeOK
    OBVIOUS
  <2>1. /\ phase \in {"between", "executing"} /\ claims \in Seq(Authors)
        /\ logs \in Seq(Authors) /\ author \in Authors \cup {NoAuthor}
    BY DigestsType DEF RInv, IInv
  <2>2. height \in 0 .. MaxBlock /\ notes \in 0 .. MaxNotes
    BY RewardsAssumption DEF RInv, IInv, HeightOK
  <2>3. currentRound \in [index : Nat \ {0}, start_in : Nat, length : Nat]
    BY RewardsAssumption DEF RInv, RoundOK
  <2>4. /\ \A k \in DOMAIN collatorPoints : collatorPoints[k] \in Nat
        /\ DOMAIN exposures \subseteq Nat \X Collators
        /\ \A k \in DOMAIN exposures : exposures[k] \in Exposure
        /\ balance \in [Stakers -> Nat]
    BY DEF RInv, PointsOK, StakeOK, Counts
  <2> QED BY <2>1, <2>2, <2>3, <2>4 DEF TypeOK
<1> QED BY <1>1, RewardsInvariance, PTL

\* Every note_author of an accepted block counts once, in the round its block
\* belongs to, however many invalid blocks come between.
THEOREM PointsAreEarned == Spec => []PointsMatchBlocks
<1>1. RInv => PointsMatchBlocks
  <2> SUFFICES ASSUME RInv, NEW r \in 1 .. RoundOf(MaxBlock + 1) + 1
               PROVE  /\ \A c \in Authors :
                           Get(collatorPoints, <<r, c>>) = 20 * Noted(credited, r, c)
                      /\ Get(totalPoints, r) =
                           20 * SumFunction([c \in Authors |-> Noted(credited, r, c)])
    BY DEF PointsMatchBlocks
  <2>1. r \in Nat
    OBVIOUS
  <2> QED BY <2>1 DEF RInv, PointsOK
<1> QED BY <1>1, RewardsInvariance, PTL

\* For every curve, every set of stakers and every election, whether or not
\* TotalStaked covers it: a payout mints no more than half of what the curve
\* allots to its round for points, half for the collators' stake and the whole
\* for the nominators', by their share of TotalStaked, up to rounding.
THEOREM MintIsBounded == Spec => []MintWithinBudget
<1>1. RInv => MintWithinBudget
  BY DEF RInv, Budget, MintWithinBudget
<1> QED BY <1>1, RewardsInvariance, PTL
=============================================================================
