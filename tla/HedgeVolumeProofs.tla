------------------------- MODULE HedgeVolumeProofs -------------------------
(***************************************************************************)
(* The volumes of a pair, for any precision and any case whose numbers are   *)
(* small against it. Each result of Quot and Times is Near the exact one; a  *)
(* number that is three roundings away from a fraction is rounded to a step  *)
(* as the fraction itself would be, but for one step downwards.              *)
(*                                                                          *)
(* Induction is over the smallest natural number of a set, for which         *)
(* WellFoundedInduction has a theorem without an operator parameter.         *)
(***************************************************************************)
EXTENDS HedgeVolume, WellFoundedInduction, TLAPS

-----------------------------------------------------------------------------
(* Powers of ten.                                                            *)

LEMMA LeastNumber == ASSUME NEW T \in SUBSET Nat, T # {} PROVE \E x \in T : \A y \in T : x <= y
<1> DEFINE R == OpToRel(<, Nat)
<1>0. IsWellFoundedOn(R, Nat) BY NatLessThanWellFounded
<1>1. \A x, y \in Nat : x < y => <<x, y>> \in R  BY DEF OpToRel
<1> HIDE DEF R
<1>2. PICK x \in T : \A y \in T : ~ (<<y, x>> \in R)  BY <1>0, WFMin
<1>3. \A y \in T : x <= y
  <2> TAKE y \in T
  <2>1. x \in Nat /\ y \in Nat OBVIOUS
  <2>2. ~(y < x) BY <1>1, <1>2, <2>1
  <2> QED BY <2>1, <2>2
<1>. QED BY <1>3

LEMMA NatInduct == ASSUME NEW S, 0 \in S, \A n \in Nat : n \in S => n+1 \in S PROVE Nat \subseteq S
<1> DEFINE T == {n \in Nat : n \notin S}
<1>1. SUFFICES ASSUME T # {} PROVE FALSE OBVIOUS
<1>2. PICK x \in T : \A y \in T : x <= y 
  <2> HIDE DEF T
  <2>1. T \in SUBSET Nat BY DEF T
  <2> QED BY <1>1, <2>1, LeastNumber
<1>3. x \in Nat /\ x # 0 /\ x - 1 \in Nat BY DEF T
<1>4. x - 1 \in S BY <1>2, <1>3
<1>. QED BY <1>3, <1>4

LEMMA TenDef == \A k \in Nat : Ten[k] = IF k = 0 THEN 1 ELSE 10 * Ten[k - 1]
<1> DEFINE Upto(n) == {h \in [0 .. n -> Nat] : h[0] = 1 /\ \A i \in 1 .. n : h[i] = 10 * h[i - 1]}
<1>1. \A n \in Nat : Upto(n) # {}
  <2> DEFINE S == {n \in Nat : Upto(n) # {}}
  <2>1. 0 \in S
    <3>1. [i \in 0 .. 0 |-> 1] \in Upto(0) OBVIOUS
    <3> QED BY <3>1
  <2>2. \A n \in Nat : n \in S => n + 1 \in S
    <3> TAKE n \in Nat
    <3> HAVE n \in S
    <3>1. PICK h \in Upto(n) : TRUE OBVIOUS
    <3> DEFINE g == [i \in 0 .. n + 1 |-> IF i = n + 1 THEN 10 * h[n] ELSE h[i]]
    <3>2. g \in [0 .. n + 1 -> Nat] /\ g[0] = 1 OBVIOUS
    <3>3. ASSUME NEW i \in 1 .. n + 1 PROVE g[i] = 10 * g[i - 1]
      <4>1. i - 1 \in 0 .. n /\ i - 1 # n + 1 OBVIOUS
      <4>2. g[i - 1] = h[i - 1] BY <4>1
      <4>3. CASE i = n + 1 BY <4>2, <4>3
      <4>4. CASE i # n + 1
        <5>1. i \in 1 .. n BY <4>4
        <5>2. h[i] = 10 * h[i - 1] BY <5>1
        <5> QED BY <4>2, <4>4, <5>2
      <4> QED BY <4>3, <4>4
    <3> HIDE DEF g
    <3>4. g \in Upto(n + 1) BY <3>2, <3>3
    <3> HIDE DEF Upto
    <3> QED BY <3>4
  <2>3. Nat \subseteq S 
    <3> HIDE DEF S
    <3> QED BY <2>1, <2>2, NatInduct
  <2> QED BY <2>3
<1>2. \A n, m \in Nat : \A h \in Upto(n), g \in Upto(m) : \A i \in Nat : i <= n /\ i <= m => h[i] = g[i]
  <2> TAKE n, m \in Nat
  <2> TAKE h \in Upto(n), g \in Upto(m)
  <2> DEFINE S == {i \in Nat : i <= n /\ i <= m => h[i] = g[i]}
  <2>1. 0 \in S OBVIOUS
  <2>2. \A i \in Nat : i \in S => i + 1 \in S
    <3> TAKE i \in Nat
    <3> HAVE i \in S
    <3> SUFFICES ASSUME i + 1 <= n, i + 1 <= m PROVE h[i + 1] = g[i + 1] OBVIOUS
    <3>1. h[i] = g[i] OBVIOUS
    <3>2. i + 1 \in 1 .. n /\ i + 1 \in 1 .. m /\ (i + 1) - 1 = i OBVIOUS
    <3>3. h[i + 1] = 10 * h[i] /\ g[i + 1] = 10 * g[i] BY <3>2
    <3> QED BY <3>1, <3>3
  <2>3. Nat \subseteq S 
    <3> HIDE DEF S
    <3> QED BY <2>1, <2>2, NatInduct
  <2> QED BY <2>3
<1> DEFINE Pick(n) == CHOOSE h \in Upto(n) : TRUE
           G == [n \in Nat |-> Pick(n)[n]]
<1>3. \A n \in Nat : Pick(n) \in Upto(n)
  <2> HIDE DEF Upto
  <2> QED BY <1>1
<1>4. G = [k \in Nat |-> IF k = 0 THEN 1 ELSE 10 * G[k - 1]]
  <2>1. \A k \in Nat : G[k] = IF k = 0 THEN 1 ELSE 10 * G[k - 1]
    <3> TAKE k \in Nat
    <3>1. CASE k = 0 BY <3>1, <1>3
    <3>2. CASE k # 0
      <4>1. k - 1 \in Nat /\ k - 1 <= k /\ k \in 1 .. k BY <3>2
      <4>2. Pick(k) \in Upto(k) /\ Pick(k - 1) \in Upto(k - 1) BY <4>1, <1>3
      <4> HIDE DEF Pick
      <4>3. Pick(k)[k] = 10 * Pick(k)[k - 1] BY <4>1, <4>2
      <4>4. Pick(k)[k - 1] = Pick(k - 1)[k - 1] 
        <5> HIDE DEF Upto
        <5> QED BY <4>1, <4>2, <1>2
      <4> QED BY <4>1, <4>3, <4>4, <3>2
    <3> QED BY <3>1, <3>2
  <2> HIDE DEF Pick
  <2> QED BY <2>1
<1> HIDE DEF G
<1>5. Ten = [k \in Nat |-> IF k = 0 THEN 1 ELSE 10 * Ten[k - 1]] BY <1>4 DEF Ten
<1> QED BY <1>5

LEMMA TenNext == \A k \in Nat : Ten[k + 1] = 10 * Ten[k]
BY TenDef

LEMMA TenPositive == \A k \in Nat : Ten[k] \in Nat /\ Ten[k] > 0
<1> DEFINE S == {k \in Nat : Ten[k] \in Nat /\ Ten[k] > 0}
<1>1. 0 \in S BY TenDef
<1>2. \A k \in Nat : k \in S => k + 1 \in S BY TenNext
<1>3. Nat \subseteq S
  <2> HIDE DEF S
  <2> QED BY <1>1, <1>2, NatInduct
<1> QED BY <1>3

LEMMA TenAdd == \A a, b \in Nat : Ten[a + b] = Ten[a] * Ten[b]
<1> TAKE a \in Nat
<1> DEFINE S == {b \in Nat : Ten[a + b] = Ten[a] * Ten[b]}
<1>1. 0 \in S
  <2>1. Ten[0] = 1 /\ a + 0 = a BY TenDef
  <2> QED BY <2>1, TenPositive
<1>2. ASSUME NEW b \in Nat, b \in S PROVE b + 1 \in S
  <2>1. Ten[a + b] = Ten[a] * Ten[b] BY <1>2
  <2>2. a + (b + 1) = (a + b) + 1 /\ a + b \in Nat OBVIOUS
  <2>3. Ten[a + (b + 1)] = 10 * Ten[a + b] /\ Ten[b + 1] = 10 * Ten[b] BY <2>2, TenNext
  <2>4. Ten[a] \in Nat /\ Ten[b] \in Nat BY TenPositive
  <2> QED BY <2>1, <2>3, <2>4
<1>3. Nat \subseteq S
  <2> HIDE DEF S
  <2> QED BY <1>1, <1>2, NatInduct
<1> QED BY <1>3

LEMMA TenMonotone == \A a, b \in Nat : a <= b => Ten[a] <= Ten[b]
<1> TAKE a, b \in Nat
<1> HAVE a <= b
<1>1. b - a \in Nat /\ b = a + (b - a) OBVIOUS
<1>2. Ten[b] = Ten[a] * Ten[b - a] BY <1>1, TenAdd
<1>3. Ten[a] \in Nat /\ Ten[b - a] \in Nat /\ Ten[b - a] >= 1 BY <1>1, TenPositive
<1> HIDE DEF Ten
<1> QED BY <1>2, <1>3

LEMMA TenGrows == \A k \in Nat : Ten[k] > k
<1> DEFINE S == {k \in Nat : Ten[k] > k}
<1>1. 0 \in S BY TenPositive
<1>2. \A k \in Nat : k \in S => k + 1 \in S BY TenNext, TenPositive
<1>3. Nat \subseteq S
  <2> HIDE DEF S
  <2> QED BY <1>1, <1>2, NatInduct
<1> QED BY <1>3

-----------------------------------------------------------------------------
(* Division and inequalities.                                                *)

LEMMA DivMod ==
    ASSUME NEW n \in Nat, NEW d \in Nat, d > 0
    PROVE  /\ n \div d \in Nat /\ n % d \in 0 .. d - 1
           /\ n = d * (n \div d) + (n % d)
OBVIOUS

LEMMA DivUnique ==
    ASSUME NEW q \in Nat, NEW d \in Nat, d > 0
    PROVE  (q * d) % d = 0 /\ (q * d) \div d = q
OBVIOUS

LEMMA Cancel ==
    ASSUME NEW c \in Nat, c > 0, NEW a \in Int, NEW b \in Int, c * a <= c * b
    PROVE  a <= b
OBVIOUS

LEMMA Scale ==
    ASSUME NEW c \in Nat, NEW a \in Int, NEW b \in Int, a <= b
    PROVE  c * a <= c * b
OBVIOUS

LEMMA HalfEvenBounds ==
    ASSUME NEW n \in Nat, NEW d \in Nat, d > 0
    PROVE  /\ HalfEven(n, d) \in Nat
           /\ 2 * (HalfEven(n, d) * d) <= 2 * n + d
           /\ 2 * n <= 2 * (HalfEven(n, d) * d) + d
           /\ n % d = 0 => HalfEven(n, d) * d = n
           /\ \A c \in Nat : n <= c * d => HalfEven(n, d) <= c
<1> DEFINE q == n \div d
           r == n % d
           h == HalfEven(n, d)
<1>1. q \in Nat /\ r \in Nat /\ r < d /\ n = d * q + r BY DivMod
<1>2. (h = q /\ 2 * r <= d) \/ (h = q + 1 /\ 2 * r >= d) BY <1>1 DEF HalfEven
<1> HIDE DEF q, r, h
<1>3. CASE h = q /\ 2 * r <= d
  <2>1. h * d = n - r BY <1>1, <1>3
  <2>2. \A c \in Nat : n <= c * d => h <= c
    <3> TAKE c \in Nat
    <3> HAVE n <= c * d
    <3>1. d * q <= d * c BY <1>1
    <3> QED BY <3>1, <1>1, <1>3, Cancel
  <2> QED BY <1>1, <1>3, <2>1, <2>2 DEF h, r
<1>4. CASE h = q + 1 /\ 2 * r >= d
  <2>1. h * d = n - r + d BY <1>1, <1>4
  <2>2. r > 0 BY <1>1, <1>4
  <2>3. \A c \in Nat : n <= c * d => h <= c
    <3> TAKE c \in Nat
    <3> HAVE n <= c * d
    <3>1. d * q < d * c BY <1>1, <2>2
    <3>2. q < c
      <4>1. SUFFICES ASSUME c <= q PROVE FALSE BY <1>1
      <4>2. d * c <= d * q BY <4>1, <1>1, Scale
      <4> QED BY <4>2, <3>1, <1>1
    <3> QED BY <3>2, <1>1, <1>4
  <2> QED BY <1>1, <1>4, <2>1, <2>2, <2>3 DEF h, r
<1> QED BY <1>2, <1>3, <1>4

-----------------------------------------------------------------------------
(* Rounding to Digits digits changes a number by at most one part in U.      *)

U == 2 * Ten[Digits - 1]

\* a is one, two, three roundings away from b.
Near(a, b) == U * a <= (U + 1) * b /\ (U - 1) * b <= U * a
Near2(a, b) == U * (U * a) <= (U + 1) * ((U + 1) * b) /\ (U - 1) * ((U - 1) * b) <= U * (U * a)
Near3(a, b) == /\ U * (U * (U * a)) <= (U + 1) * ((U + 1) * ((U + 1) * b))
               /\ (U - 1) * ((U - 1) * ((U - 1) * b)) <= U * (U * (U * a))

LEMMA UnitType == U \in Nat /\ U >= 2 /\ U - 1 \in Nat /\ Ten[Digits] = 5 * U /\ (U = 2 \/ U >= 20)
<1>1. Digits - 1 \in Nat /\ Digits = (Digits - 1) + 1 BY SizingAssumption
<1>2. Ten[Digits - 1] \in Nat /\ Ten[Digits - 1] > 0 BY <1>1, TenPositive
<1>3. Ten[Digits] = 10 * Ten[Digits - 1] BY <1>1, TenNext
<1>4. Ten[Digits - 1] = 1 \/ Ten[Digits - 1] >= 10
  <2>1. CASE Digits - 1 = 0 BY <2>1, TenDef
  <2>2. CASE Digits - 1 # 0
    <3>1. Digits - 1 - 1 \in Nat /\ Digits - 1 = (Digits - 1 - 1) + 1 BY <1>1, <2>2
    <3>2. Ten[Digits - 1] = 10 * Ten[Digits - 1 - 1] BY <3>1, TenNext
    <3>3. Ten[Digits - 1 - 1] \in Nat /\ Ten[Digits - 1 - 1] > 0 BY <3>1, TenPositive
    <3> QED BY <3>2, <3>3
  <2> QED BY <2>1, <2>2
<1> QED BY <1>2, <1>3, <1>4 DEF U

LEMMA NearSelf == ASSUME NEW a \in Nat PROVE Near(a, a)
BY UnitType DEF Near

LEMMA RoundNear ==
    ASSUME NEW a \in Nat, NEW b \in Nat, NEW d \in Nat,
           2 * a <= 2 * b + d, 2 * b <= 2 * a + d, U * d <= 2 * b
    PROVE  Near(a, b)
<1>1. U * (2 * a) <= U * (2 * b + d) BY UnitType, Scale
<1>2. U * (2 * b) <= U * (2 * a + d) BY UnitType, Scale
<1>3. U * (2 * a) = 2 * (U * a) /\ U * (2 * b) = 2 * (U * b) BY UnitType
<1>4. U * (2 * b + d) = 2 * (U * b) + U * d /\ U * (2 * a + d) = 2 * (U * a) + U * d BY UnitType
<1>5. (U + 1) * b = U * b + b /\ (U - 1) * b = U * b - b BY UnitType
<1>6. U * a \in Nat /\ U * b \in Nat /\ U * d \in Nat BY UnitType
<1> QED BY <1>1, <1>2, <1>3, <1>4, <1>5, <1>6 DEF Near

LEMMA NearScale ==
    ASSUME NEW a \in Nat, NEW b \in Nat, NEW c \in Nat, Near(a, b)
    PROVE  Near(c * a, c * b)
<1>1. c * (U * a) <= c * ((U + 1) * b) BY UnitType, Scale DEF Near
<1>2. c * ((U - 1) * b) <= c * (U * a) BY UnitType, Scale DEF Near
<1>3. c * (U * a) = U * (c * a) /\ c * ((U + 1) * b) = (U + 1) * (c * b)
      /\ c * ((U - 1) * b) = (U - 1) * (c * b) BY UnitType
<1> QED BY <1>1, <1>2, <1>3 DEF Near

LEMMA NearChain ==
    ASSUME NEW a \in Nat, NEW b \in Nat, NEW c \in Nat, Near(a, b), Near(b, c)
    PROVE  Near2(a, c)
<1>1. U * (U * a) <= U * ((U + 1) * b) BY UnitType, Scale DEF Near
<1>2. (U + 1) * (U * b) <= (U + 1) * ((U + 1) * c) BY UnitType, Scale DEF Near
<1>3. U * ((U + 1) * b) = (U + 1) * (U * b) BY UnitType
<1>4. U * ((U - 1) * b) <= U * (U * a) BY UnitType, Scale DEF Near
<1>5. (U - 1) * ((U - 1) * c) <= (U - 1) * (U * b) BY UnitType, Scale DEF Near
<1>6. U * ((U - 1) * b) = (U - 1) * (U * b) BY UnitType
<1>7. {U * (U * a), (U + 1) * (U * b), (U + 1) * ((U + 1) * c), (U - 1) * (U * b), (U - 1) * ((U - 1) * c)} \subseteq Int
  BY UnitType
<1> QED BY <1>1, <1>2, <1>3, <1>4, <1>5, <1>6, <1>7 DEF Near2

LEMMA Near2Chain ==
    ASSUME NEW a \in Nat, NEW b \in Nat, NEW c \in Nat, Near(a, b), Near2(b, c)
    PROVE  Near3(a, c)
<1>1. U * (U * (U * a)) <= U * (U * ((U + 1) * b)) BY UnitType, Scale DEF Near
<1>2. (U + 1) * (U * (U * b)) <= (U + 1) * ((U + 1) * ((U + 1) * c)) BY UnitType, Scale DEF Near2
<1>3. U * (U * ((U + 1) * b)) = (U + 1) * (U * (U * b)) BY UnitType
<1>4. U * (U * ((U - 1) * b)) <= U * (U * (U * a)) BY UnitType, Scale DEF Near
<1>5. (U - 1) * ((U - 1) * ((U - 1) * c)) <= (U - 1) * (U * (U * b)) BY UnitType, Scale DEF Near2
<1>6. U * (U * ((U - 1) * b)) = (U - 1) * (U * (U * b)) BY UnitType
<1>7. {U * (U * (U * a)), (U + 1) * (U * (U * b)), (U + 1) * ((U + 1) * ((U + 1) * c)),
       (U - 1) * (U * (U * b)), (U - 1) * ((U - 1) * ((U - 1) * c))} \subseteq Int
  BY UnitType
<1> QED BY <1>1, <1>2, <1>3, <1>4, <1>5, <1>6, <1>7 DEF Near3

LEMMA NearWeaker ==
    ASSUME NEW a \in Nat, NEW b \in Nat, Near(a, b)
    PROVE  Near2(a, b)
BY NearSelf, NearChain

LEMMA Near2Scale ==
    ASSUME NEW a \in Nat, NEW b \in Nat, NEW c \in Nat, Near2(a, b)
    PROVE  Near2(c * a, c * b)
<1>1. c * (U * (U * a)) <= c * ((U + 1) * ((U + 1) * b)) BY UnitType, Scale DEF Near2
<1>2. c * ((U - 1) * ((U - 1) * b)) <= c * (U * (U * a)) BY UnitType, Scale DEF Near2
<1>3. c * (U * (U * a)) = U * (U * (c * a)) /\ c * ((U + 1) * ((U + 1) * b)) = (U + 1) * ((U + 1) * (c * b))
      /\ c * ((U - 1) * ((U - 1) * b)) = (U - 1) * ((U - 1) * (c * b)) BY UnitType
<1> QED BY <1>1, <1>2, <1>3 DEF Near2

LEMMA Near2Cancel ==
    ASSUME NEW a \in Nat, NEW b \in Nat, NEW c \in Nat, c > 0, Near2(c * a, c * b)
    PROVE  Near2(a, b)
<1>3. c * (U * (U * a)) = U * (U * (c * a)) /\ c * ((U + 1) * ((U + 1) * b)) = (U + 1) * ((U + 1) * (c * b))
      /\ c * ((U - 1) * ((U - 1) * b)) = (U - 1) * ((U - 1) * (c * b)) BY UnitType
<1>4. {U * (U * a), (U + 1) * ((U + 1) * b), (U - 1) * ((U - 1) * b)} \subseteq Int BY UnitType
<1>1. c * (U * (U * a)) <= c * ((U + 1) * ((U + 1) * b)) BY <1>3 DEF Near2
<1>2. c * ((U - 1) * ((U - 1) * b)) <= c * (U * (U * a)) BY <1>3 DEF Near2
<1> QED BY <1>1, <1>2, <1>4, Cancel DEF Near2

-----------------------------------------------------------------------------
(* The arithmetic of Sizing.                                                 *)

\* A quotient is near the exact one, and exact where that is a whole number.
LEMMA QuotNear ==
    ASSUME NEW m \in Nat, NEW e \in Nat, NEW n \in Nat, n > 0
    PROVE  \E k, q \in Nat :
              /\ Quot([m |-> m, e |-> e], n) = [m |-> q, e |-> e + k]
              /\ Near(q * n, m * Ten[k])
              /\ \A c \in Nat : m <= c * n => q <= c * Ten[k]
              /\ m % n = 0 => k = 0 /\ q * n = m
<1> DEFINE Enough(i) == Exact(m, n, i) \/ Full(m, n, i)
           Range == 0 .. Digits + n
           Good(i) == Enough(i) /\ \A j \in 0 .. i - 1 : ~Enough(j)
           k == CHOOSE i \in Range : Good(i)
           q == HalfEven(m * Ten[k], n)
<1>1. Digits \in Nat BY SizingAssumption
<1>2. \E i \in Range : Enough(i)
  <2>1. CASE m = 0
    <3>1. Exact(m, n, 0)
      <4>1. m * Ten[0] = 0 /\ 0 % n = 0 BY <2>1, TenPositive
      <4> QED BY <4>1 DEF Exact
    <3>2. 0 \in Range BY <1>1
    <3> QED BY <3>1, <3>2
  <2>2. CASE m > 0
    <3>1. Digits + n \in Range /\ Digits + n + 1 = Digits + (n + 1) BY <1>1
    <3>2. Ten[Digits + n + 1] = Ten[Digits] * Ten[n + 1] BY <3>1, <1>1, TenAdd
    <3>3. Ten[n + 1] \in Nat /\ Ten[n + 1] > n + 1 /\ Ten[Digits] \in Nat BY <1>1, TenPositive, TenGrows
    <3>4. Ten[Digits] * n <= Ten[Digits] * Ten[n + 1] BY <3>3, Scale
    <3>5. Ten[Digits + n + 1] * 1 <= Ten[Digits + n + 1] * m
      <4>1. Ten[Digits + n + 1] \in Nat BY <3>2, <3>3
      <4> QED BY <4>1, <2>2, Scale
    <3>6. Full(m, n, Digits + n)
      <4>1. Ten[Digits + n + 1] \in Nat BY <3>2, <3>3
      <4>2. m * Ten[Digits + n + 1] = Ten[Digits + n + 1] * m /\ n * Ten[Digits] = Ten[Digits] * n
        BY <4>1, <3>3
      <4> QED BY <4>1, <4>2, <3>2, <3>3, <3>4, <3>5 DEF Full
    <3> QED BY <3>1, <3>6
  <2> QED BY <2>1, <2>2
<1>3. \E i \in Range : Good(i)
  <2> DEFINE S == {i \in Range : Enough(i)}
  <2> HIDE DEF Enough
  <2>1. S \in SUBSET Nat /\ S # {} BY <1>1, <1>2
  <2>2. PICK i \in S : \A j \in S : i <= j
    <3> HIDE DEF S
    <3> QED BY <2>1, LeastNumber
  <2>3. \A j \in 0 .. i - 1 : ~Enough(j)
    <3> TAKE j \in 0 .. i - 1
    <3>1. j \in Range /\ ~(i <= j) BY <1>1, <2>2
    <3> QED BY <3>1, <2>2
  <2> QED BY <2>2, <2>3
<1>4. k \in Range /\ Good(k)
  <2> HIDE DEF Good, Range
  <2> QED BY <1>3
<1>5. Quot([m |-> m, e |-> e], n) = [m |-> q, e |-> e + k] BY DEF Quot
<1>6. k \in Nat
  <2>1. k \in Range
    <3> HIDE DEF Good, Range, k
    <3> QED BY <1>4
  <2> HIDE DEF k
  <2> QED BY <2>1, <1>1
<1> HIDE DEF k
<1>7. Ten[k] \in Nat /\ Ten[k] > 0 /\ Ten[k + 1] = 10 * Ten[k] BY <1>6, TenPositive, TenNext
<1> DEFINE b == m * Ten[k]
<1>8. b \in Nat BY <1>7
<1>9. /\ q \in Nat
      /\ 2 * (q * n) <= 2 * b + n /\ 2 * b <= 2 * (q * n) + n
      /\ b % n = 0 => q * n = b
      /\ \A c \in Nat : b <= c * n => q <= c
  <2> HIDE DEF b
  <2>1. q = HalfEven(b, n) BY DEF b
  <2> HIDE DEF q
  <2> QED BY <1>8, <2>1, HalfEvenBounds
<1> HIDE DEF q
<1>10. Near(q * n, b)
  <2>1. CASE Exact(m, n, k)
    <3>1. q * n = b BY <2>1, <1>9 DEF Exact
    <3> QED BY <3>1, <1>8, NearSelf
  <2>2. CASE Full(m, n, k)
    <3>1. m * (10 * Ten[k]) >= n * (5 * U) BY <2>2, <1>7, UnitType DEF Full
    <3>2. m * (10 * Ten[k]) = 10 * b /\ n * (5 * U) = 5 * (U * n) BY <1>7, UnitType
    <3>3. U * n <= 2 * b
      <4>1. U * n \in Nat BY UnitType
      <4> HIDE DEF b
      <4> QED BY <4>1, <3>1, <3>2, <1>8
    <3>4. q * n \in Nat BY <1>9
    <3> HIDE DEF b
    <3> QED BY <3>3, <3>4, <1>8, <1>9, RoundNear
  <2> QED BY <1>4, <2>1, <2>2
<1>11. ASSUME NEW c \in Nat, m <= c * n PROVE q <= c * Ten[k]
  <2>1. Ten[k] * m <= Ten[k] * (c * n) BY <1>7, <1>11, Scale
  <2>2. c * Ten[k] \in Nat /\ b <= (c * Ten[k]) * n BY <1>7, <2>1
  <2> QED BY <2>2, <1>9
<1>12. ASSUME m % n = 0 PROVE k = 0 /\ q * n = m
  <2>1. Ten[0] = 1 BY TenDef
  <2>2. Exact(m, n, 0) BY <2>1, <1>12 DEF Exact
  <2>3. k = 0
    <3>1. SUFFICES ASSUME k # 0 PROVE FALSE OBVIOUS
    <3>2. 0 \in 0 .. k - 1 BY <3>1, <1>6
    <3> QED BY <3>2, <2>2, <1>4
  <2>4. b = m BY <2>1, <2>3
  <2> QED BY <2>3, <2>4, <1>9, <1>12
<1> QED BY <1>5, <1>6, <1>9, <1>10, <1>11, <1>12

\* Digits that are cut off are decimals.
LEMMA FitNear ==
    ASSUME NEW m \in Nat, NEW e \in Nat, 2 * m < U * Ten[e]
    PROVE  \E j \in 0 .. e : \E p \in Nat :
              /\ Fit(m, e) = [m |-> p, e |-> e - j]
              /\ Near(Ten[j] * p, m)
<1> DEFINE Good(i) == m < Ten[Digits + i] /\ (i = 0 \/ m >= Ten[Digits + i - 1])
           j == CHOOSE i \in 0 .. e : Good(i)
           p == HalfEven(m, Ten[j])
<1>1. Digits \in Nat /\ Digits - 1 \in Nat /\ Digits >= 1 BY SizingAssumption
<1>2. \E i \in 0 .. e : Good(i)
  <2> DEFINE S == {i \in 0 .. e : m < Ten[Digits + i]}
  <2>1. e \in S
    <3>1. Digits + e = (Digits - 1) + (e + 1) /\ e + 1 \in Nat /\ e \in Nat BY <1>1
    <3>2. Ten[Digits + e] = Ten[Digits - 1] * Ten[e + 1] BY <3>1, <1>1, TenAdd
    <3>3. Ten[e + 1] = 10 * Ten[e] /\ Ten[e] \in Nat /\ Ten[e] > 0 BY TenNext, TenPositive
    <3>4. 2 * Ten[Digits + e] = 10 * (U * Ten[e])
      <4>1. Ten[Digits - 1] \in Nat BY <1>1, TenPositive
      <4> QED BY <4>1, <3>2, <3>3 DEF U
    <3>5. U * Ten[e] \in Nat BY <3>3, UnitType
    <3>6. Ten[Digits + e] \in Nat BY <1>1, TenPositive
    <3>7. m < Ten[Digits + e] BY <3>4, <3>5, <3>6
    <3> QED BY <3>7
  <2>2. S \in SUBSET Nat /\ S # {} BY <2>1
  <2>3. PICK i \in S : \A h \in S : i <= h
    <3> HIDE DEF S
    <3> QED BY <2>2, LeastNumber
  <2>4. i = 0 \/ m >= Ten[Digits + i - 1]
    <3>1. SUFFICES ASSUME i # 0 PROVE m >= Ten[Digits + i - 1] OBVIOUS
    <3>2. i - 1 \in 0 .. e /\ ~(i <= i - 1) /\ Digits + (i - 1) = Digits + i - 1 /\ Digits + i - 1 \in Nat
      BY <3>1, <1>1
    <3>3. i - 1 \notin S BY <3>2, <2>3
    <3>4. ~(m < Ten[Digits + i - 1]) BY <3>2, <3>3
    <3>5. Ten[Digits + i - 1] \in Nat BY <3>2, TenPositive
    <3> QED BY <3>4, <3>5
  <2> QED BY <2>3, <2>4
<1>3. j \in 0 .. e /\ Good(j)
  <2> HIDE DEF Good
  <2> QED BY <1>2
<1>4. Fit(m, e) = [m |-> p, e |-> e - j] BY DEF Fit
<1> HIDE DEF j
<1>5. j \in Nat /\ Ten[j] \in Nat /\ Ten[j] > 0 BY <1>3, TenPositive
<1>6. /\ p \in Nat
      /\ 2 * (p * Ten[j]) <= 2 * m + Ten[j] /\ 2 * m <= 2 * (p * Ten[j]) + Ten[j]
      /\ m % Ten[j] = 0 => p * Ten[j] = m
  <2>1. p = HalfEven(m, Ten[j]) OBVIOUS
  <2> HIDE DEF p
  <2> QED BY <1>5, <2>1, HalfEvenBounds
<1> HIDE DEF p
<1>7. p * Ten[j] = Ten[j] * p /\ Ten[j] * p \in Nat BY <1>5, <1>6
<1>8. Near(Ten[j] * p, m)
  <2>1. CASE j = 0
    <3>1. Ten[j] = 1 BY <2>1, TenDef
    <3>2. m % Ten[j] = 0 BY <3>1
    <3> QED BY <3>2, <1>6, <1>7, NearSelf
  <2>2. CASE j # 0
    <3>1. m >= Ten[Digits + j - 1] BY <1>3, <2>2
    <3>2. Digits + j - 1 = (Digits - 1) + j BY <1>1, <1>5
    <3>3. Ten[Digits + j - 1] = Ten[Digits - 1] * Ten[j] BY <3>2, <1>1, <1>5, TenAdd
    <3>4. Ten[Digits - 1] \in Nat BY <1>1, TenPositive
    <3>5. U * Ten[j] <= 2 * m
      <4>1. U * Ten[j] = 2 * (Ten[Digits - 1] * Ten[j]) BY <3>4, <1>5 DEF U
      <4>2. Ten[Digits - 1] * Ten[j] \in Nat BY <3>4, <1>5
      <4> QED BY <4>1, <4>2, <3>1, <3>3
    <3> QED BY <3>5, <1>5, <1>6, <1>7, RoundNear
  <2> QED BY <2>1, <2>2
<1> QED BY <1>3, <1>4, <1>6, <1>8

-----------------------------------------------------------------------------
(* Rounding to a step.                                                       *)

Small(n) == 7 * n < U

LEMMA Cubes ==
    ASSUME NEW x \in Int
    PROVE  /\ (U + 1) * ((U + 1) * ((U + 1) * x)) = U * (U * (U * x)) + (3 * (U * U) + 3 * U + 1) * x
           /\ (U - 1) * ((U - 1) * ((U - 1) * x)) = U * (U * (U * x)) - (3 * (U * U) - 3 * U + 1) * x
BY UnitType

\* What is at most three roundings away from a whole number that is small is not
\* above it.
LEMMA NotAbove ==
    ASSUME NEW f \in Nat, NEW n \in Nat, Small(n),
           U * (U * (U * f)) <= (U + 1) * ((U + 1) * ((U + 1) * (2 * n)))
    PROVE  f <= 2 * n
<1>1. SUFFICES ASSUME f >= 2 * n + 1 PROVE FALSE OBVIOUS
<1>2. U \in Nat /\ U >= 2 /\ U * U \in Nat /\ U * (U * U) \in Nat BY UnitType
<1>3. U * (U * (U * f)) >= U * (U * (U * (2 * n))) + U * (U * U)
  <2>1. U * (U * U) * (2 * n + 1) <= U * (U * U) * f BY <1>1, <1>2, Scale
  <2>2. U * (U * U) * (2 * n + 1) = U * (U * (U * (2 * n))) + U * (U * U)
        /\ U * (U * U) * f = U * (U * (U * f)) BY <1>2
  <2> QED BY <2>1, <2>2
<1>4. U * (U * U) <= (3 * (U * U) + 3 * U + 1) * (2 * n)
  <2>1. {U * (U * (U * f)), U * (U * (U * (2 * n))), (3 * (U * U) + 3 * U + 1) * (2 * n)} \subseteq Int BY <1>2
  <2> QED BY <2>1, <1>2, <1>3, Cubes
<1>5. CASE n = 0
  <2>1. U * (U * U) > 0 BY <1>2
  <2> QED BY <2>1, <1>4, <1>5, <1>2
<1>6. CASE n > 0
  <2>1. U >= 20 BY <1>6, UnitType DEF Small
  <2>2. 2 * (3 * (U * U) + 3 * U + 1) <= 7 * (U * U)
    <3>1. 20 * U <= U * U BY <2>1, <1>2
    <3> QED BY <3>1, <2>1, <1>2
  <2>3. n * (2 * (3 * (U * U) + 3 * U + 1)) <= n * (7 * (U * U)) BY <2>2, <1>2, Scale
  <2>4. n * (2 * (3 * (U * U) + 3 * U + 1)) = (3 * (U * U) + 3 * U + 1) * (2 * n)
        /\ n * (7 * (U * U)) = (U * U) * (7 * n) BY <1>2
  <2>5. (U * U) * U <= (U * U) * (7 * n)
    <3>1. (U * U) * U = U * (U * U) BY <1>2
    <3>2. {(U * U) * (7 * n), (3 * (U * U) + 3 * U + 1) * (2 * n)} \subseteq Int BY <1>2
    <3> QED BY <3>1, <3>2, <1>2, <1>4, <2>3, <2>4
  <2>6. U <= 7 * n
    <3>1. U * U > 0 BY <2>1, <1>2
    <3> QED BY <3>1, <2>5, <1>2, Cancel
  <2> QED BY <2>6, <1>2 DEF Small
<1> QED BY <1>5, <1>6

\* Nor is it a whole step below.
LEMMA NotFarBelow ==
    ASSUME NEW f \in Nat, NEW s \in Nat, s > 0, NEW n \in Nat, Small(n),
           (U - 1) * ((U - 1) * ((U - 1) * n)) <= U * (U * (U * f))
    PROVE  n < f + s
<1>1. SUFFICES ASSUME f + s <= n PROVE FALSE OBVIOUS
<1>2. U \in Nat /\ U >= 2 /\ U * U \in Nat /\ U * (U * U) \in Nat BY UnitType
<1>3. U * (U * (U * f)) + U * (U * U) <= U * (U * (U * n))
  <2>1. U * (U * U) * (f + 1) <= U * (U * U) * n BY <1>1, <1>2, Scale
  <2>2. U * (U * U) * (f + 1) = U * (U * (U * f)) + U * (U * U)
        /\ U * (U * U) * n = U * (U * (U * n)) BY <1>2
  <2> QED BY <2>1, <2>2
<1>4. U * (U * U) <= (3 * (U * U) - 3 * U + 1) * n
  <2>1. {U * (U * (U * f)), U * (U * (U * n)), (3 * (U * U) - 3 * U + 1) * n} \subseteq Int BY <1>2
  <2> QED BY <2>1, <1>2, <1>3, Cubes
<1>5. n * (3 * (U * U) - 3 * U + 1) <= n * (3 * (U * U)) BY <1>2, Scale
<1>6. n * (3 * (U * U) - 3 * U + 1) = (3 * (U * U) - 3 * U + 1) * n
      /\ n * (3 * (U * U)) = (U * U) * (3 * n) BY <1>2
<1>7. (U * U) * U <= (U * U) * (3 * n)
  <2>1. (U * U) * U = U * (U * U) BY <1>2
  <2>2. {(U * U) * (3 * n), (3 * (U * U) - 3 * U + 1) * n} \subseteq Int BY <1>2
  <2> QED BY <2>1, <2>2, <1>2, <1>4, <1>5, <1>6
<1>8. U <= 3 * n
  <2>1. U * U > 0 BY <1>2
  <2> QED BY <2>1, <1>7, <1>2, Cancel
<1> QED BY <1>8, <1>2 DEF Small

\* m / 10^e is at most two roundings away from n / d.
Approx(m, e, n, d) == Near2(d * m, n * Ten[e])

LEMMA FloorBounds ==
    ASSUME NEW m \in Nat, NEW e \in Nat
    PROVE  /\ FloorOf([m |-> m, e |-> e]) \in Nat
           /\ Ten[e] * FloorOf([m |-> m, e |-> e]) <= m
           /\ m < Ten[e] * (FloorOf([m |-> m, e |-> e]) + 1)
<1> DEFINE t == Ten[e]
           f == m \div t
           r == m % t
<1>1. t \in Nat /\ t > 0 BY TenPositive
<1>2. FloorOf([m |-> m, e |-> e]) = f BY DEF FloorOf
<1> HIDE DEF t
<1>3. f \in Nat /\ r \in 0 .. t - 1 /\ m = t * f + r BY <1>1, DivMod
<1> HIDE DEF f, r
<1>4. t * (f + 1) = t * f + t BY <1>1, <1>3
<1> QED BY <1>1, <1>2, <1>3, <1>4 DEF t

LEMMA NearestBounds ==
    ASSUME NEW m \in Nat, NEW e \in Nat
    PROVE  /\ NearestOf([m |-> m, e |-> e]) \in Nat
           /\ Ten[e] * (2 * NearestOf([m |-> m, e |-> e])) <= 2 * m + Ten[e]
           /\ m < Ten[e] * (NearestOf([m |-> m, e |-> e]) + 1)
<1> DEFINE t == Ten[e]
           f == (2 * m + t) \div (2 * t)
           r == (2 * m + t) % (2 * t)
<1>1. t \in Nat /\ t > 0 BY TenPositive
<1>2. NearestOf([m |-> m, e |-> e]) = f BY DEF NearestOf
<1> HIDE DEF t
<1>3. f \in Nat /\ r \in 0 .. 2 * t - 1 /\ 2 * m + t = (2 * t) * f + r
  <2>1. 2 * t \in Nat /\ 2 * t > 0 /\ 2 * m + t \in Nat BY <1>1
  <2> QED BY <2>1, DivMod
<1> HIDE DEF f, r
<1>4. t * (2 * f) = (2 * t) * f /\ t * (f + 1) = t * f + t /\ (2 * t) * f = 2 * (t * f) /\ t * f \in Nat
  BY <1>1, <1>3
<1> QED BY <1>1, <1>2, <1>3, <1>4 DEF t

LEMMA Reorder ==
    ASSUME NEW t \in Int, NEW p \in Int, NEW n \in Int
    PROVE  2 * (p * (p * (p * (n * t)))) = t * (p * (p * (p * (2 * n))))
OBVIOUS

\* v is n / d rounded to a step.
Rounds(v, step, n, d, mode) ==
    /\ v \in Nat /\ v % step = 0
    /\ mode # "NEAREST" => v * d <= n
    /\ 2 * (v * d) <= 2 * n + step * d
    /\ n < v * d + 2 * (step * d)

\* A number that is two roundings away from n / d is rounded to a multiple of a step.
LEMMA RoundToStepBounds ==
    ASSUME NEW m \in Nat, NEW e \in Nat, NEW step \in Nat, step > 0,
           NEW n \in Nat, Small(n), NEW d \in Nat, d > 0,
           Approx(m, e, n, d), NEW mode
    PROVE  /\ Rounds(RoundToStep([m |-> m, e |-> e], step, mode), step, n, d, mode)
           /\ e = 0 /\ m % step = 0 => RoundToStep([m |-> m, e |-> e], step, mode) = m
<1>1. PICK k, q \in Nat : /\ Quot([m |-> m, e |-> e], step) = [m |-> q, e |-> e + k]
                          /\ Near(q * step, m * Ten[k])
                          /\ \A c \in Nat : m <= c * step => q <= c * Ten[k]
                          /\ m % step = 0 => k = 0 /\ q * step = m
  BY QuotNear, ZenonT(60)
<1> DEFINE s == [m |-> q, e |-> e + k]
           f == IF mode = "NEAREST" THEN NearestOf(s) ELSE FloorOf(s)
           t == Ten[e + k]
<1>2. RoundToStep([m |-> m, e |-> e], step, mode) = step * f BY <1>1 DEF RoundToStep
<1>3. e + k \in Nat OBVIOUS
<1>4. t \in Nat /\ t > 0 /\ t = Ten[e] * Ten[k] BY <1>3, TenPositive, TenAdd
<1>5. /\ f \in Nat
      /\ mode # "NEAREST" => t * f <= q
      /\ t * (2 * f) <= 2 * q + t
      /\ q < t * (f + 1)
  <2>1. CASE mode = "NEAREST" BY <2>1, <1>3, NearestBounds
  <2>2. CASE mode # "NEAREST"
    <3>1. f = FloorOf(s) BY <2>2
    <3>2. /\ FloorOf(s) \in Nat /\ t * FloorOf(s) <= q /\ q < t * (FloorOf(s) + 1) BY <1>3, FloorBounds
    <3>3. f \in Nat /\ t * f <= q /\ q < t * (f + 1) BY <3>1, <3>2
    <3> HIDE DEF f, s, t
    <3>4. t * (2 * f) = 2 * (t * f) /\ t * f \in Nat BY <3>3, <1>4
    <3> QED BY <3>3, <3>4, <1>4
  <2> QED BY <2>1, <2>2
<1>6. e = 0 /\ m % step = 0 => step * f = m
  <2>1. SUFFICES ASSUME e = 0, m % step = 0 PROVE step * f = m OBVIOUS
  <2>2. k = 0 /\ q * step = m /\ e + k = 0 BY <1>1, <2>1
  <2>3. t = 1 BY <2>2, TenDef
  <2>4. f = q
    <3> HIDE DEF f, s, t
    <3>1. 2 * f <= 2 * q + 1 /\ q < f + 1 BY <1>5, <2>3
    <3> QED BY <3>1, <1>5
  <2> HIDE DEF f
  <2> QED BY <2>2, <2>4
<1> HIDE DEF f, s, t
<1>7. Ten[k] \in Nat /\ Ten[e] \in Nat BY TenPositive
<1> DEFINE sd == step * d
<1>8. sd \in Nat /\ sd > 0 BY Cancel
<1>9. Near3(q * sd, n * t)
  <2>0. {q * step, m * Ten[k], d * m, n * Ten[e]} \subseteq Nat BY <1>7
  <2>1. Near(d * (q * step), d * (m * Ten[k])) BY <2>0, <1>1, NearScale
  <2>2. Near2(Ten[k] * (d * m), Ten[k] * (n * Ten[e])) BY <2>0, <1>7, Near2Scale DEF Approx
  <2>3. d * (q * step) = q * sd /\ Ten[k] * (d * m) = d * (m * Ten[k])
        /\ Ten[k] * (n * Ten[e]) = n * t BY <1>4, <1>7
  <2>4. q * sd \in Nat /\ d * (m * Ten[k]) \in Nat /\ n * t \in Nat BY <1>4, <1>7, <1>8
  <2> QED BY <2>1, <2>2, <2>3, <2>4, Near2Chain
<1>10. (step * f) * d = f * sd BY <1>5
<1> HIDE DEF sd
<1>11. U \in Nat /\ U - 1 \in Nat BY UnitType
\* If t x <= 2 q then x is not above 2 n.
<1>12. ASSUME NEW x \in Nat, t * x <= 2 * q PROVE x * sd <= 2 * n
  <2>1. sd * (t * x) <= sd * (2 * q) BY <1>4, <1>8, <1>12, Scale
  <2>2. x * sd \in Nat /\ q * sd \in Nat BY <1>8
  <2>3. sd * (t * x) = t * (x * sd) /\ sd * (2 * q) = 2 * (q * sd) BY <1>4, <1>8
  <2>4. (U * U * U) * (t * (x * sd)) <= (U * U * U) * (2 * (q * sd))
    <3>1. U * U * U \in Nat /\ t * (x * sd) \in Nat BY <1>4, <1>11, <2>2
    <3> QED BY <3>1, <2>1, <2>2, <2>3, Scale
  <2>5. 2 * (U * (U * (U * (q * sd)))) <= 2 * ((U + 1) * ((U + 1) * ((U + 1) * (n * t))))
    <3>1. U * (U * (U * (q * sd))) \in Nat /\ (U + 1) * ((U + 1) * ((U + 1) * (n * t))) \in Nat
      BY <1>4, <1>11, <2>2
    <3> QED BY <3>1, <1>9 DEF Near3
  <2>6. t * (U * (U * (U * (x * sd)))) <= t * ((U + 1) * ((U + 1) * ((U + 1) * (2 * n))))
    <3>1. (U * U * U) * (t * (x * sd)) = t * (U * (U * (U * (x * sd)))) BY <1>4, <1>11, <2>2
    <3>2. (U * U * U) * (2 * (q * sd)) = 2 * (U * (U * (U * (q * sd)))) BY <1>11, <2>2
    <3>3. 2 * ((U + 1) * ((U + 1) * ((U + 1) * (n * t)))) = t * ((U + 1) * ((U + 1) * ((U + 1) * (2 * n))))
      <4>1. PICK p \in Int : p = U + 1 BY <1>11
      <4>2. 2 * (p * (p * (p * (n * t)))) = t * (p * (p * (p * (2 * n)))) BY <1>4, Reorder
      <4> QED BY <4>1, <4>2, Zenon
    <3>4. {(U * U * U) * (t * (x * sd)), 2 * (U * (U * (U * (q * sd)))),
           2 * ((U + 1) * ((U + 1) * ((U + 1) * (n * t))))} \subseteq Int BY <1>4, <1>11, <2>2
    <3> QED BY <2>4, <2>5, <3>1, <3>2, <3>3, <3>4
  <2>7. U * (U * (U * (x * sd))) \in Int /\ (U + 1) * ((U + 1) * ((U + 1) * (2 * n))) \in Int BY <1>11, <2>2
  <2>8. U * (U * (U * (x * sd))) <= (U + 1) * ((U + 1) * ((U + 1) * (2 * n))) BY <1>4, <2>6, <2>7, Cancel
  <2> QED BY <2>2, <2>8, NotAbove
<1>13. mode # "NEAREST" => f * sd <= n
  <2>1. SUFFICES ASSUME mode # "NEAREST" PROVE f * sd <= n OBVIOUS
  <2>2. t * (2 * f) <= 2 * q
    <3>1. t * (2 * f) = 2 * (t * f) /\ t * f \in Nat BY <1>4, <1>5
    <3> QED BY <3>1, <2>1, <1>5
  <2>3. (2 * f) * sd <= 2 * n BY <2>2, <1>5, <1>12
  <2>4. (2 * f) * sd = 2 * (f * sd) /\ f * sd \in Nat BY <1>5, <1>8
  <2> QED BY <2>3, <2>4
<1>14. 2 * (f * sd) <= 2 * n + sd
  <2>1. CASE f = 0
    <3>1. f * sd = 0 BY <2>1, <1>8
    <3> QED BY <3>1, <1>8
  <2>2. CASE f > 0
    <3>1. 2 * f - 1 \in Nat BY <2>2, <1>5
    <3>2. t * (2 * f - 1) = t * (2 * f) - t /\ t * (2 * f) \in Nat BY <1>4, <1>5
    <3>3. t * (2 * f - 1) <= 2 * q BY <3>2, <1>4, <1>5
    <3>4. (2 * f - 1) * sd <= 2 * n BY <3>1, <3>3, <1>12
    <3>5. (2 * f - 1) * sd = 2 * (f * sd) - sd /\ f * sd \in Nat BY <1>5, <1>8
    <3> QED BY <3>4, <3>5, <1>8
  <2> QED BY <1>5, <2>1, <2>2
<1>15. n < f * sd + 2 * sd
  <2>1. sd * q <= sd * (t * (f + 1)) BY <1>4, <1>5, <1>8, Scale
  <2>2. sd * q = q * sd /\ sd * (t * (f + 1)) = t * ((f + 1) * sd) /\ (f + 1) * sd \in Nat /\ q * sd \in Nat
    BY <1>4, <1>5, <1>8
  <2>3. (U * U * U) * (q * sd) <= (U * U * U) * (t * ((f + 1) * sd))
    <3>1. U * U * U \in Nat /\ t * ((f + 1) * sd) \in Nat BY <1>4, <1>11, <2>2
    <3> QED BY <3>1, <2>1, <2>2, Scale
  <2>4. t * ((U - 1) * ((U - 1) * ((U - 1) * n))) <= t * (U * (U * (U * ((f + 1) * sd))))
    <3>1. (U * U * U) * (q * sd) = U * (U * (U * (q * sd))) BY <1>11, <2>2
    <3>2. (U * U * U) * (t * ((f + 1) * sd)) = t * (U * (U * (U * ((f + 1) * sd)))) BY <1>4, <1>11, <2>2
    <3>3. (U - 1) * ((U - 1) * ((U - 1) * (n * t))) = t * ((U - 1) * ((U - 1) * ((U - 1) * n))) BY <1>4, <1>11
    <3>4. {U * (U * (U * (q * sd))), t * (U * (U * (U * ((f + 1) * sd)))),
           t * ((U - 1) * ((U - 1) * ((U - 1) * n)))} \subseteq Int BY <1>4, <1>11, <2>2
    <3> QED BY <2>3, <3>1, <3>2, <3>3, <3>4, <1>9 DEF Near3
  <2>5. {(U - 1) * ((U - 1) * ((U - 1) * n)), U * (U * (U * ((f + 1) * sd)))} \subseteq Int BY <1>11, <2>2
  <2>6. (U - 1) * ((U - 1) * ((U - 1) * n)) <= U * (U * (U * ((f + 1) * sd))) BY <2>4, <2>5, <1>4, Cancel
  <2>7. n < (f + 1) * sd + sd BY <2>2, <2>6, <1>8, NotFarBelow
  <2>8. (f + 1) * sd = f * sd + sd BY <1>5, <1>8
  <2> QED BY <2>7, <2>8, <1>5, <1>8
<1>16. step * f \in Nat /\ (step * f) % step = 0
  <2>1. step * f = f * step BY <1>5
  <2> QED BY <2>1, <1>5, DivUnique
<1>17. Rounds(step * f, step, n, d, mode)
  BY <1>10, <1>13, <1>14, <1>15, <1>16 DEF sd, Rounds
<1> QED BY <1>2, <1>6, <1>17

\* a / 10^e times the quotient of two whole numbers.
LEMMA TimesQuot ==
    ASSUME NEW a \in Nat, NEW e \in Nat, NEW n \in Nat, NEW d \in Nat, d > 0, 2 * (a * n) < U
    PROVE  \E p, g \in Nat :
              /\ Times([m |-> a, e |-> e], Quot(Whole(n), d)) = [m |-> p, e |-> g]
              /\ Approx(p, g, a * n, d * Ten[e])
<1>1. PICK k, q \in Nat : /\ Quot([m |-> n, e |-> 0], d) = [m |-> q, e |-> 0 + k]
                          /\ Near(q * d, n * Ten[k])
                          /\ \A c \in Nat : n <= c * d => q <= c * Ten[k]
                          /\ n % d = 0 => k = 0 /\ q * d = n
  BY QuotNear, ZenonT(60)
<1>2. Ten[k] \in Nat /\ Ten[k] > 0 /\ Ten[e] \in Nat /\ Ten[e] > 0 BY TenPositive
<1>3. Times([m |-> a, e |-> e], Quot(Whole(n), d)) = Fit(a * q, e + k) BY <1>1 DEF Times, Whole
<1>4. q <= n * Ten[k]
  <2>1. n <= n * d BY Scale
  <2> QED BY <2>1, <1>1
<1>5. 2 * (a * q) < U * Ten[e + k]
  <2>1. a * q <= (a * n) * Ten[k]
    <3>1. n * Ten[k] \in Nat BY <1>2
    <3>2. a * q <= a * (n * Ten[k]) BY <1>4, <3>1, Scale
    <3> QED BY <3>2, <1>2
  <2>2. Ten[k] * (2 * (a * n)) < Ten[k] * U
    <3>1. 2 * (a * n) + 1 <= U /\ 2 * (a * n) + 1 \in Int BY UnitType
    <3>2. Ten[k] * (2 * (a * n) + 1) <= Ten[k] * U BY <3>1, <1>2, UnitType, Scale
    <3>3. Ten[k] * (2 * (a * n) + 1) = Ten[k] * (2 * (a * n)) + Ten[k] BY <1>2
    <3>4. Ten[k] * (2 * (a * n)) \in Nat /\ Ten[k] * U \in Nat BY <1>2, UnitType
    <3> QED BY <3>2, <3>3, <3>4, <1>2
  <2>3. (U * Ten[k]) * 1 <= (U * Ten[k]) * Ten[e]
    <3>1. U * Ten[k] \in Nat BY <1>2, UnitType
    <3> QED BY <3>1, <1>2, Scale
  <2>4. Ten[e + k] = Ten[e] * Ten[k] BY TenAdd
  <2>5. Ten[k] * (2 * (a * n)) = 2 * ((a * n) * Ten[k]) /\ Ten[k] * U = (U * Ten[k]) * 1
        /\ (U * Ten[k]) * Ten[e] = U * (Ten[e] * Ten[k]) BY <1>2, UnitType
  <2>6. {a * q, (a * n) * Ten[k], U * Ten[k], U * (Ten[e] * Ten[k])} \subseteq Nat BY <1>2, UnitType
  <2> QED BY <2>1, <2>2, <2>3, <2>4, <2>5, <2>6
<1>6. PICK j \in 0 .. e + k : \E p \in Nat : /\ Fit(a * q, e + k) = [m |-> p, e |-> (e + k) - j]
                                             /\ Near(Ten[j] * p, a * q)
  <2>1. a * q \in Nat /\ e + k \in Nat OBVIOUS
  <2> QED BY <2>1, <1>5, FitNear
<1>7. PICK p \in Nat : /\ Fit(a * q, e + k) = [m |-> p, e |-> (e + k) - j]
                       /\ Near(Ten[j] * p, a * q)
  BY <1>6
<1> DEFINE g == (e + k) - j
<1>8. g \in Nat /\ j \in Nat /\ e + k = g + j BY <1>6
<1>9. Ten[g] \in Nat /\ Ten[j] \in Nat /\ Ten[j] > 0 BY <1>8, TenPositive
<1>10. Ten[e] * Ten[k] = Ten[g] * Ten[j] BY <1>8, TenAdd
<1> HIDE DEF g
<1>11. Near((d * Ten[e]) * (Ten[j] * p), (d * Ten[e]) * (a * q))
  <2>1. d * Ten[e] \in Nat /\ Ten[j] * p \in Nat /\ a * q \in Nat BY <1>2, <1>9
  <2> QED BY <2>1, <1>7, NearScale
<1>12. Near((a * Ten[e]) * (q * d), (a * Ten[e]) * (n * Ten[k]))
  <2>1. a * Ten[e] \in Nat /\ q * d \in Nat /\ n * Ten[k] \in Nat BY <1>2
  <2> QED BY <2>1, <1>1, NearScale
<1>13. (d * Ten[e]) * (a * q) = (a * Ten[e]) * (q * d) BY <1>2
<1>14. (d * Ten[e]) * (Ten[j] * p) = Ten[j] * ((d * Ten[e]) * p) BY <1>2, <1>9
<1>15. (a * Ten[e]) * (n * Ten[k]) = Ten[j] * ((a * n) * Ten[g])
  <2>1. (a * Ten[e]) * (n * Ten[k]) = (a * n) * (Ten[e] * Ten[k]) BY <1>2
  <2>2. (a * n) * (Ten[g] * Ten[j]) = Ten[j] * ((a * n) * Ten[g]) BY <1>9
  <2> QED BY <2>1, <2>2, <1>10
<1>16. {Ten[j] * ((d * Ten[e]) * p), (a * Ten[e]) * (q * d), Ten[j] * ((a * n) * Ten[g]),
        (d * Ten[e]) * p, (a * n) * Ten[g]} \subseteq Nat BY <1>2, <1>9
<1>17. Near2(Ten[j] * ((d * Ten[e]) * p), Ten[j] * ((a * n) * Ten[g]))
  BY <1>11, <1>12, <1>13, <1>14, <1>15, <1>16, NearChain
<1>18. Near2((d * Ten[e]) * p, (a * n) * Ten[g]) BY <1>17, <1>16, <1>9, Near2Cancel
<1> QED BY <1>3, <1>7, <1>8, <1>18 DEF g, Approx

-----------------------------------------------------------------------------
(* Opens and partial closes.                                                 *)

LEMMA SmallFactor ==
    ASSUME NEW a \in Nat, NEW b \in Nat, NEW c \in Nat, NEW d \in Nat, a <= c, b <= d, Small(c * d)
    PROVE  Small(a * b) /\ 2 * (a * b) < U
<1>1. a * b <= a * d BY Scale
<1>2. d * a <= d * c BY Scale
<1>3. a * d = d * a /\ c * d = d * c OBVIOUS
<1>4. a * b \in Nat /\ c * d \in Nat /\ a * d \in Nat OBVIOUS
<1>5. a * b <= c * d BY <1>1, <1>2, <1>3, <1>4
<1> HIDE DEF U
<1> QED BY <1>4, <1>5, UnitType DEF Small

LEMMA RoundWhole ==
    ASSUME NEW m \in Nat, NEW step \in Nat, step > 0, Small(m), NEW mode
    PROVE  /\ Rounds(RoundToStep(Whole(m), step, mode), step, m, 1, mode)
           /\ m % step = 0 => RoundToStep(Whole(m), step, mode) = m
<1>1. Ten[0] = 1 BY TenDef
<1>2. Near2(m, m) BY NearSelf, NearWeaker
<1>3. Approx(m, 0, m, 1)
  <2>1. 1 * m = m /\ m * Ten[0] = m BY <1>1
  <2> QED BY <1>2, <2>1 DEF Approx
<1> QED BY <1>3, RoundToStepBounds DEF Whole

\* The share of a partial close is not above the Master's.
LEMMA CloseShareBounds ==
    ASSUME NEW lots \in Nat, NEW delta \in Nat, NEW before \in Nat, NEW step \in Nat,
           step > 0, delta < before, Small(lots * delta), 2 * (lots * delta) < U
    PROVE  /\ CloseShare(lots, delta, before, step) \in 0 .. lots
           /\ CloseShare(lots, delta, before, step) * before <= lots * delta
<1>1. PICK p, g \in Nat :
         /\ Times([m |-> lots, e |-> 0], Quot(Whole(delta), before)) = [m |-> p, e |-> g]
         /\ Approx(p, g, lots * delta, before * Ten[0])
  <2>1. before > 0 OBVIOUS
  <2> QED BY <2>1, TimesQuot
<1>2. Ten[0] = 1 BY TenDef
<1>3. Approx(p, g, lots * delta, before)
  <2>1. before * Ten[0] = before BY <1>2
  <2> QED BY <1>1, <2>1
<1>4. lots * delta \in Nat /\ before > 0 OBVIOUS
<1> DEFINE v == CloseShare(lots, delta, before, step)
<1>5. Rounds(v, step, lots * delta, before, "DOWN")
  <2>1. Rounds(RoundToStep([m |-> p, e |-> g], step, "DOWN"), step, lots * delta, before, "DOWN")
    BY <1>3, <1>4, RoundToStepBounds
  <2> QED BY <1>1, <2>1 DEF CloseShare, Whole
<1> HIDE DEF v
<1>6. v \in Nat /\ v * before <= lots * delta BY <1>5 DEF Rounds
<1>7. v <= lots
  <2>1. lots * delta <= lots * before BY Scale
  <2>2. v * before = before * v /\ lots * before = before * lots BY <1>6
  <2>3. {before * v, before * lots, lots * delta} \subseteq Int BY <1>6
  <2>4. before * v <= before * lots BY <1>6, <2>1, <2>2, <2>3
  <2> QED BY <1>4, <1>6, <2>4, Cancel
<1> QED BY <1>6, <1>7 DEF v

CaseType(in) ==
    {in.master, in.multiplier, in.min, in.max, in.step, in.masterSize, in.clientSize} \subseteq Nat

LEMMA CasesOK ==
    ASSUME NEW in \in Cases
    PROVE  /\ CaseType(in) /\ Nominal(in) \in Nat /\ Small(Nominal(in))
           /\ Largest(in) \in Nat /\ Largest(in) >= in.max /\ Largest(in) >= in.min + in.step
           /\ Small(Largest(in) * in.master)
<1>1. CaseType(in) BY HedgeAssumption DEF CaseType
<1>2. Nominal(in) \in Nat BY <1>1 DEF Nominal, CaseType
<1>3. Largest(in) \in Nat /\ Largest(in) >= in.max /\ Largest(in) >= in.min + in.step
  BY <1>1 DEF Largest, CaseType
<1>4. Small(Nominal(in)) BY HedgeAssumption DEF Small, U
<1>5. Small(Largest(in) * in.master)
  <2>1. 7 * Largest(in) * in.master < 2 * Ten[Digits - 1] BY HedgeAssumption
  <2>2. in.master \in Nat BY <1>1 DEF CaseType
  <2>3. 7 * Largest(in) * in.master = 7 * (Largest(in) * in.master)
    <3> HIDE DEF Largest
    <3> QED BY <1>3, <2>2
  <2> QED BY <2>1, <2>3 DEF Small, U
<1> QED BY <1>1, <1>2, <1>3, <1>4, <1>5

\* Nominal(in) / Fair(in) is the Client's volume if every number were exact.
Fair(in) == 100 * Sizes(in)

LEMMA RawNear ==
    ASSUME NEW in \in Cases
    PROVE  \E p, g \in Nat : /\ Raw(in) = [m |-> p, e |-> g]
                             /\ Approx(p, g, Nominal(in), Fair(in))
<1>1. /\ in.master \in Nat /\ in.multiplier \in Nat /\ in.masterSize \in Nat /\ in.clientSize \in Nat
      /\ Nominal(in) \in Nat /\ Small(Nominal(in))
  BY CasesOK DEF CaseType
<1>2. Ten[2] = 100
  <2>1. Ten[0] = 1 /\ Ten[0 + 1] = 10 * Ten[0] /\ Ten[1 + 1] = 10 * Ten[1] BY TenDef, TenNext
  <2> QED BY <2>1
<1> DEFINE a == in.master * in.multiplier
<1>3. a \in Nat BY <1>1
<1>4. CASE Converts(in)
  <2>1. Nominal(in) = a * in.masterSize /\ Fair(in) = 100 * in.clientSize /\ in.clientSize > 0
    BY <1>1, <1>4 DEF Nominal, Fair, Sizes, Converts
  <2>2. Raw(in) = Times([m |-> a, e |-> 2], Quot(Whole(in.masterSize), in.clientSize)) BY <1>4 DEF Raw
  <2> HIDE DEF a
  <2>3. 2 * (a * in.masterSize) < U BY <1>1, <2>1, UnitType DEF Small
  <2>4. PICK p, g \in Nat :
           /\ Times([m |-> a, e |-> 2], Quot(Whole(in.masterSize), in.clientSize)) = [m |-> p, e |-> g]
           /\ Approx(p, g, a * in.masterSize, in.clientSize * Ten[2])
    BY <1>1, <1>3, <2>1, <2>3, TimesQuot
  <2>5. in.clientSize * Ten[2] = Fair(in) BY <1>1, <1>2, <2>1
  <2> QED BY <2>1, <2>2, <2>4, <2>5
<1>5. CASE ~Converts(in)
  <2>1. Raw(in) = [m |-> a, e |-> 2] BY <1>5 DEF Raw
  <2>2. Nominal(in) = a * 1 /\ Fair(in) = 100 * 1 BY <1>5 DEF Nominal, Fair, Sizes
  <2> HIDE DEF a
  <2>3. Fair(in) * a = 100 * a /\ Nominal(in) * Ten[2] = 100 * a BY <1>2, <1>3, <2>2
  <2>4. Near2(100 * a, 100 * a)
    <3>1. 100 * a \in Nat BY <1>3
    <3> QED BY <3>1, NearSelf, NearWeaker
  <2> QED BY <1>3, <2>1, <2>3, <2>4 DEF Approx
<1> QED BY <1>4, <1>5

\* Rounded(in) is the nominal volume to a step.
LEMMA RoundedBounds ==
    ASSUME NEW in \in Cases, in.step > 0
    PROVE  Rounds(Rounded(in), in.step, Nominal(in), Fair(in), in.rounding)
<1>1. in.step \in Nat /\ Nominal(in) \in Nat /\ Small(Nominal(in)) /\ in.clientSize \in Nat
  BY CasesOK DEF CaseType
<1>2. Fair(in) \in Nat /\ Fair(in) > 0 BY <1>1 DEF Fair, Sizes, Converts
<1>3. PICK p, g \in Nat : /\ Raw(in) = [m |-> p, e |-> g]
                          /\ Approx(p, g, Nominal(in), Fair(in))
  BY RawNear
<1>4. Rounds(RoundToStep([m |-> p, e |-> g], in.step, in.rounding), in.step, Nominal(in), Fair(in), in.rounding)
  BY <1>1, <1>2, <1>3, RoundToStepBounds
<1> QED BY <1>3, <1>4 DEF Rounded

\* What is sent when something is sent.
LEMMA SizedBounds ==
    ASSUME NEW in \in Cases, in.master > 0, in.step > 0, in.min > 0
    PROVE  /\ Normalised(in) \in Nat /\ Sized(in) \in Nat
           /\ Sized(in) % in.step = 0 /\ Sized(in) <= Largest(in)
           /\ in.min % in.step = 0 /\ in.min <= in.max => Sized(in) \in in.min .. in.max
<1>1. /\ in.step \in Nat /\ in.master \in Nat /\ in.min \in Nat /\ in.max \in Nat
      /\ Largest(in) \in Nat /\ Largest(in) >= in.max /\ Largest(in) >= in.min + in.step
      /\ Small(Largest(in) * in.master)
  BY CasesOK DEF CaseType
<1>2. ASSUME NEW v \in Nat, v <= Largest(in) PROVE Small(v)
  <2>1. 1 <= in.master /\ 1 \in Nat BY <1>1
  <2>2. Small(v * 1) BY <2>1, <1>1, <1>2, SmallFactor
  <2> QED BY <2>2
<1>3. Small(in.max) /\ Small(in.min)
  <2>1. in.min <= Largest(in) BY <1>1
  <2> QED BY <1>1, <1>2, <2>1
<1>4. Normalised(in) \in Nat /\ Normalised(in) % in.step = 0 /\ Normalised(in) <= in.max
  <2>1. CASE Rounded(in) > in.max
    <3>1. Rounds(RoundToStep(Whole(in.max), in.step, "DOWN"), in.step, in.max, 1, "DOWN")
      BY <1>1, <1>3, RoundWhole
    <3>2. Normalised(in) = RoundToStep(Whole(in.max), in.step, "DOWN") BY <2>1 DEF Normalised
    <3>3. Rounds(Normalised(in), in.step, in.max, 1, "DOWN") BY <3>1, <3>2
    <3> QED BY <3>3, <1>1 DEF Rounds
  <2>2. CASE ~(Rounded(in) > in.max)
    <3>1. Rounds(Rounded(in), in.step, Nominal(in), Fair(in), in.rounding) BY RoundedBounds
    <3>2. Rounded(in) \in Nat /\ Rounded(in) % in.step = 0 BY <3>1 DEF Rounds
    <3> QED BY <1>1, <2>2, <3>2 DEF Normalised
  <2> QED BY <2>1, <2>2
<1>5. CASE BelowMin(in)
  <2>1. /\ Rounds(RoundToStep(Whole(in.min), in.step, "NEAREST"), in.step, in.min, 1, "NEAREST")
        /\ in.min % in.step = 0 => RoundToStep(Whole(in.min), in.step, "NEAREST") = in.min
    BY <1>1, <1>3, RoundWhole
  <2>2. Sized(in) = RoundToStep(Whole(in.min), in.step, "NEAREST") BY <1>5 DEF Sized
  <2>3. Rounds(Sized(in), in.step, in.min, 1, "NEAREST") BY <2>1, <2>2
  <2>4. /\ Sized(in) \in Nat /\ Sized(in) % in.step = 0 /\ 2 * (Sized(in) * 1) <= 2 * in.min + in.step * 1
    BY <2>3 DEF Rounds
  <2>5. Sized(in) <= Largest(in) BY <1>1, <2>4
  <2>6. in.min % in.step = 0 => Sized(in) = in.min BY <2>1, <2>2
  <2> QED BY <1>1, <1>4, <2>4, <2>5, <2>6
<1>6. CASE ~BelowMin(in)
  <2>1. Sized(in) = Normalised(in) BY <1>6 DEF Sized
  <2>2. Normalised(in) >= in.min BY <1>1, <1>4, <1>6 DEF BelowMin
  <2> QED BY <1>1, <1>4, <2>1, <2>2
<1> QED BY <1>5, <1>6

\* What compute_client_volume answers.
LEMMA Answered ==
    ASSUME NEW in \in Cases, NEW lim \in Accounts
    PROVE  LET v == ClientVolume(in, lim)
           IN /\ v.volume \in Nat /\ v.alerts \subseteq {"WARNING", "INFO", "ERROR"}
              /\ v.volume > 0 => /\ in.master > 0 /\ in.step > 0 /\ in.min > 0
                                 /\ v.volume = Sized(in) /\ LimitHit(Sized(in), lim) = "none"
                                 /\ v.alerts = Notes(in)
                                 /\ BelowMin(in) => in.belowMin = "USE_MIN"
<1>1. in.master \in Nat /\ in.step \in Nat /\ in.min \in Nat BY CasesOK DEF CaseType
<1>2. Notes(in) \subseteq {"WARNING", "INFO", "ERROR"} BY DEF Notes
<1>3. CASE in.master <= 0 \/ in.step <= 0 \/ in.min <= 0
  BY <1>3 DEF ClientVolume, Skip
<1>4. CASE ~(in.master <= 0 \/ in.step <= 0 \/ in.min <= 0)
  <2>1. in.master > 0 /\ in.step > 0 /\ in.min > 0 BY <1>1, <1>4
  <2>2. Sized(in) \in Nat BY <2>1, SizedBounds
  <2>3. CASE BelowMin(in) /\ in.belowMin # "USE_MIN"
    <3>1. \E why : ClientVolume(in, lim) = Skip(why, Notes(in)) BY <1>4, <2>3 DEF ClientVolume
    <3> QED BY <3>1, <1>2 DEF Skip
  <2>4. CASE ~(BelowMin(in) /\ in.belowMin # "USE_MIN") /\ LimitHit(Sized(in), lim) # "none"
    <3>1. \E why : ClientVolume(in, lim) = Skip(why, Notes(in)) BY <1>4, <2>4 DEF ClientVolume
    <3> QED BY <3>1, <1>2 DEF Skip
  <2>5. CASE ~(BelowMin(in) /\ in.belowMin # "USE_MIN") /\ LimitHit(Sized(in), lim) = "none"
    <3>1. ClientVolume(in, lim) = [volume |-> Sized(in), skip |-> "none", alerts |-> Notes(in)]
      BY <1>4, <2>5 DEF ClientVolume
    <3> QED BY <3>1, <1>2, <2>1, <2>2, <2>5
  <2> QED BY <2>3, <2>4, <2>5
<1> QED BY <1>3, <1>4

-----------------------------------------------------------------------------
(* The invariant.                                                            *)

\* What a Client has, in the book, at the broker and in the news of it, is at most what
\* was opened, of a case that could be opened at all.
FollowsDown ==
    /\ clots > 0 => opened = ClientVolume(case, acct) /\ mlots \in 1 .. case.master
    /\ clots <= opened.volume /\ held <= opened.volume
    /\ \A i \in DOMAIN news : news[i] <= opened.volume
    /\ opened = Unsized => /\ order = NoOrder /\ news = <<>> /\ ~unsure /\ ~blind
                           /\ clots = 0 /\ held = 0

\* While no share was taken blindly: the book is what is held, or there is news of it.
Fresh ==
    ~blind => \/ news = <<>> /\ (clots \in {0, held} \/ unsure)
              \/ news = <<held>> /\ order.lots = 0

\* And what will be left when the part in flight is filled is not too little.
Kept ==
    ~blind => /\ order.lots <= held
              /\ opened.volume * mlots <= (held - order.lots) * case.master

HInv == /\ TypeOK /\ (opened = Unsized \/ opened = ClientVolume(case, acct))
        /\ FollowsDown /\ Fresh /\ Kept

LEMMA UnsizedIsEmpty == Unsized.volume = 0 /\ Unsized.alerts = {}
BY DEF Unsized

LEMMA HInvInit == Init => HInv
<1> SUFFICES ASSUME Init PROVE HInv OBVIOUS
<1>1. /\ case \in Cases /\ acct \in Accounts /\ opened = Unsized /\ mlots = 0 /\ clots = 0 /\ held = 0
      /\ order.lots = 0 /\ order.via = "EA" /\ order = NoOrder /\ news = <<>> /\ ~unsure /\ ~blind
      /\ unsure \in BOOLEAN /\ blind \in BOOLEAN
      /\ opened.volume = 0 /\ opened.alerts \subseteq {"WARNING", "INFO", "ERROR"}
  BY UnsizedIsEmpty DEF Init, NoOrder
<1>2. TypeOK
  <2>1. order \in [lots : 0 .. opened.volume, via : Vias] BY <1>1 DEF NoOrder, Vias
  <2> QED BY <1>1, <2>1 DEF TypeOK
<1>3. FollowsDown /\ Fresh BY <1>1 DEF FollowsDown, Fresh
<1>4. Kept
  <2>1. case.master \in Nat BY <1>1, CasesOK DEF CaseType
  <2> QED BY <1>1, <2>1 DEF Kept
<1> QED BY <1>1, <1>2, <1>3, <1>4 DEF HInv

\* The types, in the form the steps need them.
LEMMA HTypes ==
    ASSUME HInv
    PROVE  /\ case \in Cases /\ acct \in Accounts /\ case.master \in Nat /\ case.step \in Nat
           /\ opened.volume \in Nat /\ opened.alerts \subseteq {"WARNING", "INFO", "ERROR"}
           /\ mlots \in Nat /\ clots \in Nat /\ held \in Nat /\ news \in Seq(Nat)
           /\ order \in [lots : 0 .. opened.volume, via : Vias]
           /\ order.lots \in 0 .. opened.volume /\ order.via \in Vias
           /\ unsure \in BOOLEAN /\ blind \in BOOLEAN
<1>1. case \in Cases BY DEF HInv, TypeOK
<1>2. case.master \in Nat /\ case.step \in Nat BY <1>1, CasesOK DEF CaseType
<1> QED BY <1>1, <1>2 DEF HInv, TypeOK

LEMMA OpenStep ==
    ASSUME HInv, Open
    PROVE  HInv'
<1>1. /\ opened = Unsized /\ UNCHANGED <<case, acct, order, news, unsure, blind>>
      /\ opened' = ClientVolume(case, acct) /\ mlots' = case.master
      /\ clots' = opened'.volume /\ held' = opened'.volume
  BY DEF Open
<1>2. /\ opened'.volume \in Nat /\ opened'.alerts \subseteq {"WARNING", "INFO", "ERROR"}
      /\ opened'.volume > 0 => case.master > 0
  BY <1>1, HTypes, Answered
<1>3. order = NoOrder /\ news = <<>> /\ ~unsure /\ ~blind
  BY <1>1 DEF HInv, FollowsDown
<1>4. order' = NoOrder /\ order'.lots = 0 /\ order' \in [lots : 0 .. opened'.volume, via : Vias]
  BY <1>1, <1>2, <1>3 DEF NoOrder, Vias
<1>5. TypeOK' BY <1>1, <1>2, <1>4, HTypes DEF TypeOK
<1>6. opened' = Unsized => clots' = 0 /\ held' = 0 BY <1>1, UnsizedIsEmpty
<1>7. clots' > 0 => mlots' \in 1 .. case'.master BY <1>1, <1>2, HTypes
<1>8. FollowsDown'
  <2>1. /\ opened' = ClientVolume(case', acct') /\ clots' <= opened'.volume /\ held' <= opened'.volume
        /\ DOMAIN news' = {}
    BY <1>1, <1>2, <1>3
  <2> QED BY <1>1, <1>3, <1>6, <1>7, <2>1 DEF FollowsDown
<1>9. Fresh' BY <1>1, <1>3 DEF Fresh
<1>10. Kept'
  <2>1. opened'.volume * mlots' = (held' - order'.lots) * case'.master
    BY <1>1, <1>2, <1>4, HTypes
  <2> QED BY <1>1, <1>2, <1>4, <2>1, HTypes DEF Kept
<1> QED BY <1>1, <1>5, <1>8, <1>9, <1>10 DEF HInv

\* A share, rounded down, leaves the Client at least what the Master keeps.
LEMMA ShareLeavesEnough ==
    ASSUME NEW h \in Nat, NEW share \in Nat, NEW delta \in Nat, NEW M \in Nat, NEW w \in Nat,
           NEW m \in Nat, delta < M, share <= h, share * M <= h * delta, w * M <= h * m
    PROVE  w * (M - delta) <= (h - share) * m
<1> DEFINE r == h - share
           k == M - delta
<1>1. r \in Nat /\ k \in Nat /\ M > 0 OBVIOUS
<1>2. r * M >= h * k
  <2>1. r * M = h * M - share * M /\ h * k = h * M - h * delta OBVIOUS
  <2>2. {h * M, share * M, h * delta} \subseteq Int OBVIOUS
  <2> QED BY <2>1, <2>2
<1> HIDE DEF r, k
<1>3. m * (h * k) <= m * (r * M)
  <2>1. h * k \in Int /\ r * M \in Int BY <1>1
  <2> QED BY <2>1, <1>2, Scale
<1>4. k * (w * M) <= k * (h * m)
  <2>1. w * M \in Nat /\ h * m \in Nat BY <1>1
  <2> QED BY <2>1, <1>1, Scale
<1>5. m * (h * k) = k * (h * m) BY <1>1
<1>6. m * (r * M) = M * (r * m) /\ k * (w * M) = M * (w * k) BY <1>1
<1>7. {M * (r * m), M * (w * k), k * (h * m), r * m, w * k} \subseteq Int BY <1>1
<1>8. M * (w * k) <= M * (r * m) BY <1>3, <1>4, <1>5, <1>6, <1>7
<1>9. w * k <= r * m BY <1>7, <1>8, <1>1, Cancel
<1> QED BY <1>9 DEF r, k

LEMMA PartStep ==
    ASSUME HInv, NEW delta \in 1 .. mlots, MasterClosesPart(delta)
    PROVE  HInv'
<1> DEFINE share == CloseShare(clots, delta, mlots, case.step)
<1>1. /\ UNCHANGED <<case, acct, opened, clots, held, news, unsure>>
      /\ clots > 0 /\ delta \in 1 .. mlots - 1 /\ mlots' = mlots - delta
  BY DEF MasterClosesPart
<1>2. /\ opened = ClientVolume(case, acct) /\ mlots \in 1 .. case.master /\ clots <= opened.volume
  BY <1>1 DEF HInv, FollowsDown
<1>3. /\ case.step \in Nat /\ case.step > 0 /\ case.master \in Nat /\ case.master > 0 /\ case.min > 0
      /\ opened.volume = Sized(case) /\ Small(Largest(case) * case.master)
      /\ Largest(case) \in Nat
  <2>1. opened.volume > 0 BY <1>1, <1>2, HTypes
  <2> QED BY <2>1, <1>1, <1>2, HTypes, Answered, CasesOK DEF CaseType
<1>4. mlots \in Nat /\ delta \in Nat /\ delta > 0 /\ delta < mlots /\ mlots - delta \in Nat
      /\ delta <= case.master
  BY <1>1, <1>2, <1>3
<1>5. share \in 0 .. clots /\ share * mlots <= clots * delta
  <2>1. opened.volume <= Largest(case) BY <1>2, <1>3, SizedBounds, HTypes
  <2>2. clots <= Largest(case) /\ clots \in Nat BY <1>2, <1>3, <2>1, HTypes
  <2>3. Small(clots * delta) /\ 2 * (clots * delta) < U
    BY <1>1, <1>3, <1>4, <2>2, SmallFactor
  <2> QED BY <1>3, <1>4, <2>2, <2>3, CloseShareBounds
<1>6. \/ /\ order = NoOrder
         /\ \E via \in Vias : order' = [lots |-> share, via |-> via]
         /\ blind' = (blind \/ news # <<>> \/ unsure)
      \/ UNCHANGED <<order, blind>>
  BY DEF MasterClosesPart
<1> HIDE DEF share
<1>7. order' \in [lots : 0 .. opened.volume, via : Vias] /\ blind' \in BOOLEAN
  <2>1. share \in 0 .. opened.volume BY <1>2, <1>5, HTypes
  <2>2. CASE UNCHANGED <<order, blind>> BY <2>2, HTypes
  <2>3. CASE /\ \E via \in Vias : order' = [lots |-> share, via |-> via]
             /\ blind' = (blind \/ news # <<>> \/ unsure)
    <3>1. PICK via \in Vias : order' = [lots |-> share, via |-> via] BY <2>3
    <3>2. order' \in [lots : 0 .. opened.volume, via : Vias] BY <3>1, <2>1
    <3> QED BY <3>2, <2>3, HTypes
  <2> QED BY <1>6, <2>2, <2>3
<1>8. TypeOK' BY <1>1, <1>4, <1>7, HTypes DEF TypeOK
<1>9. FollowsDown'
  <2>1. opened # Unsized BY <1>1 DEF HInv, FollowsDown
  <2>2. mlots' \in 1 .. case'.master BY <1>1, <1>2, <1>3, <1>4
  <2> QED BY <1>1, <1>2, <2>1, <2>2 DEF HInv, FollowsDown
<1>10. Fresh' /\ Kept'
  <2>1. CASE UNCHANGED <<order, blind>>
    <3>1. Fresh' BY <1>1, <2>1 DEF HInv, Fresh
    <3>2. Kept'
      <4> SUFFICES ASSUME ~blind
                   PROVE  /\ order.lots <= held
                          /\ opened.volume * (mlots - delta) <= (held - order.lots) * case.master
        BY <1>1, <2>1 DEF Kept
      <4>1. /\ order.lots <= held
            /\ opened.volume * mlots <= (held - order.lots) * case.master
        BY DEF HInv, Kept
      <4>2. opened.volume * (mlots - delta) <= opened.volume * mlots
        <5>1. mlots - delta <= mlots /\ {mlots - delta, mlots} \subseteq Int /\ opened.volume \in Nat
          BY <1>4, HTypes
        <5> QED BY <5>1, Scale
      <4>3. {opened.volume * (mlots - delta), opened.volume * mlots, (held - order.lots) * case.master} \subseteq Int
        <5>1. {opened.volume, mlots, mlots - delta, held - order.lots, case.master} \subseteq Int
          BY <1>3, <1>4, HTypes
        <5> QED BY <5>1
      <4> QED BY <4>1, <4>2, <4>3
    <3> QED BY <3>1, <3>2
  <2>2. CASE /\ order = NoOrder
             /\ \E via \in Vias : order' = [lots |-> share, via |-> via]
             /\ blind' = (blind \/ news # <<>> \/ unsure)
    <3>1. order.lots = 0 /\ order'.lots = share BY <2>2 DEF NoOrder
    <3> SUFFICES ASSUME ~blind'
                 PROVE  /\ news = <<>> /\ clots = held
                        /\ share <= held
                        /\ opened.volume * (mlots - delta) <= (held - share) * case.master
      BY <1>1, <3>1 DEF Fresh, Kept
    <3>2. ~blind /\ news = <<>> /\ ~unsure BY <2>2
    <3>3. clots = held
      <4>1. <<held>> # <<>> OBVIOUS
      <4> QED BY <3>2, <4>1, <1>1 DEF HInv, Fresh
    <3>4. opened.volume * mlots <= held * case.master
      <4>1. opened.volume * mlots <= (held - order.lots) * case.master BY <3>2 DEF HInv, Kept
      <4>2. held - order.lots = held BY <3>1, HTypes
      <4> QED BY <4>1, <4>2
    <3>5. share \in Nat /\ share <= held /\ share * mlots <= held * delta BY <1>5, <3>3, HTypes
    <3>6. opened.volume * (mlots - delta) <= (held - share) * case.master
      BY <1>3, <1>4, <3>4, <3>5, HTypes, ShareLeavesEnough
    <3> QED BY <3>2, <3>3, <3>5, <3>6
  <2> QED BY <1>6, <2>1, <2>2
<1> QED BY <1>1, <1>2, <1>8, <1>9, <1>10 DEF HInv

LEMMA FallBackStep ==
    ASSUME HInv, FallBack
    PROVE  HInv'
<1>1. /\ UNCHANGED <<case, acct, opened, mlots, clots, held, news, unsure, blind>>
      /\ order' = [order EXCEPT !.via = "EA"] /\ order.lots > 0
  BY DEF FallBack
<1>2. order' \in [lots : 0 .. opened.volume, via : Vias] /\ order'.lots = order.lots
  BY <1>1, HTypes DEF Vias
<1>3. TypeOK' BY <1>1, <1>2, HTypes DEF TypeOK
<1>4. opened # Unsized
  <2>1. opened = Unsized => order.lots = 0 BY DEF HInv, FollowsDown, NoOrder
  <2> QED BY <1>1, <2>1, HTypes
<1>5. FollowsDown' BY <1>1, <1>4 DEF HInv, FollowsDown
<1>6. Fresh' /\ Kept' BY <1>1, <1>2 DEF HInv, Fresh, Kept
<1> QED BY <1>1, <1>3, <1>5, <1>6 DEF HInv

\* What is filled leaves the types, and enough of what is held.
LEMMA FillStep ==
    ASSUME HInv, NEW n \in 0 .. held, Filled(n), UNCHANGED <<case, acct, opened, mlots, blind>>
    PROVE  /\ held' \in Nat /\ held' <= opened.volume
           /\ news' \in Seq(Nat) /\ \A i \in DOMAIN news' : news'[i] <= opened.volume
           /\ order' \in [lots : 0 .. opened.volume, via : Vias] /\ order'.lots = 0
           /\ opened # Unsized
           /\ Kept'
<1>1. /\ order.lots > 0 /\ n <= order.lots /\ n <= held
      /\ held' = held - n /\ order' = NoOrder
      /\ news' = IF order.via = "CLICKER" /\ n > 0 THEN Append(news, held - n) ELSE news
  BY DEF Filled
<1>2. held \in Nat /\ held <= opened.volume /\ n \in Nat /\ opened.volume \in Nat
      /\ news \in Seq(Nat) /\ \A i \in DOMAIN news : news[i] <= opened.volume
  BY HTypes DEF HInv, FollowsDown
<1>3. held' \in Nat /\ held' <= opened.volume BY <1>1, <1>2
<1>4. news' \in Seq(Nat) /\ \A i \in DOMAIN news' : news'[i] <= opened.volume
  <2>1. CASE news' = news BY <2>1, <1>2
  <2>2. CASE news' = Append(news, held')
    BY <2>2, <1>2, <1>3
  <2> QED BY <1>1, <2>1, <2>2
<1>5. order' \in [lots : 0 .. opened.volume, via : Vias] /\ order'.lots = 0
  BY <1>1, <1>2 DEF NoOrder, Vias
<1>6. opened # Unsized
  <2>1. opened = Unsized => order.lots = 0 BY DEF HInv, FollowsDown, NoOrder
  <2> QED BY <1>1, <2>1, HTypes
<1>7. Kept'
  <2> SUFFICES ASSUME ~blind
               PROVE  opened.volume * mlots <= (held' - 0) * case.master
    BY <1>3, <1>5 DEF Kept
  <2>1. order.lots <= held /\ opened.volume * mlots <= (held - order.lots) * case.master
    BY DEF HInv, Kept
  <2>2. /\ held - order.lots \in Nat /\ held - order.lots <= held' /\ case.master \in Nat
        /\ opened.volume * mlots \in Nat
    BY <1>1, <1>2, <2>1, HTypes
  <2>3. case.master * (held - order.lots) <= case.master * held' BY <2>2, <1>3, Scale
  <2>4. /\ case.master * (held - order.lots) = (held - order.lots) * case.master
        /\ case.master * held' = (held' - 0) * case.master
        /\ {case.master * (held - order.lots), case.master * held'} \subseteq Int
    BY <2>2, <1>3
  <2> QED BY <2>1, <2>2, <2>3, <2>4
<1> QED BY <1>3, <1>4, <1>5, <1>6, <1>7

LEMMA AckedStep ==
    ASSUME HInv, NEW n \in 0 .. held, Acked(n)
    PROVE  HInv'
<1>1. /\ Filled(n) /\ UNCHANGED <<case, acct, opened, mlots, unsure, blind>>
      /\ clots' = IF order.via = "CLICKER" THEN clots ELSE IF n < clots THEN clots - n ELSE 0
  BY DEF Acked
<1>2. clots' \in Nat /\ clots' <= clots /\ clots \in Nat /\ clots <= opened.volume
  BY <1>1, HTypes DEF HInv, FollowsDown
<1>3. TypeOK' BY <1>1, <1>2, FillStep, HTypes DEF TypeOK
<1>4. FollowsDown'
  <2>1. clots' > 0 => clots > 0 BY <1>2
  <2>2. clots' <= opened.volume BY <1>2, HTypes
  <2>3. clots > 0 => opened = ClientVolume(case, acct) /\ mlots \in 1 .. case.master
    BY DEF HInv, FollowsDown
  <2>4. /\ held' <= opened.volume /\ opened # Unsized
        /\ \A i \in DOMAIN news' : news'[i] <= opened.volume
    BY <1>1, FillStep
  <2> QED BY <1>1, <2>1, <2>2, <2>3, <2>4 DEF FollowsDown
<1>5. Fresh'
  <2> SUFFICES ASSUME ~blind
               PROVE  \/ news' = <<>> /\ (clots' \in {0, held'} \/ unsure)
                      \/ news' = <<held'>> /\ order'.lots = 0
    BY <1>1 DEF Fresh
  <2>1. order.lots > 0 /\ order'.lots = 0 /\ held' = held - n /\ held \in Nat /\ n \in Nat
    BY <1>1, FillStep, HTypes, SMTT(30) DEF Filled
  <2>2. news = <<>> /\ (clots \in {0, held} \/ unsure) BY <2>1 DEF HInv, Fresh
  <2>3. CASE order.via = "CLICKER" /\ n > 0
    <3>1. news' = Append(news, held') BY <1>1, <2>1, <2>3 DEF Filled
    <3> QED BY <3>1, <2>1, <2>2
  <2>4. CASE order.via = "CLICKER" /\ n = 0
    BY <1>1, <2>1, <2>2, <2>4 DEF Filled
  <2>5. CASE order.via # "CLICKER"
    BY <1>1, <1>2, <2>1, <2>2, <2>5 DEF Filled
  <2> QED BY <2>1, <2>3, <2>4, <2>5
<1> QED BY <1>1, <1>3, <1>4, <1>5, FillStep DEF HInv

LEMMA UnansweredStep ==
    ASSUME HInv, NEW n \in 0 .. held, Unanswered(n)
    PROVE  HInv'
<1>1. Filled(n) /\ unsure' = TRUE /\ UNCHANGED <<case, acct, opened, mlots, clots, blind>>
  BY DEF Unanswered
<1>2. TypeOK' BY <1>1, FillStep, HTypes DEF TypeOK
<1>3. FollowsDown' BY <1>1, FillStep DEF HInv, FollowsDown
<1>4. Fresh'
  <2> SUFFICES ASSUME ~blind PROVE news' = <<>> \/ (news' = <<held'>> /\ order'.lots = 0)
    BY <1>1 DEF Fresh
  <2>1. order.lots > 0 /\ held' = held - n /\ held \in Nat /\ n \in Nat
    BY <1>1, HTypes DEF Filled
  <2>2. news = <<>> BY <2>1 DEF HInv, Fresh
  <2>3. news' = Append(news, held') \/ news' = news BY <1>1, <2>1 DEF Filled
  <2> QED BY <1>1, <2>2, <2>3, FillStep
<1> QED BY <1>1, <1>2, <1>3, <1>4, FillStep DEF HInv

LEMMA HearStep ==
    ASSUME HInv, HearOfClose
    PROVE  HInv'
<1>1. /\ news # <<>> /\ news' = Tail(news) /\ clots' = IF clots = 0 THEN 0 ELSE Head(news)
      /\ UNCHANGED <<case, acct, opened, mlots, held, order, unsure, blind>>
  BY DEF HearOfClose
<1>2. /\ news \in Seq(Nat) /\ \A i \in DOMAIN news : news[i] <= opened.volume
  BY HTypes DEF HInv, FollowsDown
<1>3. /\ Head(news) \in Nat /\ Head(news) <= opened.volume /\ news' \in Seq(Nat)
      /\ \A i \in DOMAIN news' : news'[i] <= opened.volume
  <2>1. Len(news) >= 1 /\ Head(news) = news[1] /\ 1 \in DOMAIN news BY <1>1, <1>2
  <2>2. \A i \in DOMAIN news' : i + 1 \in DOMAIN news /\ news'[i] = news[i + 1] BY <1>1, <1>2
  <2> QED BY <1>1, <1>2, <2>1, <2>2
<1>4. TypeOK' BY <1>1, <1>3, HTypes DEF TypeOK
<1>5. FollowsDown'
  <2>1. clots' > 0 => clots > 0 BY <1>1, HTypes
  <2>2. opened # Unsized BY <1>1 DEF HInv, FollowsDown
  <2> QED BY <1>1, <1>3, <2>1, <2>2, HTypes DEF HInv, FollowsDown
<1>6. Fresh'
  <2> SUFFICES ASSUME ~blind PROVE news' = <<>> /\ clots' \in {0, held}
    BY <1>1 DEF Fresh
  <2>1. news = <<held>> BY <1>1 DEF HInv, Fresh
  <2>2. Tail(<<held>>) = <<>> /\ Head(<<held>>) = held OBVIOUS
  <2> QED BY <1>1, <2>1, <2>2
<1>7. Kept' BY <1>1 DEF HInv, Kept
<1> QED BY <1>1, <1>4, <1>5, <1>6, <1>7 DEF HInv

LEMMA HInvStep == HInv /\ [Next]_vars => HInv'
<1> SUFFICES ASSUME HInv, [Next]_vars PROVE HInv' OBVIOUS
<1>1. CASE Open BY <1>1, OpenStep
<1>2. CASE \E delta \in 1 .. mlots : MasterClosesPart(delta) BY <1>2, PartStep
<1>3. CASE FallBack BY <1>3, FallBackStep
<1>4. CASE HearOfClose BY <1>4, HearStep
<1>5. CASE \E n \in 0 .. held : Acked(n) \/ Unanswered(n) BY <1>5, AckedStep, UnansweredStep
<1>6. CASE UNCHANGED vars BY <1>6 DEF vars, HInv, TypeOK, FollowsDown, Fresh, Kept
<1> QED BY <1>1, <1>2, <1>3, <1>4, <1>5, <1>6 DEF Next

LEMMA HedgeInvariance == Spec => []HInv
BY HInvInit, HInvStep, PTL DEF Spec

-----------------------------------------------------------------------------
(* The theorems.                                                             *)

\* Volumes are natural numbers: no share of a partial close is more than what the
\* Client has (closing.py:296).
THEOREM TypeCorrect == Spec => []TypeOK
<1>1. HInv => TypeOK BY DEF HInv
<1> QED BY <1>1, HedgeInvariance, PTL

\* An order has a volume the broker takes, within every limit of the account
\* (sizing.py:170-226).
THEOREM AllowedCorrect == Spec => []OrderIsAllowed
<1>1. HInv => OrderIsAllowed
  <2> SUFFICES ASSUME HInv, opened.volume > 0, SoundSpec
               PROVE  /\ opened.volume % case.step = 0
                      /\ opened.volume >= case.min /\ opened.volume <= case.max
                      /\ ~Exceeds(opened.volume, acct.perOrder)
                      /\ ~Exceeds(opened.volume + acct.total, acct.maxTotal)
                      /\ ~Exceeds(acct.pairs + 1, acct.maxPairs)
    BY DEF OrderIsAllowed
  <2>1. case \in Cases /\ acct \in Accounts /\ opened = ClientVolume(case, acct) /\ opened.volume \in Nat
    BY UnsizedIsEmpty DEF HInv, TypeOK
  <2>2. /\ case.master > 0 /\ case.step > 0 /\ case.min > 0 /\ opened.volume = Sized(case)
        /\ LimitHit(Sized(case), acct) = "none"
    BY <2>1, Answered
  <2>3. /\ opened.volume % case.step = 0 /\ opened.volume \in case.min .. case.max
    BY <2>1, <2>2, SizedBounds DEF SoundSpec
  <2>4. case.min \in Nat /\ case.max \in Nat BY <2>1, CasesOK DEF CaseType
  <2>5. /\ ~Exceeds(opened.volume, acct.perOrder)
        /\ ~Exceeds(acct.total + opened.volume, acct.maxTotal)
        /\ ~Exceeds(acct.pairs + 1, acct.maxPairs)
    BY <2>2 DEF LimitHit
  <2>6. acct.total + opened.volume = opened.volume + acct.total
    <3>1. acct.total \in Nat BY <2>1, HedgeAssumption
    <3> QED BY <3>1, <2>1
  <2> QED BY <2>3, <2>4, <2>5, <2>6
<1> QED BY <1>1, HedgeInvariance, PTL

\* An open nothing was said about has the nominal volume rounded to a step, whatever
\* the roundings of the decimal arithmetic (D-18).
THEOREM NominalCorrect == Spec => []OpenIsNominal
<1>1. HInv => OpenIsNominal
  <2> DEFINE exact == 100 * Sizes(case)
             over == IF case.rounding = "NEAREST" THEN case.step * exact ELSE 0
             w == opened.volume
  <2> SUFFICES ASSUME HInv, w > 0, opened.alerts = {}
               PROVE  /\ 2 * w * exact <= 2 * Nominal(case) + over
                      /\ w * exact > Nominal(case) - 2 * case.step * exact
    BY DEF OpenIsNominal
  <2>1. case \in Cases /\ acct \in Accounts /\ opened = ClientVolume(case, acct) /\ w \in Nat
    BY UnsizedIsEmpty DEF HInv, TypeOK
  <2>2. /\ case.master > 0 /\ case.step > 0 /\ case.min > 0 /\ w = Sized(case)
        /\ Notes(case) = {}
        /\ BelowMin(case) => case.belowMin = "USE_MIN"
    BY <2>1, Answered
  <2>3. ~BelowMin(case) /\ ~(Rounded(case) > case.max)
    <3>1. "INFO" \notin Notes(case) /\ "WARNING" \notin Notes(case) BY <2>2
    <3> QED BY <2>2, <3>1 DEF Notes
  <2>4. w = Rounded(case) BY <2>2, <2>3 DEF Sized, Normalised
  <2>5. Rounds(w, case.step, Nominal(case), exact, case.rounding)
    BY <2>1, <2>2, <2>4, RoundedBounds DEF Fair
  <2>6. Nominal(case) \in Nat /\ case.step \in Nat /\ case.clientSize \in Nat BY <2>1, CasesOK DEF CaseType
  <2>7. exact \in Nat BY <2>6 DEF Sizes
  <2> HIDE DEF exact
  <2>8. w * exact \in Nat /\ case.step * exact \in Nat BY <2>1, <2>6, <2>7
  <2>9. 2 * w * exact = 2 * (w * exact) /\ 2 * case.step * exact = 2 * (case.step * exact)
    BY <2>1, <2>6, <2>7
  <2> HIDE DEF w
  <2>10. /\ case.rounding # "NEAREST" => w * exact <= Nominal(case)
         /\ 2 * (w * exact) <= 2 * Nominal(case) + case.step * exact
         /\ Nominal(case) < w * exact + 2 * (case.step * exact)
    BY <2>5 DEF Rounds
  <2>11. CASE case.rounding = "NEAREST" BY <2>6, <2>8, <2>9, <2>10, <2>11
  <2>12. CASE case.rounding # "NEAREST" BY <2>6, <2>8, <2>9, <2>10, <2>12
  <2> QED BY <2>11, <2>12
<1> QED BY <1>1, HedgeInvariance, PTL

\* Whatever parts the Master closes and the Client misses, by whichever channel they go
\* and however much of them the broker fills, the Client is never left smaller in
\* proportion than the Master, as long as each share was taken while no close of a
\* clicker was still to be heard of and no part unanswered (closing.py:301-304).
THEOREM NotOverClosedCorrect == Spec => []NeverOverClosed
<1>1. HInv => NeverOverClosed
  <2> SUFFICES ASSUME HInv, ~blind PROVE opened.volume * mlots <= held * case.master
    BY HTypes DEF NeverOverClosed
  <2>1. order.lots <= held /\ opened.volume * mlots <= (held - order.lots) * case.master
    BY DEF HInv, Kept
  <2>2. /\ {held, order.lots, case.master} \subseteq Nat /\ held - order.lots \in Nat
        /\ held - order.lots <= held /\ opened.volume * mlots \in Nat
    BY <2>1, HTypes
  <2>3. case.master * (held - order.lots) <= case.master * held BY <2>2, Scale
  <2>4. /\ case.master * (held - order.lots) = (held - order.lots) * case.master
        /\ case.master * held = held * case.master
        /\ {case.master * (held - order.lots), case.master * held} \subseteq Int
    BY <2>2
  <2> QED BY <2>1, <2>2, <2>3, <2>4
<1> QED BY <1>1, HedgeInvariance, PTL

=============================================================================
