--------------------------- MODULE DecimalProofs ---------------------------
(***************************************************************************)
(* Decimals of any number of limbs of one to four digits, and any range of *)
(* exponents.  Sums and differences are as precise as a mantissa allows;   *)
(* products that fit into one are exact; quotients by a divisor of one     *)
(* limb are the exact ones, cut off behind a full mantissa; and all these  *)
(* count the digits they have, so that they can be operands again.         *)
(*                                                                         *)
(* The argument is about what mantissas are worth: Value.  Adding and      *)
(* subtracting limbs with carries adds and subtracts values, shifts        *)
(* multiply and divide them by powers of ten, a row of a product adds a    *)
(* multiple, and a limb of a quotient leaves a rest.                       *)
(*                                                                         *)
(* The text of a number is the number, cut off where the format ends: read *)
(* a character at a time, the digits printed are the first k of the value, *)
(* and a value is its first k digits and a rest below the place of the     *)
(* last one.                                                               *)
(***************************************************************************)
EXTENDS StropDecimal, SequenceLemmas, FiniteSetTheorems, TLAPS

----------------------------------------------------------------------------
(* Powers of ten, by induction over their exponents.                      *)
(* A set that holds 0 and with a number the next holds all of them.        *)
LEMMA Inductive ==
  ASSUME NEW N \in Nat, NEW S, 0 \in S, \A k \in 0 .. N - 1 : k \in S => k + 1 \in S
  PROVE  \A k \in 0 .. N : k \in S
<1> DEFINE T == {k \in 0 .. N : k \notin S}
<1> SUFFICES ASSUME T # {} PROVE FALSE
  OBVIOUS
<1>1. T \in SUBSET Nat
  OBVIOUS
<1> HIDE DEF T
<1>2. PICK j \in T : \A i \in T : j <= i
  BY <1>1, LeastOne
<1>3. j \in 0 .. N /\ j \notin S
  BY <1>2 DEF T
<1>4. j - 1 \in 0 .. N - 1 /\ (j - 1) + 1 = j /\ j - 1 \in 0 .. N
  BY <1>3
<1>5. j - 1 \in T
  <2>1. j - 1 \notin S
    BY <1>3, <1>4
  <2> QED BY <1>4, <2>1 DEF T
<1>6. j <= j - 1
  BY <1>2, <1>5
<1> QED BY <1>3, <1>6

LEMMA InductiveNat ==
  ASSUME NEW S, 0 \in S, \A k \in Nat : k \in S => k + 1 \in S, NEW n \in Nat
  PROVE  n \in S
<1>1. \A k \in 0 .. n - 1 : k \in S => k + 1 \in S
  OBVIOUS
<1>2. \A k \in 0 .. n : k \in S
  BY <1>1, Inductive
<1> QED BY <1>2

LEMMA BaseIs ==
  /\ Log10 \in 1 .. 4 /\ Base \in Nat
  /\ \/ Log10 = 1 /\ Base = 10
     \/ Log10 = 2 /\ Base = 100
     \/ Log10 = 3 /\ Base = 1000
     \/ Log10 = 4 /\ Base = 10000
<1>1. Log10 \in 1 .. 4
  BY DecimalAssumption
<1>2. 10 ^ 1 = 10 /\ 10 ^ 2 = 100 /\ 10 ^ 3 = 1000 /\ 10 ^ 4 = 10000
  OBVIOUS
<1>3. PICK l \in 1 .. 4 : l = Log10
  BY <1>1
<1>4. Base = 10 ^ l
  BY <1>3 DEF Base
<1>5. CASE l = 1 BY <1>2, <1>3, <1>4, <1>5
<1>6. CASE l = 2 BY <1>2, <1>3, <1>4, <1>6
<1>7. CASE l = 3 BY <1>2, <1>3, <1>4, <1>7
<1>8. CASE l = 4 BY <1>2, <1>3, <1>4, <1>8
<1> QED BY <1>5, <1>6, <1>7, <1>8

----------------------------------------------------------------------------
(* Times ten to n.                                                         *)
LEMMA TensFirst ==
  ASSUME NEW v
  PROVE  Tens(v, 0) = v
  BY LinearFirst DEF Tens

LEMMA TensTimes ==
  ASSUME NEW v, NEW n \in Nat
  PROVE  Tens(v, n + 1) = 10 * Tens(v, n) + 0
<1> DEFINE s == [k \in 1 .. n |-> 0]
           t == [k \in 1 .. n + 1 |-> 0]
<1>1. AgreeTo(s, t, n) /\ t[n + 1] = 0
  BY DEF AgreeTo
<1>2. Tens(v, n) = Linear(v, 10, s, n) /\ Tens(v, n + 1) = Linear(v, 10, t, n + 1)
  BY DEF Tens
<1> HIDE DEF s, t
<1>3. PICK m \in Nat : m = n + 1
  OBVIOUS
<1>4. Linear(v, 10, t, m) = 10 * Linear(v, 10, s, n) + t[m]
  BY <1>1, <1>3, LinearNext
<1> QED BY <1>1, <1>2, <1>3, <1>4

LEMMA TensInt ==
  ASSUME NEW v \in Int, NEW n \in Nat
  PROVE  Tens(v, n) \in Int
<1> DEFINE S == {k \in Nat : Tens(v, k) \in Int}
<1>1. 0 \in S
  BY TensFirst
<1>2. ASSUME NEW k \in Nat, k \in S PROVE k + 1 \in S
  <2>1. PICK x \in Int : x = Tens(v, k)
    BY <1>2
  <2>2. Tens(v, k + 1) = 10 * x + 0
    BY <2>1, TensTimes
  <2> QED BY <2>2
<1> HIDE DEF S
<1>3. n \in S
  BY <1>1, <1>2, InductiveNat
<1> QED BY <1>3 DEF S

LEMMA TensNext ==
  ASSUME NEW v \in Int, NEW n \in Nat
  PROVE  Tens(v, n + 1) = 10 * Tens(v, n)
<1>1. PICK x \in Int : x = Tens(v, n)
  BY TensInt
<1> QED BY <1>1, TensTimes

LEMMA TensSum ==
  ASSUME NEW v \in Int, NEW w \in Int, NEW n \in Nat
  PROVE  Tens(v + w, n) = Tens(v, n) + Tens(w, n)
<1> DEFINE S == {k \in Nat : Tens(v + w, k) = Tens(v, k) + Tens(w, k)}
<1>1. 0 \in S
  BY TensFirst
<1>2. ASSUME NEW k \in Nat, k \in S PROVE k + 1 \in S
  <2>0. v + w \in Int
    OBVIOUS
  <2>1. PICK x \in Int, y \in Int, z \in Int : x = Tens(v, k) /\ y = Tens(w, k) /\ z = Tens(v + w, k)
    BY <2>0, TensInt
  <2>2. Tens(v, k + 1) = 10 * x /\ Tens(w, k + 1) = 10 * y /\ Tens(v + w, k + 1) = 10 * z
    BY <2>0, <2>1, TensNext
  <2>3. z = x + y
    BY <1>2, <2>1
  <2> QED BY <2>2, <2>3
<1> HIDE DEF S
<1>3. n \in S
  BY <1>1, <1>2, InductiveNat
<1> QED BY <1>3 DEF S

LEMMA TensZero ==
  ASSUME NEW n \in Nat
  PROVE  Tens(0, n) = 0
<1>1. PICK x \in Int : x = Tens(0, n)
  BY TensInt
<1>2. x = x + x
  BY <1>1, TensSum, 0 + 0 = 0
<1>3. x = 0
  BY <1>2
<1> QED BY <1>1, <1>3

LEMMA TensNegative ==
  ASSUME NEW v \in Int, NEW n \in Nat
  PROVE  Tens(-v, n) = -Tens(v, n)
<1>1. PICK w \in Int : w = -v
  OBVIOUS
<1>2. PICK x \in Int, y \in Int : x = Tens(v, n) /\ y = Tens(w, n)
  BY TensInt
<1>3. v + w = 0
  BY <1>1
<1>4. Tens(v + w, n) = x + y
  BY <1>2, TensSum
<1>5. x + y = 0
  BY <1>3, <1>4, TensZero
<1> QED BY <1>1, <1>2, <1>5

LEMMA TensPositive ==
  ASSUME NEW v \in Nat, v > 0, NEW n \in Nat
  PROVE  Tens(v, n) \in Nat /\ Tens(v, n) > 0
<1> DEFINE S == {k \in Nat : Tens(v, k) \in Nat /\ Tens(v, k) > 0}
<1>1. 0 \in S
  BY TensFirst
<1>2. ASSUME NEW k \in Nat, k \in S PROVE k + 1 \in S
  <2>1. PICK x \in Nat : x = Tens(v, k) /\ x > 0
    BY <1>2
  <2>2. Tens(v, k + 1) = 10 * x
    BY <2>1, TensNext
  <2> QED BY <2>1, <2>2
<1> HIDE DEF S
<1>3. n \in S
  BY <1>1, <1>2, InductiveNat
<1> QED BY <1>3 DEF S

LEMMA TensNat ==
  ASSUME NEW v \in Nat, NEW n \in Nat
  PROVE  Tens(v, n) \in Nat
<1>1. CASE v = 0 BY <1>1, TensZero
<1>2. CASE v # 0 BY <1>2, TensPositive
<1> QED BY <1>1, <1>2

LEMMA TensLess ==
  ASSUME NEW v \in Int, NEW w \in Int, v < w, NEW n \in Nat
  PROVE  Tens(v, n) < Tens(w, n)
<1>1. PICK d \in Nat : w = v + d /\ d > 0
  <2>1. w - v \in Nat /\ w = v + (w - v) /\ w - v > 0
    OBVIOUS
  <2> QED BY <2>1
<1>2. Tens(w, n) = Tens(v, n) + Tens(d, n)
  BY <1>1, TensSum
<1>3. Tens(d, n) \in Nat /\ Tens(d, n) > 0 /\ Tens(v, n) \in Int
  BY <1>1, TensPositive, TensInt
<1> QED BY <1>2, <1>3

LEMMA TensAtMost ==
  ASSUME NEW v \in Int, NEW w \in Int, v <= w, NEW n \in Nat
  PROVE  Tens(v, n) <= Tens(w, n)
<1>1. CASE v = w
  <2>1. Tens(v, n) \in Int
    BY TensInt
  <2> QED BY <1>1, <2>1
<1>2. CASE v < w
  <2>1. Tens(v, n) < Tens(w, n) /\ Tens(v, n) \in Int /\ Tens(w, n) \in Int
    BY <1>2, TensLess, TensInt
  <2> QED BY <2>1
<1> QED BY <1>1, <1>2

LEMMA TensTwice ==
  ASSUME NEW v \in Int, NEW k \in Nat, NEW n \in Nat
  PROVE  Tens(Tens(v, k), n) = Tens(v, k + n)
<1> DEFINE S == {j \in Nat : Tens(Tens(v, k), j) = Tens(v, k + j)}
<1>0. Tens(v, k) \in Int
  BY TensInt
<1>1. 0 \in S
  <2>1. Tens(Tens(v, k), 0) = Tens(v, k)
    BY TensFirst
  <2> QED BY <2>1
<1>2. ASSUME NEW j \in Nat, j \in S PROVE j + 1 \in S
  <2>1. PICK m \in Nat : m = k + j
    OBVIOUS
  <2>2. Tens(Tens(v, k), j + 1) = 10 * Tens(Tens(v, k), j)
    BY <1>0, TensNext
  <2>3. Tens(v, m + 1) = 10 * Tens(v, m)
    BY TensNext
  <2>4. m + 1 = k + (j + 1)
    BY <2>1
  <2>5. Tens(Tens(v, k), j) = Tens(v, m)
    BY <1>2, <2>1
  <2> QED BY <2>2, <2>3, <2>4, <2>5
<1> HIDE DEF S
<1>3. n \in S
  BY <1>1, <1>2, InductiveNat
<1> QED BY <1>3 DEF S

(* Times a limb's worth of tens.                                           *)
LEMMA TensFew ==
  ASSUME NEW v \in Int
  PROVE  /\ Tens(v, 0) = v /\ Tens(v, 1) = 10 * v /\ Tens(v, 2) = 100 * v
         /\ Tens(v, 3) = 1000 * v /\ Tens(v, 4) = 10000 * v
<1>0. Tens(v, 0) = v
  BY TensFirst
<1>1. Tens(v, 1) = 10 * v
  BY <1>0, TensNext, 0 + 1 = 1
<1>2. Tens(v, 2) = 100 * v
  BY <1>1, TensNext, 1 + 1 = 2
<1>3. Tens(v, 3) = 1000 * v
  BY <1>2, TensNext, 2 + 1 = 3
<1>4. Tens(v, 4) = 10000 * v
  BY <1>3, TensNext, 3 + 1 = 4
<1> QED BY <1>0, <1>1, <1>2, <1>3, <1>4

LEMMA TensLimb ==
  ASSUME NEW v \in Int, NEW n \in Nat
  PROVE  Tens(v, n + Log10) = Base * Tens(v, n)
<1>1. PICK x \in Int : x = Tens(v, n)
  BY TensInt
<1>2. Log10 \in Nat
  BY BaseIs
<1>3. Tens(v, n + Log10) = Tens(x, Log10)
  BY <1>1, <1>2, TensTwice
<1>4. Tens(x, Log10) = Base * x
  BY TensFew, BaseIs
<1> QED BY <1>1, <1>3, <1>4

(* Ten to n.                                                               *)
LEMMA TenIs ==
  ASSUME NEW n \in Nat
  PROVE  Ten(n) = Tens(1, n) /\ Ten(n) \in Nat /\ Ten(n) > 0
  BY TensPositive DEF Ten, Tens

LEMMA TenGrows ==
  ASSUME NEW k \in Nat, NEW n \in Nat, k <= n
  PROVE  Ten(k) <= Ten(n) /\ (k < n => 10 * Ten(k) <= Ten(n))
<1>1. PICK d \in Nat : n = k + d
  <2>1. n - k \in Nat /\ n = k + (n - k)
    OBVIOUS
  <2> QED BY <2>1
<1>2. Ten(n) = Tens(Ten(k), d) /\ Ten(k) \in Nat /\ Ten(k) > 0 /\ Ten(n) \in Nat
  <2>1. Tens(Tens(1, k), d) = Tens(1, n)
    BY <1>1, TensTwice
  <2> QED BY <2>1, TenIs
<1>3. PICK x \in Nat : x = Ten(k) /\ x > 0
  BY <1>2
<1>4. CASE d = 0
  BY <1>1, <1>2, <1>3, <1>4, TensFirst
<1>5. CASE d # 0
  <2>1. PICK e \in Nat : d = 1 + e
    <3>1. d - 1 \in Nat /\ d = 1 + (d - 1)
      BY <1>5
    <3> QED BY <3>1
  <2>2. Tens(x, 1) = 10 * x
    BY TensFew
  <2>3. Tens(Tens(x, 1), e) = Tens(x, d)
    BY <2>1, TensTwice
  <2>4. PICK y \in Nat : y = 10 * x
    OBVIOUS
  <2>5. Tens(y, e) >= y
    <3> DEFINE S == {j \in Nat : Tens(y, j) \in Nat /\ Tens(y, j) >= y}
    <3>1. 0 \in S
      BY TensFirst
    <3>2. ASSUME NEW j \in Nat, j \in S PROVE j + 1 \in S
      <4>1. PICK z \in Nat : z = Tens(y, j) /\ z >= y
        BY <3>2
      <4>2. Tens(y, j + 1) = 10 * z
        BY <4>1, TensNext
      <4> QED BY <4>1, <4>2
    <3> HIDE DEF S
    <3>3. e \in S
      BY <3>1, <3>2, InductiveNat
    <3> QED BY <3>3 DEF S
  <2>6. Ten(n) >= 10 * x
    BY <1>2, <1>3, <2>2, <2>3, <2>4, <2>5
  <2> QED BY <1>2, <1>3, <2>6
<1> QED BY <1>4, <1>5

----------------------------------------------------------------------------
(* A mantissa from its highest limb down, and what its limbs are worth.   *)
----------------------------------------------------------------------------
(* Step by step from first, by a function of each step.                    *)
Follows(x, first, F, N, S) ==
  x \in [0 .. N -> S] /\ x[0] = first /\ \A k \in 1 .. N : x[k] = F[k][x[k - 1]]
Steps(F, N, S) == \A k \in 1 .. N : F[k] \in [S -> S]
LEMMA CourseOfSteps ==
  ASSUME NEW N \in Nat, NEW S, NEW first \in S, NEW F, Steps(F, N, S)
  PROVE  \E x : Follows(x, first, F, N, S)
<1> DEFINE Goes(x, j) == x[0] = first /\ \A k \in 1 .. j : x[k] = F[k][x[k - 1]]
           T == {j \in 0 .. N : \E x \in [0 .. j -> S] : Goes(x, j)}
<1>1. 0 \in T
  <2>1. PICK x : x = [k \in 0 .. 0 |-> first]
    OBVIOUS
  <2>2. x \in [0 .. 0 -> S] /\ x[0] = first
    BY <2>1
  <2> QED BY <2>2
<1>2. ASSUME NEW j \in 0 .. N - 1, j \in T PROVE j + 1 \in T
  <2>1. PICK x \in [0 .. j -> S] : Goes(x, j)
    BY <1>2
  <2>2. PICK y : y = [k \in 0 .. j + 1 |-> IF k = j + 1 THEN F[j + 1][x[j]] ELSE x[k]]
    OBVIOUS
  <2>3. j \in 0 .. j /\ x[j] \in S /\ j + 1 \in 1 .. N /\ j + 1 \in 0 .. N
    OBVIOUS
  <2>4. F[j + 1] \in [S -> S]
    BY <2>3 DEF Steps
  <2>5. F[j + 1][x[j]] \in S
    BY <2>3, <2>4
  <2>6. y \in [0 .. j + 1 -> S]
    BY <2>2, <2>5
  <2>7. y[0] = first
    BY <2>1, <2>2
  <2>8. ASSUME NEW k \in 1 .. j + 1 PROVE y[k] = F[k][y[k - 1]]
    <3>1. CASE k = j + 1
      <4>1. k - 1 = j /\ k \in 0 .. j + 1 /\ j \in 0 .. j + 1 /\ j # j + 1
        BY <3>1
      <4>2. y[k] = F[j + 1][x[j]] /\ y[j] = x[j]
        BY <2>2, <3>1, <4>1
      <4> QED BY <3>1, <4>1, <4>2
    <3>2. CASE k # j + 1
      <4>1. k \in 1 .. j /\ k \in 0 .. j + 1 /\ k - 1 \in 0 .. j + 1 /\ k - 1 # j + 1
        BY <3>2
      <4>2. y[k] = x[k] /\ y[k - 1] = x[k - 1]
        BY <2>2, <3>2, <4>1
      <4> QED BY <2>1, <4>1, <4>2
    <3> QED BY <3>1, <3>2
  <2>9. Goes(y, j + 1)
    BY <2>7, <2>8
  <2> QED BY <2>3, <2>6, <2>9
<1> HIDE DEF T
<1>3. \A j \in 0 .. N : j \in T
  BY <1>1, <1>2, Inductive
<1>4. N \in T
  BY <1>3
<1> QED BY <1>4 DEF T, Follows

----------------------------------------------------------------------------
(* Limbs from the highest one down, and what the first of them are worth.  *)
Mantissas == [Limbs -> 0 .. Base - 1]
Down(m) == [j \in 1 .. Parts |-> m[Parts - j]]
Top(t, k) == Linear(0, Base, t, k)
IsLimbs(t, n) == \A j \in 1 .. n : t[j] \in 0 .. Base - 1

LEMMA PartsIs == Parts \in Nat /\ Parts > 0
  BY DecimalAssumption

LEMMA DownIs ==
  ASSUME NEW m \in Mantissas
  PROVE  IsLimbs(Down(m), Parts) /\ \A j \in 1 .. Parts : Down(m)[j] = m[Parts - j]
<1>1. \A j \in 1 .. Parts : Parts - j \in Limbs
  BY PartsIs DEF Limbs
<1>2. \A j \in 1 .. Parts : Down(m)[j] = m[Parts - j]
  BY DEF Down
<1>3. \A j \in 1 .. Parts : m[Parts - j] \in 0 .. Base - 1
  BY <1>1 DEF Mantissas
<1> QED BY <1>2, <1>3 DEF IsLimbs

LEMMA TopFirst ==
  ASSUME NEW t
  PROVE  Top(t, 0) = 0
  BY LinearFirst DEF Top

LEMMA TopNat ==
  ASSUME NEW n \in Nat, NEW t, IsLimbs(t, n), NEW k \in 0 .. n
  PROVE  Top(t, k) \in Nat
<1>1. Naturals(t, n)
  BY BaseIs DEF IsLimbs, Naturals
<1>2. 0 \in Nat /\ Base \in Nat
  BY BaseIs
<1>3. \A j \in 0 .. n : Linear(0, Base, t, j) \in Nat
  BY <1>1, <1>2, LinearIsNatural
<1> QED BY <1>3 DEF Top

LEMMA TopNext ==
  ASSUME NEW n \in Nat, NEW t, IsLimbs(t, n), NEW k \in 0 .. n - 1
  PROVE  /\ Top(t, k + 1) = Base * Top(t, k) + t[k + 1]
         /\ t[k + 1] \in 0 .. Base - 1 /\ Top(t, k) \in Nat /\ Top(t, k + 1) \in Nat
<1>1. AgreeTo(t, t, k)
  BY DEF AgreeTo
<1>2. PICK l \in Nat : l = k + 1
  OBVIOUS
<1>3. Linear(0, Base, t, l) = Base * Linear(0, Base, t, k) + t[l]
  BY <1>1, <1>2, LinearNext
<1>4. l \in 1 .. n /\ l \in 0 .. n /\ k \in 0 .. n
  BY <1>2
<1>5. t[l] \in 0 .. Base - 1
  BY <1>4 DEF IsLimbs
<1> QED BY <1>2, <1>3, <1>4, <1>5, TopNat DEF Top

LEMMA Places ==
  ASSUME NEW k \in Nat
  PROVE  k * Log10 \in Nat /\ (k + 1) * Log10 = k * Log10 + Log10 /\ 0 * Log10 = 0
<1>1. CASE Log10 = 1 BY <1>1
<1>2. CASE Log10 = 2 BY <1>2
<1>3. CASE Log10 = 3 BY <1>3
<1>4. CASE Log10 = 4 BY <1>4
<1> QED BY <1>1, <1>2, <1>3, <1>4, BaseIs

(* k limbs are below the base to k.                                        *)
LEMMA TopBelow ==
  ASSUME NEW n \in Nat, NEW t, IsLimbs(t, n), NEW k \in 0 .. n
  PROVE  Top(t, k) < Ten(k * Log10)
<1> DEFINE S == {j \in 0 .. n : Top(t, j) < Ten(j * Log10)}
<1>1. 0 \in S
  <2>1. Ten(0) = 1
    BY LinearFirst DEF Ten
  <2> QED BY <2>1, TopFirst, Places
<1>2. ASSUME NEW j \in 0 .. n - 1, j \in S PROVE j + 1 \in S
  <2>1. PICK x \in Nat, y \in 0 .. Base - 1 :
          x = Top(t, j) /\ y = t[j + 1] /\ Top(t, j + 1) = Base * x + y
    BY TopNext
  <2>2. PICK p \in Nat : p = j * Log10 /\ (j + 1) * Log10 = p + Log10
    BY Places
  <2>3. PICK v \in Nat : v = Ten(p) /\ Ten(p) = Tens(1, p)
    BY TenIs
  <2>4. p + Log10 \in Nat
    BY <2>2, BaseIs
  <2>5. Ten(p + Log10) = Base * v
    BY <2>3, <2>4, TenIs, TensLimb
  <2>6. x < v
    BY <1>2, <2>1, <2>2, <2>3
  <2>7. Base * x + y < Base * v
    <3>1. CASE Base = 10 BY <3>1, <2>6
    <3>2. CASE Base = 100 BY <3>2, <2>6
    <3>3. CASE Base = 1000 BY <3>3, <2>6
    <3>4. CASE Base = 10000 BY <3>4, <2>6
    <3> QED BY <3>1, <3>2, <3>3, <3>4, BaseIs
  <2>8. j + 1 \in 0 .. n
    OBVIOUS
  <2> QED BY <2>1, <2>2, <2>5, <2>7, <2>8
<1> HIDE DEF S
<1>3. \A j \in 0 .. n : j \in S
  BY <1>1, <1>2, Inductive
<1> QED BY <1>3 DEF S

(* What a mantissa is worth.                                               *)
Value(m) == Top(Down(m), Parts)

LEMMA WholeIsValue ==
  ASSUME NEW d
  PROVE  Whole(d) = Value(d.m)
  BY DEF Whole, Value, Top, Down

LEMMA PositionsIs == Positions \in Nat /\ Positions = Parts * Log10
  BY PartsIs, Places DEF Positions

LEMMA ValueBelow ==
  ASSUME NEW m \in Mantissas
  PROVE  Value(m) \in Nat /\ Value(m) < Ten(Positions)
  BY PartsIs, DownIs, TopNat, TopBelow, PositionsIs DEF Value

(* Limbs of which each is 0 are worth nothing.                             *)
LEMMA TopOfZeros ==
  ASSUME NEW n \in Nat, NEW t, NEW k \in 0 .. n, IsLimbs(t, n), \A j \in 1 .. k : t[j] = 0
  PROVE  Top(t, k) = 0
<1> DEFINE S == {j \in 0 .. k : Top(t, j) = 0}
<1>1. 0 \in S
  BY TopFirst
<1>2. ASSUME NEW j \in 0 .. k - 1, j \in S PROVE j + 1 \in S
  <2>1. j \in 0 .. n - 1 /\ j + 1 \in 1 .. k /\ j + 1 \in 0 .. k
    OBVIOUS
  <2>2. Top(t, j + 1) = Base * 0 + 0
    BY <1>2, <2>1, TopNext
  <2> QED BY <2>1, <2>2, BaseIs
<1> HIDE DEF S
<1>3. \A j \in 0 .. k : j \in S
  BY <1>1, <1>2, Inductive
<1> QED BY <1>3 DEF S

----------------------------------------------------------------------------
(* Digits of numbers and of limbs.                                        *)
----------------------------------------------------------------------------
(* Counting digits.                                                        *)
LEMMA TenFew == Ten(0) = 1 /\ Ten(1) = 10 /\ Ten(2) = 100 /\ Ten(3) = 1000 /\ Ten(4) = 10000
  BY TensFew, TenIs

LEMMA FirstNumbers ==
  ASSUME NEW n \in Nat
  PROVE  Cardinality(0 .. n - 1) = n
  BY FS_Interval

(* The number of digits of v.                                              *)
IsDigits(n, v) == n \in Nat /\ v < Ten(n) /\ (n > 0 => Ten(n - 1) <= v)

LEMMA DigitsOfIs ==
  ASSUME NEW v \in 0 .. Base - 1
  PROVE  DigitsOf(v) \in 0 .. Log10 /\ IsDigits(DigitsOf(v), v) /\ (v > 0 => DigitsOf(v) > 0)
<1>1. v \in Nat /\ v < 10000
  BY BaseIs
<1> DEFINE S == {k \in 0 .. 4 : v >= 10 ^ k}
<1>2. 10 ^ 0 = 1 /\ 10 ^ 1 = 10 /\ 10 ^ 2 = 100 /\ 10 ^ 3 = 1000 /\ 10 ^ 4 = 10000
  OBVIOUS
<1>3. ASSUME NEW k \in 0 .. 4 PROVE k \in S <=> (k = 0 /\ v >= 1) \/ (k = 1 /\ v >= 10)
                                             \/ (k = 2 /\ v >= 100) \/ (k = 3 /\ v >= 1000)
  <2>1. CASE k = 0 BY <1>1, <1>2, <2>1
  <2>2. CASE k = 1 BY <1>1, <1>2, <2>2
  <2>3. CASE k = 2 BY <1>1, <1>2, <2>3
  <2>4. CASE k = 3 BY <1>1, <1>2, <2>4
  <2>5. CASE k = 4 BY <1>1, <1>2, <2>5
  <2> QED BY <2>1, <2>2, <2>3, <2>4, <2>5
<1>4. DigitsOf(v) = Cardinality(S)
  BY DEF DigitsOf
<1>5. S \subseteq 0 .. 4
  OBVIOUS
<1> HIDE DEF S
<1>6. PICK n \in 0 .. 4 : /\ Cardinality(S) = n
                          /\ n = 0 => v = 0
                          /\ n = 1 => 1 <= v /\ v < 10
                          /\ n = 2 => 10 <= v /\ v < 100
                          /\ n = 3 => 100 <= v /\ v < 1000
                          /\ n = 4 => 1000 <= v /\ v < 10000
  <2>1. CASE v = 0
    <3>0. \A k \in 0 .. 4 : k \in S <=> k \in 0 .. 0 - 1
      BY <1>1, <1>3, <2>1
    <3>1. S = 0 .. 0 - 1
      <4>1. 0 .. 0 - 1 \subseteq 0 .. 4
        OBVIOUS
      <4> QED BY <1>5, <3>0, <4>1
    <3>2. Cardinality(S) = 0
      BY <3>1, FirstNumbers
    <3> QED BY <1>1, <2>1, <3>2
  <2>2. CASE 1 <= v /\ v < 10
    <3>0. \A k \in 0 .. 4 : k \in S <=> k \in 0 .. 1 - 1
      BY <1>1, <1>3, <2>2
    <3>1. S = 0 .. 1 - 1
      <4>1. 0 .. 1 - 1 \subseteq 0 .. 4
        OBVIOUS
      <4> QED BY <1>5, <3>0, <4>1
    <3>2. Cardinality(S) = 1
      BY <3>1, FirstNumbers
    <3> QED BY <1>1, <2>2, <3>2
  <2>3. CASE 10 <= v /\ v < 100
    <3>0. \A k \in 0 .. 4 : k \in S <=> k \in 0 .. 2 - 1
      BY <1>1, <1>3, <2>3
    <3>1. S = 0 .. 2 - 1
      <4>1. 0 .. 2 - 1 \subseteq 0 .. 4
        OBVIOUS
      <4> QED BY <1>5, <3>0, <4>1
    <3>2. Cardinality(S) = 2
      BY <3>1, FirstNumbers
    <3> QED BY <1>1, <2>3, <3>2
  <2>4. CASE 100 <= v /\ v < 1000
    <3>0. \A k \in 0 .. 4 : k \in S <=> k \in 0 .. 3 - 1
      BY <1>1, <1>3, <2>4
    <3>1. S = 0 .. 3 - 1
      <4>1. 0 .. 3 - 1 \subseteq 0 .. 4
        OBVIOUS
      <4> QED BY <1>5, <3>0, <4>1
    <3>2. Cardinality(S) = 3
      BY <3>1, FirstNumbers
    <3> QED BY <1>1, <2>4, <3>2
  <2>5. CASE 1000 <= v /\ v < 10000
    <3>0. \A k \in 0 .. 4 : k \in S <=> k \in 0 .. 4 - 1
      BY <1>1, <1>3, <2>5
    <3>1. S = 0 .. 4 - 1
      <4>1. 0 .. 4 - 1 \subseteq 0 .. 4
        OBVIOUS
      <4> QED BY <1>5, <3>0, <4>1
    <3>2. Cardinality(S) = 4
      BY <3>1, FirstNumbers
    <3> QED BY <1>1, <2>5, <3>2
  <2> QED BY <1>1, <2>1, <2>2, <2>3, <2>4, <2>5
<1>8. DigitsOf(v) = n
  BY <1>4, <1>6
<1>9. n \in 0 .. Log10
  BY <1>1, <1>6, BaseIs
<1>10. v < Ten(n)
  BY <1>1, <1>6, TenFew
<1>11. n > 0 => Ten(n - 1) <= v
  BY <1>1, <1>6, TenFew
<1> QED BY <1>1, <1>6, <1>8, <1>9, <1>10, <1>11 DEF IsDigits

LEMMA DigitsGrow ==
  ASSUME NEW v \in Nat, NEW w \in Nat, v <= w, NEW k, NEW n, IsDigits(k, v), IsDigits(n, w)
  PROVE  k <= n
<1> SUFFICES ASSUME n < k PROVE FALSE
  BY DEF IsDigits
<1>1. n \in Nat /\ k \in Nat /\ w < Ten(n) /\ k > 0 /\ Ten(k - 1) <= v
  BY DEF IsDigits
<1>2. k - 1 \in Nat /\ n <= k - 1
  BY <1>1
<1>3. Ten(n) <= Ten(k - 1) /\ Ten(n) \in Nat /\ Ten(k - 1) \in Nat
  BY <1>1, <1>2, TenGrows, TenIs
<1> QED BY <1>1, <1>3

LEMMA DigitsOnce ==
  ASSUME NEW v \in Nat, NEW k, NEW n, IsDigits(k, v), IsDigits(n, v)
  PROVE  k = n
<1>1. k <= n /\ n <= k
  BY DigitsGrow
<1> QED BY <1>1 DEF IsDigits

(* The highest limb that is not 0.                                         *)
Highest(m, i) == i \in Limbs /\ m[i] # 0 /\ \A k \in Limbs : k > i => m[k] = 0

LEMMA HighestIs ==
  ASSUME NEW m \in Mantissas
  PROVE  \/ (\A i \in Limbs : m[i] = 0) /\ decimal_num_digits(m) = 0
         \/ \E i \in Limbs : Highest(m, i) /\ decimal_num_digits(m) = i * Log10 + DigitsOf(m[i])
<1> DEFINE filled == {i \in Limbs : m[i] # 0}
<1>1. decimal_num_digits(m) = IF filled = {} THEN 0 ELSE Max(filled) * Log10 + DigitsOf(m[Max(filled)])
  BY DEF decimal_num_digits
<1>2. filled \in SUBSET Nat /\ \A k \in filled : k <= Parts
  BY PartsIs DEF Limbs
<1>3. CASE filled = {}
  BY <1>1, <1>3
<1>4. CASE filled # {}
  <2>1. \A i \in Limbs : i \in filled <=> m[i] # 0
    OBVIOUS
  <2>2. filled \subseteq Limbs
    OBVIOUS
  <2> HIDE DEF filled
  <2>3. Max(filled) \in filled /\ \A y \in filled : Max(filled) >= y
    <3>1. filled \in SUBSET (0 .. Parts) /\ Parts \in Nat
      BY <1>2, PartsIs
    <3> QED BY <1>4, <3>1, LargestOne
  <2>4. PICK x : x = Max(filled)
    OBVIOUS
  <2>5. Highest(m, x)
    <3>1. x \in Limbs /\ m[x] # 0
      BY <2>1, <2>2, <2>3, <2>4
    <3>2. ASSUME NEW k \in Limbs, k > x, m[k] # 0 PROVE FALSE
      <4>1. k \in filled
        BY <2>1, <3>2
      <4>2. k <= x /\ x \in Nat /\ k \in Nat
        BY <1>2, <2>3, <2>4, <4>1
      <4> QED BY <3>2, <4>2
    <3> QED BY <3>1, <3>2 DEF Highest
  <2> QED BY <1>1, <1>4, <2>2, <2>3, <2>4, <2>5
<1> QED BY <1>3, <1>4

----------------------------------------------------------------------------
(* The digits a mantissa counts are those of its value.                   *)
LEMMA LimbMore ==
  ASSUME NEW x \in Nat, NEW v \in Nat, NEW y \in 0 .. Base - 1
  PROVE  (x < v => Base * x + y < Base * v) /\ (v <= x => Base * v <= Base * x + y)
<1>1. ASSUME x < v PROVE Base * x + y < Base * v
  <2>1. CASE Base = 10 BY <1>1, <2>1
  <2>2. CASE Base = 100 BY <1>1, <2>2
  <2>3. CASE Base = 1000 BY <1>1, <2>3
  <2>4. CASE Base = 10000 BY <1>1, <2>4
  <2> QED BY <2>1, <2>2, <2>3, <2>4, BaseIs
<1>2. ASSUME v <= x PROVE Base * v <= Base * x + y
  <2>1. CASE Base = 10 BY <1>2, <2>1
  <2>2. CASE Base = 100 BY <1>2, <2>2
  <2>3. CASE Base = 1000 BY <1>2, <2>3
  <2>4. CASE Base = 10000 BY <1>2, <2>4
  <2> QED BY <2>1, <2>2, <2>3, <2>4, BaseIs
<1> QED BY <1>1, <1>2

(* With each limb behind them as many digits more.                         *)
LEMMA DigitsBehind ==
  ASSUME NEW n \in Nat, NEW t, IsLimbs(t, n), NEW k \in 0 .. n, NEW d \in Nat, d > 0,
         IsDigits(d, Top(t, k)), NEW i \in Nat, k + i = n
  PROVE  IsDigits(d + i * Log10, Top(t, n))
<1> DEFINE S == {j \in 0 .. i : IsDigits(d + j * Log10, Top(t, k + j))}
<1>1. 0 \in S
  BY Places
<1>2. ASSUME NEW j \in 0 .. i - 1, j \in S PROVE j + 1 \in S
  <2>0. PICK l \in 0 .. n - 1 : l = k + j /\ l + 1 = k + (j + 1)
    OBVIOUS
  <2>1. PICK x \in Nat, y \in 0 .. Base - 1 :
          x = Top(t, l) /\ Top(t, l + 1) = Base * x + y
    BY TopNext
  <2>2. PICK p \in Nat : p = d + j * Log10 /\ d + (j + 1) * Log10 = p + Log10 /\ p > 0
    BY Places, BaseIs
  <2>3. PICK q \in Nat : q = p - 1 /\ p = q + 1
    BY <2>2
  <2>4. x < Ten(p) /\ Ten(q) <= x
    BY <1>2, <2>0, <2>1, <2>2, <2>3 DEF IsDigits
  <2>5. PICK v \in Nat, w \in Nat : v = Ten(p) /\ w = Ten(q)
    BY TenIs
  <2>6. Ten(p + Log10) = Base * v /\ Ten(q + Log10) = Base * w
    BY <2>5, TenIs, TensLimb, BaseIs, SMTT(60)
  <2>7. x < v /\ w <= x
    BY <2>4, <2>5
  <2>8. Base * x + y < Base * v /\ Base * w <= Base * x + y
    BY <2>7, LimbMore
  <2>9. PICK r \in Nat, s \in Nat : r = p + Log10 /\ s = q + Log10 /\ r - 1 = s
    <3>1. p + Log10 \in Nat /\ q + Log10 \in Nat /\ (p + Log10) - 1 = q + Log10
      BY <2>3, BaseIs
    <3> QED BY <3>1
  <2>10. IsDigits(r, Base * x + y)
    BY <2>6, <2>8, <2>9 DEF IsDigits
  <2>11. j + 1 \in 0 .. i
    OBVIOUS
  <2> QED BY <2>0, <2>1, <2>2, <2>9, <2>10, <2>11
<1> HIDE DEF S
<1>3. \A j \in 0 .. i : j \in S
  BY <1>1, <1>2, Inductive
<1>4. i \in S
  BY <1>3
<1> QED BY <1>4 DEF S

(* The count of digits is that of the value.                               *)
LEMMA NumDigits ==
  ASSUME NEW m \in Mantissas
  PROVE  decimal_num_digits(m) \in 0 .. Positions /\ IsDigits(decimal_num_digits(m), Value(m))
<1> DEFINE t == Down(m)
<1>1. IsLimbs(t, Parts) /\ (\A j \in 1 .. Parts : t[j] = m[Parts - j]) /\ Value(m) = Top(t, Parts)
  BY DownIs DEF Value
<1> HIDE DEF t
<1>2. CASE (\A i \in Limbs : m[i] = 0) /\ decimal_num_digits(m) = 0
  <2>1. \A j \in 1 .. Parts : t[j] = 0
    <3>1. \A j \in 1 .. Parts : Parts - j \in Limbs
      BY PartsIs DEF Limbs
    <3> QED BY <1>1, <1>2, <3>1
  <2>2. Value(m) = 0
    BY <1>1, <2>1, PartsIs, TopOfZeros
  <2> QED BY <1>2, <2>2, TenFew, PositionsIs DEF IsDigits
<1>3. ASSUME NEW i \in Limbs, Highest(m, i),
             decimal_num_digits(m) = i * Log10 + DigitsOf(m[i])
      PROVE  decimal_num_digits(m) \in 0 .. Positions /\ IsDigits(decimal_num_digits(m), Value(m))
  <2>1. PICK k \in 0 .. Parts - 1 : k = Parts - i - 1 /\ k + 1 + i = Parts /\ k + 1 \in 0 .. Parts
                                    /\ k + 1 \in 1 .. Parts
    BY PartsIs DEF Limbs
  <2>2. i \in Nat /\ i < Parts
    BY PartsIs DEF Limbs
  <2>3. \A j \in 1 .. k : t[j] = 0
    <3>1. \A j \in 1 .. k : j \in 1 .. Parts /\ Parts - j \in Limbs /\ Parts - j > i
      BY <2>1, <2>2, PartsIs DEF Limbs
    <3> QED BY <1>1, <1>3, <3>1 DEF Highest
  <2>4. Top(t, k) = 0
    BY <1>1, <2>1, <2>3, PartsIs, TopOfZeros
  <2>5. PICK v \in 0 .. Base - 1 : v = m[i] /\ v # 0
    BY <1>3 DEF Mantissas, Highest
  <2>6. Top(t, k + 1) = v
    <3>1. Parts - (k + 1) = i
      BY <2>1, <2>2, PartsIs
    <3>2. t[k + 1] = v
      BY <1>1, <2>1, <2>5, <3>1
    <3>3. Top(t, k + 1) = Base * 0 + v
      BY <1>1, <2>1, <2>4, <3>2, PartsIs, TopNext
    <3>4. Base * 0 + v = v
      BY BaseIs
    <3> QED BY <3>3, <3>4
  <2>7. PICK d \in 0 .. Log10 : d = DigitsOf(v) /\ d > 0 /\ IsDigits(d, v)
    <3>1. v > 0
      BY <2>5, BaseIs
    <3> QED BY <3>1, DigitsOfIs
  <2>8. d \in Nat
    BY BaseIs
  <2>9. IsDigits(d + i * Log10, Top(t, Parts))
    BY <1>1, <2>1, <2>2, <2>6, <2>7, <2>8, PartsIs, DigitsBehind
  <2>10. d + i * Log10 = decimal_num_digits(m)
    BY <1>3, <2>2, <2>5, <2>7, <2>8, Places
  <2>11. d + i * Log10 \in 0 .. Positions
    <3>1. PICK l \in Nat : Parts = l + 1 /\ i <= l
      <4>1. Parts - 1 \in Nat /\ Parts = (Parts - 1) + 1 /\ i <= Parts - 1
        BY <2>2, PartsIs
      <4> QED BY <4>1
    <3>2. Parts * Log10 = l * Log10 + Log10 /\ i * Log10 \in Nat /\ l * Log10 \in Nat
      BY <2>2, <3>1, Places
    <3>3. i * Log10 <= l * Log10
      <4>1. CASE Log10 = 1 BY <4>1, <2>2, <3>1
      <4>2. CASE Log10 = 2 BY <4>2, <2>2, <3>1
      <4>3. CASE Log10 = 3 BY <4>3, <2>2, <3>1
      <4>4. CASE Log10 = 4 BY <4>4, <2>2, <3>1
      <4> QED BY <4>1, <4>2, <4>3, <4>4, BaseIs
    <3> QED BY <2>7, <2>8, <3>2, <3>3, PositionsIs, BaseIs
  <2> QED BY <1>1, <2>9, <2>10, <2>11
<1> QED BY <1>2, <1>3, HighestIs

LEMMA NumDigitsOfValue ==
  ASSUME NEW m \in Mantissas, NEW n, IsDigits(n, Value(m))
  PROVE  decimal_num_digits(m) = n
  BY NumDigits, ValueBelow, DigitsOnce

(* What is below ten to n has n digits at most.                            *)
LEMMA NumDigitsAtMost ==
  ASSUME NEW m \in Mantissas, NEW n \in Nat, Value(m) < Ten(n)
  PROVE  decimal_num_digits(m) <= n
<1>1. PICK k \in Nat : k = decimal_num_digits(m) /\ IsDigits(k, Value(m))
  BY NumDigits, PositionsIs
<1> SUFFICES ASSUME n < k PROVE FALSE
  BY <1>1
<1>2. k - 1 \in Nat /\ n <= k - 1 /\ k > 0
  OBVIOUS
<1>3. Ten(n) <= Ten(k - 1) /\ Ten(n) \in Nat /\ Ten(k - 1) \in Nat /\ Ten(k - 1) <= Value(m)
  BY <1>1, <1>2, TenGrows, TenIs DEF IsDigits
<1> QED BY <1>3, ValueBelow

LEMMA ValueAtMost ==
  ASSUME NEW m \in Mantissas, NEW n \in Nat, decimal_num_digits(m) <= n
  PROVE  Value(m) < Ten(n)
<1>1. PICK k \in Nat : k = decimal_num_digits(m) /\ IsDigits(k, Value(m))
  BY NumDigits, PositionsIs
<1>2. Ten(k) <= Ten(n) /\ Ten(n) \in Nat /\ Ten(k) \in Nat /\ Value(m) < Ten(k)
  BY <1>1, TenGrows, TenIs DEF IsDigits
<1> QED BY <1>2, ValueBelow

----------------------------------------------------------------------------
(* Addition of limbs with carries.                                        *)
----------------------------------------------------------------------------
(* Adding and subtracting limb by limb.                                    *)
LEMMA OneCarry ==
  ASSUME NEW v \in 0 .. 2 * Base - 1
  PROVE  /\ v \div Base \in {0, 1} /\ v % Base \in 0 .. Base - 1
         /\ v = Base * (v \div Base) + (v % Base)
<1>1. CASE Base = 10 BY <1>1
<1>2. CASE Base = 100 BY <1>2
<1>3. CASE Base = 1000 BY <1>3
<1>4. CASE Base = 10000 BY <1>4
<1> QED BY <1>1, <1>2, <1>3, <1>4, BaseIs

LEMMA OneBorrow ==
  ASSUME NEW v \in -Base .. Base - 1
  PROVE  /\ v % Base \in 0 .. Base - 1
         /\ v = (v % Base) - Base * (IF v < 0 THEN 1 ELSE 0)
<1>1. v \in Int /\ -Base <= v /\ v < Base
  BY BaseIs
<1>2. CASE v >= 0
  <2>1. v \in 0 .. 2 * Base - 1
    BY <1>1, <1>2, BaseIs
  <2>2. PICK q \in {0, 1}, r \in 0 .. Base - 1 : r = v % Base /\ v = Base * q + r
    BY <2>1, OneCarry
  <2>3. q = 0
    BY <1>1, <2>2, BaseIs
  <2>4. v = r
    BY <2>2, <2>3, BaseIs
  <2>5. v = r - Base * 0
    BY <1>1, <2>4, BaseIs
  <2> QED BY <1>1, <1>2, <2>2, <2>5
<1>3. CASE v < 0
  <2>1. v % Base = v + Base
    <3>1. CASE Base = 10 BY <1>1, <1>3, <3>1
    <3>2. CASE Base = 100 BY <1>1, <1>3, <3>2
    <3>3. CASE Base = 1000 BY <1>1, <1>3, <3>3
    <3>4. CASE Base = 10000 BY <1>1, <1>3, <3>4, SMTT(60)
    <3> QED BY <3>1, <3>2, <3>3, <3>4, BaseIs
  <2> QED BY <1>1, <1>3, <2>1, BaseIs
<1> QED BY <1>1, <1>2, <1>3

LEMMA LimbIs ==
  ASSUME NEW m \in Mantissas, NEW i \in Limbs
  PROVE  m[i] \in 0 .. Base - 1
  BY DEF Mantissas

(* The carries, with what they leave.                                      *)
SumCarry(a, b, c) ==
  c = [i \in 0 .. Parts |-> IF i = 0 THEN 0 ELSE (a[i - 1] + b[i - 1] + c[i - 1]) \div Base]
Carries(a, b, s, c) ==
  /\ c \in [0 .. Parts -> {0, 1}] /\ c[0] = 0
  /\ \A i \in Limbs : a[i] + b[i] + c[i] = s[i] + Base * c[i + 1]

LEMMA SumCarryExists ==
  ASSUME NEW a \in Mantissas, NEW b \in Mantissas
  PROVE  \E c : SumCarry(a, b, c)
<1> DEFINE F == [k \in 1 .. Parts |-> [v \in {0, 1} |-> (a[k - 1] + b[k - 1] + v) \div Base]]
<1>1. ASSUME NEW k \in 1 .. Parts, NEW v \in {0, 1}
      PROVE  (a[k - 1] + b[k - 1] + v) \div Base \in {0, 1}
  <2>1. k - 1 \in Limbs
    BY PartsIs DEF Limbs
  <2>2. PICK x \in 0 .. Base - 1, y \in 0 .. Base - 1 : x = a[k - 1] /\ y = b[k - 1]
    BY <2>1, LimbIs
  <2>3. x + y + v \in 0 .. 2 * Base - 1
    BY BaseIs
  <2> QED BY <2>2, <2>3, OneCarry
<1>2. Steps(F, Parts, {0, 1})
  BY <1>1 DEF Steps
<1>3. \A k \in 1 .. Parts, v \in {0, 1} : F[k][v] = (a[k - 1] + b[k - 1] + v) \div Base
  OBVIOUS
<1> HIDE DEF F
<1>4. PICK x : Follows(x, 0, F, Parts, {0, 1})
  BY <1>2, PartsIs, 0 \in {0, 1}, CourseOfSteps
<1>5. ASSUME NEW i \in 0 .. Parts
      PROVE  x[i] = IF i = 0 THEN 0 ELSE (a[i - 1] + b[i - 1] + x[i - 1]) \div Base
  <2>1. CASE i = 0 BY <1>4, <2>1 DEF Follows
  <2>2. CASE i # 0
    <3>1. i \in 1 .. Parts /\ i - 1 \in 0 .. Parts
      BY <2>2, PartsIs
    <3> QED BY <1>3, <1>4, <2>2, <3>1 DEF Follows
  <2> QED BY <2>1, <2>2
<1>6. x = [i \in 0 .. Parts |-> x[i]]
  BY <1>4 DEF Follows
<1>7. x = [i \in 0 .. Parts |-> IF i = 0 THEN 0 ELSE (a[i - 1] + b[i - 1] + x[i - 1]) \div Base]
  BY <1>5, <1>6
<1> QED BY <1>7 DEF SumCarry

LEMMA SumCarries ==
  ASSUME NEW a \in Mantissas, NEW b \in Mantissas
  PROVE  /\ decimal_abs_add(a, b).m \in Mantissas
         /\ \E c : Carries(a, b, decimal_abs_add(a, b).m, c) /\ decimal_abs_add(a, b).carry = c[Parts]
<1> DEFINE c == CHOOSE x : SumCarry(a, b, x)
           s == [i \in Limbs |-> (a[i] + b[i] + c[i]) % Base]
<1>1. SumCarry(a, b, c)
  BY SumCarryExists, Zenon
<1>2. decimal_abs_add(a, b) = [m |-> s, carry |-> c[Parts]]
  BY Zenon DEF decimal_abs_add, SumCarry
<1>3. \A i \in Limbs : s[i] = (a[i] + b[i] + c[i]) % Base
  OBVIOUS
<1>4. s = [i \in Limbs |-> s[i]]
  OBVIOUS
<1> HIDE DEF c, s
<1>5. c = [i \in 0 .. Parts |-> IF i = 0 THEN 0 ELSE (a[i - 1] + b[i - 1] + c[i - 1]) \div Base]
  BY <1>1 DEF SumCarry
<1>6. c[0] = 0
  BY <1>5, PartsIs
<1>7. ASSUME NEW i \in Limbs, c[i] \in {0, 1}
      PROVE  /\ c[i + 1] \in {0, 1} /\ s[i] \in 0 .. Base - 1
             /\ a[i] + b[i] + c[i] = s[i] + Base * c[i + 1]
  <2>1. i + 1 \in 0 .. Parts /\ i + 1 # 0 /\ (i + 1) - 1 = i
    BY PartsIs DEF Limbs
  <2>2. PICK x \in 0 .. Base - 1, y \in 0 .. Base - 1, z \in {0, 1} : x = a[i] /\ y = b[i] /\ z = c[i]
    BY <1>7, LimbIs
  <2>3. PICK v \in 0 .. 2 * Base - 1 : v = x + y + z
    <3>1. x + y + z \in 0 .. 2 * Base - 1
      BY BaseIs
    <3> QED BY <3>1
  <2>4. c[i + 1] = v \div Base
    BY <1>5, <2>1, <2>2, <2>3
  <2>5. s[i] = v % Base
    BY <1>3, <2>2, <2>3
  <2>6. PICK q \in {0, 1}, r \in 0 .. Base - 1 : q = v \div Base /\ r = v % Base /\ v = Base * q + r
    BY OneCarry
  <2>7. v = r + Base * q
    BY <2>6, BaseIs
  <2> QED BY <2>2, <2>3, <2>4, <2>5, <2>6, <2>7
<1>8. \A i \in 0 .. Parts : c[i] \in {0, 1}
  <2> DEFINE S == {i \in 0 .. Parts : c[i] \in {0, 1}}
  <2>1. 0 \in S
    BY <1>6, PartsIs
  <2>2. ASSUME NEW k \in 0 .. Parts - 1, k \in S PROVE k + 1 \in S
    <3>1. k \in Limbs /\ k + 1 \in 0 .. Parts
      BY PartsIs DEF Limbs
    <3> QED BY <1>7, <2>2, <3>1
  <2> HIDE DEF S
  <2>3. \A k \in 0 .. Parts : k \in S
    BY <2>1, <2>2, PartsIs, Inductive
  <2> QED BY <2>3 DEF S
<1>9. \A i \in Limbs : c[i] \in {0, 1}
  BY <1>8, PartsIs DEF Limbs
<1>10. s \in Mantissas
  BY <1>4, <1>7, <1>9 DEF Mantissas
<1>11. c \in [0 .. Parts -> {0, 1}]
  BY <1>5, <1>8
<1>12. Carries(a, b, s, c)
  BY <1>6, <1>7, <1>9, <1>11 DEF Carries
<1> QED BY <1>2, <1>10, <1>12

(* What the limbs are worth that are left when a carry is passed on.       *)
LEMMA CarriesPassed ==
  ASSUME NEW a \in Mantissas, NEW b \in Mantissas, NEW s \in Mantissas, NEW c, Carries(a, b, s, c)
  PROVE  Value(a) + Value(b) = Value(s) + Tens(c[Parts], Positions)
<1> DEFINE A(k) == Top(Down(a), k)
           B(k) == Top(Down(b), k)
           R(k) == Top(Down(s), k)
           S == {k \in 0 .. Parts : A(k) + B(k) + c[Parts - k] = R(k) + Tens(c[Parts], k * Log10)}
<1>1. 0 \in S
  <2>1. A(0) = 0 /\ B(0) = 0 /\ R(0) = 0
    BY TopFirst
  <2>2. Tens(c[Parts], 0) = c[Parts] /\ 0 * Log10 = 0 /\ Parts - 0 = Parts
    BY TensFirst, Places, PartsIs
  <2>3. c[Parts] \in {0, 1} /\ 0 \in 0 .. Parts
    BY PartsIs DEF Carries
  <2> QED BY <2>1, <2>2, <2>3
<1>2. ASSUME NEW k \in 0 .. Parts - 1, k \in S PROVE k + 1 \in S
  <2>1. PICK i \in Limbs : i = Parts - (k + 1) /\ i + 1 = Parts - k
    <3>1. Parts - (k + 1) \in Limbs /\ Parts - (k + 1) + 1 = Parts - k
      BY PartsIs DEF Limbs
    <3> QED BY <3>1
  <2>2. k + 1 \in 1 .. Parts /\ k + 1 \in 0 .. Parts /\ k \in Nat
    BY PartsIs
  <2>3. Down(a)[k + 1] = a[i] /\ Down(b)[k + 1] = b[i] /\ Down(s)[k + 1] = s[i]
    BY <2>1, <2>2, DownIs
  <2>4. PICK x \in 0 .. Base - 1, y \in 0 .. Base - 1, z \in 0 .. Base - 1 : x = a[i] /\ y = b[i] /\ z = s[i]
    BY LimbIs
  <2>5. PICK e \in {0, 1}, f \in {0, 1} : e = c[i] /\ f = c[i + 1]
    <3>1. i \in 0 .. Parts /\ i + 1 \in 0 .. Parts
      BY PartsIs DEF Limbs
    <3> QED BY <3>1 DEF Carries
  <2>6. x + y + e = z + Base * f
    BY <2>4, <2>5 DEF Carries
  <2>7. PICK p \in Nat, q \in Nat, r \in Nat : p = A(k) /\ q = B(k) /\ r = R(k)
    BY <2>2, PartsIs, DownIs, TopNat
  <2>8. A(k + 1) = Base * p + x /\ B(k + 1) = Base * q + y /\ R(k + 1) = Base * r + z
    BY <2>3, <2>4, <2>7, PartsIs, DownIs, TopNext
  <2>9. PICK j \in Nat : j = k * Log10 /\ (k + 1) * Log10 = j + Log10
    BY <2>2, Places
  <2>10. PICK g \in {0, 1} : g = c[Parts]
    BY PartsIs DEF Carries
  <2>11. PICK t \in Int : t = Tens(g, j)
    BY TensInt
  <2>12. Tens(g, j + Log10) = Base * t
    BY <2>11, TensLimb
  <2>13. p + q + f = r + t
    BY <1>2, <2>1, <2>5, <2>7, <2>9, <2>10, <2>11
  <2>14. (Base * p + x) + (Base * q + y) + e = (Base * r + z) + Base * t
    <3>1. CASE Base = 10 BY <3>1, <2>6, <2>13
    <3>2. CASE Base = 100 BY <3>2, <2>6, <2>13
    <3>3. CASE Base = 1000 BY <3>3, <2>6, <2>13
    <3>4. CASE Base = 10000 BY <3>4, <2>6, <2>13
    <3> QED BY <3>1, <3>2, <3>3, <3>4, BaseIs
  <2> QED BY <2>1, <2>2, <2>5, <2>8, <2>9, <2>10, <2>12, <2>14
<1>3. \A k \in 0 .. Parts : k \in S
  <2> HIDE DEF S
  <2> QED BY <1>1, <1>2, PartsIs, Inductive
<1>4. Parts \in S
  BY <1>3, PartsIs
<1>5. A(Parts) + B(Parts) + c[Parts - Parts] = R(Parts) + Tens(c[Parts], Parts * Log10)
  BY <1>4
<1>6. Parts - Parts = 0 /\ c[0] = 0
  BY PartsIs DEF Carries
<1>7. A(Parts) = Value(a) /\ B(Parts) = Value(b) /\ R(Parts) = Value(s)
  BY DEF Value
<1> HIDE DEF A, B, R, S
<1> QED BY <1>5, <1>6, <1>7, ValueBelow, PositionsIs

LEMMA SumValue ==
  ASSUME NEW a \in Mantissas, NEW b \in Mantissas
  PROVE  /\ decimal_abs_add(a, b).m \in Mantissas /\ decimal_abs_add(a, b).carry \in {0, 1}
         /\ Value(a) + Value(b) = Value(decimal_abs_add(a, b).m) + Tens(decimal_abs_add(a, b).carry, Positions)
<1>1. PICK c : Carries(a, b, decimal_abs_add(a, b).m, c) /\ decimal_abs_add(a, b).carry = c[Parts]
  BY SumCarries
<1>2. c[Parts] \in {0, 1}
  BY <1>1, PartsIs DEF Carries
<1> QED BY <1>1, <1>2, SumCarries, CarriesPassed

----------------------------------------------------------------------------
(* Subtraction with borrows, and comparison.                              *)
(* The borrows are the carries of adding back what was taken.              *)
Borrow(a, b, c) ==
  c = [i \in 0 .. Parts |-> IF i = 0 THEN 0 ELSE IF a[i - 1] < b[i - 1] + c[i - 1] THEN 1 ELSE 0]

LEMMA BorrowExists ==
  ASSUME NEW a \in Mantissas, NEW b \in Mantissas
  PROVE  \E c : Borrow(a, b, c)
<1> DEFINE F == [k \in 1 .. Parts |-> [v \in {0, 1} |-> IF a[k - 1] < b[k - 1] + v THEN 1 ELSE 0]]
<1>1. ASSUME NEW k \in 1 .. Parts, NEW v \in {0, 1}
      PROVE  (IF a[k - 1] < b[k - 1] + v THEN 1 ELSE 0) \in {0, 1}
  OBVIOUS
<1>2. Steps(F, Parts, {0, 1})
  BY <1>1 DEF Steps
<1>3. \A k \in 1 .. Parts, v \in {0, 1} : F[k][v] = IF a[k - 1] < b[k - 1] + v THEN 1 ELSE 0
  OBVIOUS
<1> HIDE DEF F
<1>4. PICK x : Follows(x, 0, F, Parts, {0, 1})
  BY <1>2, PartsIs, 0 \in {0, 1}, CourseOfSteps
<1>5. ASSUME NEW i \in 0 .. Parts
      PROVE  x[i] = IF i = 0 THEN 0 ELSE IF a[i - 1] < b[i - 1] + x[i - 1] THEN 1 ELSE 0
  <2>1. CASE i = 0 BY <1>4, <2>1 DEF Follows
  <2>2. CASE i # 0
    <3>1. i \in 1 .. Parts /\ i - 1 \in 0 .. Parts
      BY <2>2, PartsIs
    <3> QED BY <1>3, <1>4, <2>2, <3>1 DEF Follows
  <2> QED BY <2>1, <2>2
<1>6. x = [i \in 0 .. Parts |-> x[i]]
  BY <1>4 DEF Follows
<1>7. x = [i \in 0 .. Parts |-> IF i = 0 THEN 0 ELSE IF a[i - 1] < b[i - 1] + x[i - 1] THEN 1 ELSE 0]
  BY <1>5, <1>6
<1> QED BY <1>7 DEF Borrow

LEMMA DifferenceBorrows ==
  ASSUME NEW a \in Mantissas, NEW b \in Mantissas
  PROVE  decimal_abs_sub(a, b) \in Mantissas /\ \E c : Carries(b, decimal_abs_sub(a, b), a, c)
<1> DEFINE c == CHOOSE x : Borrow(a, b, x)
           s == [i \in Limbs |-> (a[i] - b[i] - c[i]) % Base]
<1>1. Borrow(a, b, c)
  BY BorrowExists, Zenon
<1>2. decimal_abs_sub(a, b) = s
  BY Zenon DEF decimal_abs_sub, Borrow
<1>3. \A i \in Limbs : s[i] = (a[i] - b[i] - c[i]) % Base
  OBVIOUS
<1>4. s = [i \in Limbs |-> s[i]]
  OBVIOUS
<1> HIDE DEF c, s
<1>5. c = [i \in 0 .. Parts |-> IF i = 0 THEN 0 ELSE IF a[i - 1] < b[i - 1] + c[i - 1] THEN 1 ELSE 0]
  BY <1>1 DEF Borrow
<1>6. c[0] = 0
  BY <1>5, PartsIs
<1>7. \A i \in 0 .. Parts : c[i] \in {0, 1}
  <2> TAKE i \in 0 .. Parts
  <2>1. c[i] = IF i = 0 THEN 0 ELSE IF a[i - 1] < b[i - 1] + c[i - 1] THEN 1 ELSE 0
    BY <1>5
  <2> QED BY <2>1
<1>8. ASSUME NEW i \in Limbs
      PROVE  s[i] \in 0 .. Base - 1 /\ b[i] + s[i] + c[i] = a[i] + Base * c[i + 1]
  <2>1. i + 1 \in 0 .. Parts /\ i + 1 # 0 /\ (i + 1) - 1 = i /\ i \in 0 .. Parts
    BY PartsIs DEF Limbs
  <2>2. PICK x \in 0 .. Base - 1, y \in 0 .. Base - 1, z \in {0, 1} : x = a[i] /\ y = b[i] /\ z = c[i]
    BY <1>7, <2>1, LimbIs
  <2>3. PICK v \in -Base .. Base - 1 : v = x - y - z
    <3>1. x - y - z \in -Base .. Base - 1
      BY BaseIs
    <3> QED BY <3>1
  <2>4. PICK w \in 0 .. Base - 1 : w = v % Base /\ v = w - Base * (IF v < 0 THEN 1 ELSE 0)
    BY OneBorrow
  <2>5. s[i] = w
    BY <1>3, <2>2, <2>3, <2>4
  <2>6. c[i + 1] = IF x < y + z THEN 1 ELSE 0
    BY <1>5, <2>1, <2>2
  <2>7. y + w + z = x + Base * (IF x < y + z THEN 1 ELSE 0)
    <3>1. CASE x < y + z
      <4>1. v < 0
        BY <2>3, <3>1, BaseIs
      <4>2. v = w - Base * 1
        BY <2>4, <4>1
      <4> QED BY <2>3, <3>1, <4>2, BaseIs
    <3>2. CASE ~ (x < y + z)
      <4>1. ~ (v < 0)
        BY <2>3, <3>2, BaseIs
      <4>2. v = w - Base * 0
        BY <2>4, <4>1
      <4> QED BY <2>3, <3>2, <4>2, BaseIs
    <3> QED BY <3>1, <3>2
  <2> QED BY <2>2, <2>5, <2>6, <2>7
<1>9. s \in Mantissas
  BY <1>4, <1>8 DEF Mantissas
<1>10. c \in [0 .. Parts -> {0, 1}]
  BY <1>5, <1>7
<1>11. Carries(b, s, a, c)
  BY <1>6, <1>8, <1>10 DEF Carries
<1> QED BY <1>2, <1>9, <1>11

LEMMA DifferenceValue ==
  ASSUME NEW a \in Mantissas, NEW b \in Mantissas, Value(b) <= Value(a)
  PROVE  /\ decimal_abs_sub(a, b) \in Mantissas
         /\ Value(decimal_abs_sub(a, b)) = Value(a) - Value(b)
<1> DEFINE s == decimal_abs_sub(a, b)
<1>1. PICK c : s \in Mantissas /\ Carries(b, s, a, c)
  BY DifferenceBorrows
<1> HIDE DEF s
<1>2. Value(b) + Value(s) = Value(a) + Tens(c[Parts], Positions)
  BY <1>1, CarriesPassed
<1>3. c[Parts] \in {0, 1}
  BY <1>1, PartsIs DEF Carries
<1>4. PICK x \in Nat, y \in Nat, z \in Nat : x = Value(a) /\ y = Value(b) /\ z = Value(s)
  BY <1>1, ValueBelow
<1>5. CASE c[Parts] = 1
  <2>1. Tens(1, Positions) = Ten(Positions) /\ Ten(Positions) \in Nat /\ z < Ten(Positions)
    BY <1>1, <1>4, PositionsIs, TenIs, ValueBelow
  <2>2. y + z = x + Ten(Positions)
    BY <1>2, <1>4, <1>5, <2>1
  <2> QED BY <1>4, <2>1, <2>2
<1>6. CASE c[Parts] = 0
  <2>1. Tens(0, Positions) = 0
    BY PositionsIs, TensZero
  <2>2. y + z = x + 0
    BY <1>2, <1>4, <1>6, <2>1
  <2>3. z = x - y
    BY <2>2
  <2> QED BY <1>1, <1>4, <2>3 DEF s
<1> QED BY <1>3, <1>5, <1>6

----------------------------------------------------------------------------
(* What is ahead in the higher limbs stays ahead.                          *)
LEMMA AheadStays ==
  ASSUME NEW n \in Nat, NEW s, NEW t, IsLimbs(s, n), IsLimbs(t, n), NEW k \in 0 .. n,
         Top(s, k) < Top(t, k)
  PROVE  Top(s, n) < Top(t, n)
<1> DEFINE S == {i \in 0 .. n - k : Top(s, k + i) < Top(t, k + i)}
<1>1. 0 \in S
  OBVIOUS
<1>2. ASSUME NEW i \in 0 .. (n - k) - 1, i \in S PROVE i + 1 \in S
  <2>1. PICK l \in 0 .. n - 1 : l = k + i /\ l + 1 = k + (i + 1)
    OBVIOUS
  <2>2. PICK v \in Nat, w \in Nat, x \in 0 .. Base - 1, y \in 0 .. Base - 1 :
           /\ v = Top(s, l) /\ w = Top(t, l)
           /\ Top(s, l + 1) = Base * v + x /\ Top(t, l + 1) = Base * w + y
    <3>1. PICK v \in Nat, x \in 0 .. Base - 1 : v = Top(s, l) /\ Top(s, l + 1) = Base * v + x
      BY TopNext
    <3>2. PICK w \in Nat, y \in 0 .. Base - 1 : w = Top(t, l) /\ Top(t, l + 1) = Base * w + y
      BY TopNext
    <3> QED BY <3>1, <3>2
  <2>3. v < w
    BY <1>2, <2>1, <2>2
  <2>4. Base * v + x < Base * w
    BY <2>3, LimbMore
  <2>5. Base * w \in Nat /\ Base * v + x \in Nat /\ y \in Nat
    BY BaseIs
  <2>6. i + 1 \in 0 .. n - k
    OBVIOUS
  <2> QED BY <2>1, <2>2, <2>4, <2>5, <2>6
<1> HIDE DEF S
<1>3. n - k \in Nat /\ n - k \in 0 .. n - k
  OBVIOUS
<1>4. \A i \in 0 .. n - k : i \in S
  BY <1>1, <1>2, <1>3, Inductive
<1>5. n - k \in S /\ k + (n - k) = n
  BY <1>3, <1>4
<1> QED BY <1>5 DEF S

LEMMA AgreeTops ==
  ASSUME NEW n \in Nat, NEW s, NEW t, \A j \in 1 .. n : s[j] = t[j]
  PROVE  Top(s, n) = Top(t, n)
<1>1. AgreeTo(s, t, n)
  BY DEF AgreeTo
<1> QED BY <1>1, LinearSame DEF Top

(* Mantissas compare as their values do.                                   *)
LEMMA FirstDifference ==
  ASSUME NEW a \in Mantissas, NEW b \in Mantissas, NEW i \in Limbs, a[i] < b[i],
         \A k \in Limbs : k > i => a[k] = b[k]
  PROVE  Value(a) < Value(b)
<1> DEFINE s == Down(a)
           t == Down(b)
<1>1. /\ IsLimbs(s, Parts) /\ IsLimbs(t, Parts)
      /\ \A j \in 1 .. Parts : s[j] = a[Parts - j] /\ t[j] = b[Parts - j]
      /\ Value(a) = Top(s, Parts) /\ Value(b) = Top(t, Parts)
  BY DownIs DEF Value
<1> HIDE DEF s, t
<1>2. PICK k \in 0 .. Parts - 1 : k = Parts - i - 1 /\ Parts - (k + 1) = i /\ k + 1 \in 1 .. Parts
                                  /\ k + 1 \in 0 .. Parts /\ k \in Nat
  BY PartsIs DEF Limbs
<1>3. \A j \in 1 .. k : s[j] = t[j]
  <2> TAKE j \in 1 .. k
  <2>1. j \in 1 .. Parts /\ Parts - j \in Limbs /\ Parts - j > i
    BY <1>2, PartsIs DEF Limbs
  <2> QED BY <1>1, <2>1
<1>4. PICK v \in Nat : v = Top(s, k) /\ v = Top(t, k)
  <2>1. Top(s, k) = Top(t, k)
    BY <1>2, <1>3, AgreeTops
  <2>2. Top(s, k) \in Nat
    BY <1>1, <1>2, PartsIs, TopNext
  <2> QED BY <2>1, <2>2
<1>5. PICK x \in 0 .. Base - 1, y \in 0 .. Base - 1 : x = s[k + 1] /\ y = t[k + 1] /\ x < y
  <2>1. s[k + 1] = a[i] /\ t[k + 1] = b[i]
    BY <1>1, <1>2
  <2> QED BY <2>1, LimbIs
<1>6. Top(s, k + 1) = Base * v + x /\ Top(t, k + 1) = Base * v + y
  BY <1>1, <1>2, <1>4, <1>5, PartsIs, TopNext
<1>7. Base * v \in Nat
  BY BaseIs
<1>8. Top(s, k + 1) < Top(t, k + 1)
  BY <1>5, <1>6, <1>7, BaseIs
<1> QED BY <1>1, <1>2, <1>8, PartsIs, AheadStays

LEMMA ComparesValues ==
  ASSUME NEW a \in Mantissas, NEW b \in Mantissas
  PROVE  /\ decimal_abs_cmp(a, b) \in Int
         /\ decimal_abs_cmp(a, b) = 0 => Value(a) = Value(b)
         /\ decimal_abs_cmp(a, b) < 0 => Value(a) < Value(b)
         /\ decimal_abs_cmp(a, b) > 0 => Value(b) < Value(a)
<1> DEFINE differ == {i \in Limbs : a[i] # b[i]}
<1>1. decimal_abs_cmp(a, b) = IF differ = {} THEN 0 ELSE a[Max(differ)] - b[Max(differ)]
  BY DEF decimal_abs_cmp
<1>2. \A i \in Limbs : i \in differ <=> a[i] # b[i]
  OBVIOUS
<1>3. differ \in SUBSET (0 .. Parts) /\ differ \subseteq Limbs
  BY PartsIs DEF Limbs
<1> HIDE DEF differ
<1>4. CASE differ = {}
  <2>1. a = b
    <3>1. \A i \in Limbs : a[i] = b[i]
      BY <1>2, <1>4
    <3> QED BY <3>1 DEF Mantissas
  <2> QED BY <1>1, <1>4, <2>1
<1>5. CASE differ # {}
  <2>1. PICK i \in Limbs : i = Max(differ) /\ i \in differ /\ \A k \in differ : i >= k
    BY <1>3, <1>5, PartsIs, LargestOne
  <2>2. PICK x \in 0 .. Base - 1, y \in 0 .. Base - 1 : x = a[i] /\ y = b[i] /\ x # y
    BY <1>2, <2>1, LimbIs
  <2>3. \A k \in Limbs : k > i => a[k] = b[k]
    BY <1>2, <2>1 DEF Limbs
  <2>4. decimal_abs_cmp(a, b) = x - y
    BY <1>1, <1>5, <2>1, <2>2
  <2>5. x < y => Value(a) < Value(b)
    BY <2>2, <2>3, FirstDifference
  <2>6. y < x => Value(b) < Value(a)
    BY <2>2, <2>3, FirstDifference
  <2> QED BY <2>2, <2>4, <2>5, <2>6, BaseIs
<1> QED BY <1>4, <1>5

----------------------------------------------------------------------------
(* Shifts: a limb is cut into two parts.                                  *)
----------------------------------------------------------------------------
(* Shifting: a limb is cut at a power of ten, s, and its other side has u. *)
Unit(s, u) ==
  \/ Base = 10 /\ s = 1 /\ u = 10
  \/ Base = 100 /\ s = 1 /\ u = 100
  \/ Base = 100 /\ s = 10 /\ u = 10
  \/ Base = 1000 /\ s = 1 /\ u = 1000
  \/ Base = 1000 /\ s = 10 /\ u = 100
  \/ Base = 1000 /\ s = 100 /\ u = 10
  \/ Base = 10000 /\ s = 1 /\ u = 10000
  \/ Base = 10000 /\ s = 10 /\ u = 1000
  \/ Base = 10000 /\ s = 100 /\ u = 100
  \/ Base = 10000 /\ s = 1000 /\ u = 10

LEMMA UnitIs ==
  ASSUME NEW r \in 0 .. Log10 - 1
  PROVE  /\ Unit(10 ^ r, Base \div 10 ^ r)
         /\ \A v \in Int : Tens(v, r) = (10 ^ r) * v
         /\ Ten(Log10 - r) = Base \div 10 ^ r
<1>1. 10 ^ 0 = 1 /\ 10 ^ 1 = 10 /\ 10 ^ 2 = 100 /\ 10 ^ 3 = 1000
  OBVIOUS
<1>2. r \in Nat
  BY BaseIs
<1>6. CASE Log10 = 1 /\ r = 0
  <2>1. 10 ^ r = 1 /\ 10 \div 1 = 10 /\ Base = 10
    BY <1>1, <1>2, <1>6, BaseIs
  <2>2. 1 - 0 = 1 /\ Log10 - r = 1
    BY <1>6
  <2>3. Unit(1, 10)
    BY <2>1 DEF Unit
  <2>4. /\ \A v \in Int : Tens(v, r) = 1 * v
        /\ Ten(Log10 - r) = 10
    BY <1>6, <2>2, TensFew, TenFew
  <2> QED BY <2>1, <2>3, <2>4
<1>7. CASE Log10 = 2 /\ r = 0
  <2>1. 10 ^ r = 1 /\ 100 \div 1 = 100 /\ Base = 100
    BY <1>1, <1>2, <1>7, BaseIs
  <2>2. 2 - 0 = 2 /\ Log10 - r = 2
    BY <1>7
  <2>3. Unit(1, 100)
    BY <2>1 DEF Unit
  <2>4. /\ \A v \in Int : Tens(v, r) = 1 * v
        /\ Ten(Log10 - r) = 100
    BY <1>7, <2>2, TensFew, TenFew
  <2> QED BY <2>1, <2>3, <2>4
<1>8. CASE Log10 = 2 /\ r = 1
  <2>1. 10 ^ r = 10 /\ 100 \div 10 = 10 /\ Base = 100
    BY <1>1, <1>2, <1>8, BaseIs
  <2>2. 2 - 1 = 1 /\ Log10 - r = 1
    BY <1>8
  <2>3. Unit(10, 10)
    BY <2>1 DEF Unit
  <2>4. /\ \A v \in Int : Tens(v, r) = 10 * v
        /\ Ten(Log10 - r) = 10
    BY <1>8, <2>2, TensFew, TenFew
  <2> QED BY <2>1, <2>3, <2>4
<1>9. CASE Log10 = 3 /\ r = 0
  <2>1. 10 ^ r = 1 /\ 1000 \div 1 = 1000 /\ Base = 1000
    BY <1>1, <1>2, <1>9, BaseIs
  <2>2. 3 - 0 = 3 /\ Log10 - r = 3
    BY <1>9
  <2>3. Unit(1, 1000)
    BY <2>1 DEF Unit
  <2>4. /\ \A v \in Int : Tens(v, r) = 1 * v
        /\ Ten(Log10 - r) = 1000
    BY <1>9, <2>2, TensFew, TenFew
  <2> QED BY <2>1, <2>3, <2>4
<1>10. CASE Log10 = 3 /\ r = 1
  <2>1. 10 ^ r = 10 /\ 1000 \div 10 = 100 /\ Base = 1000
    BY <1>1, <1>2, <1>10, BaseIs
  <2>2. 3 - 1 = 2 /\ Log10 - r = 2
    BY <1>10
  <2>3. Unit(10, 100)
    BY <2>1 DEF Unit
  <2>4. /\ \A v \in Int : Tens(v, r) = 10 * v
        /\ Ten(Log10 - r) = 100
    BY <1>10, <2>2, TensFew, TenFew
  <2> QED BY <2>1, <2>3, <2>4
<1>11. CASE Log10 = 3 /\ r = 2
  <2>1. 10 ^ r = 100 /\ 1000 \div 100 = 10 /\ Base = 1000
    BY <1>1, <1>2, <1>11, BaseIs
  <2>2. 3 - 2 = 1 /\ Log10 - r = 1
    BY <1>11
  <2>3. Unit(100, 10)
    BY <2>1 DEF Unit
  <2>4. /\ \A v \in Int : Tens(v, r) = 100 * v
        /\ Ten(Log10 - r) = 10
    BY <1>11, <2>2, TensFew, TenFew
  <2> QED BY <2>1, <2>3, <2>4
<1>12. CASE Log10 = 4 /\ r = 0
  <2>1. 10 ^ r = 1 /\ 10000 \div 1 = 10000 /\ Base = 10000
    BY <1>1, <1>2, <1>12, BaseIs
  <2>2. 4 - 0 = 4 /\ Log10 - r = 4
    BY <1>12
  <2>3. Unit(1, 10000)
    BY <2>1 DEF Unit
  <2>4. /\ \A v \in Int : Tens(v, r) = 1 * v
        /\ Ten(Log10 - r) = 10000
    BY <1>12, <2>2, TensFew, TenFew
  <2> QED BY <2>1, <2>3, <2>4
<1>13. CASE Log10 = 4 /\ r = 1
  <2>1. 10 ^ r = 10 /\ 10000 \div 10 = 1000 /\ Base = 10000
    BY <1>1, <1>2, <1>13, BaseIs
  <2>2. 4 - 1 = 3 /\ Log10 - r = 3
    BY <1>13
  <2>3. Unit(10, 1000)
    BY <2>1 DEF Unit
  <2>4. /\ \A v \in Int : Tens(v, r) = 10 * v
        /\ Ten(Log10 - r) = 1000
    BY <1>13, <2>2, TensFew, TenFew
  <2> QED BY <2>1, <2>3, <2>4
<1>14. CASE Log10 = 4 /\ r = 2
  <2>1. 10 ^ r = 100 /\ 10000 \div 100 = 100 /\ Base = 10000
    BY <1>1, <1>2, <1>14, BaseIs
  <2>2. 4 - 2 = 2 /\ Log10 - r = 2
    BY <1>14
  <2>3. Unit(100, 100)
    BY <2>1 DEF Unit
  <2>4. /\ \A v \in Int : Tens(v, r) = 100 * v
        /\ Ten(Log10 - r) = 100
    BY <1>14, <2>2, TensFew, TenFew
  <2> QED BY <2>1, <2>3, <2>4
<1>15. CASE Log10 = 4 /\ r = 3
  <2>1. 10 ^ r = 1000 /\ 10000 \div 1000 = 10 /\ Base = 10000
    BY <1>1, <1>2, <1>15, BaseIs
  <2>2. 4 - 3 = 1 /\ Log10 - r = 1
    BY <1>15
  <2>3. Unit(1000, 10)
    BY <2>1 DEF Unit
  <2>4. /\ \A v \in Int : Tens(v, r) = 1000 * v
        /\ Ten(Log10 - r) = 10
    BY <1>15, <2>2, TensFew, TenFew
  <2> QED BY <2>1, <2>3, <2>4
<1> QED BY <1>2, BaseIs, <1>6, <1>7, <1>8, <1>9, <1>10, <1>11, <1>12, <1>13, <1>14, <1>15

LEMMA UnitParts ==
  ASSUME NEW s, NEW u, Unit(s, u)
  PROVE  s \in Nat /\ u \in Nat /\ s > 0 /\ u > 0 /\ s <= Base /\ u <= Base
  BY DEF Unit

LEMMA LeftLimb ==
  ASSUME NEW s, NEW u, Unit(s, u), NEW x \in 0 .. Base - 1, NEW y \in 0 .. Base - 1
  PROVE  (x % u) * s + y \div u \in 0 .. Base - 1
<1>1. CASE Base = 10 /\ s = 1 /\ u = 10 BY <1>1
<1>2. CASE Base = 100 /\ s = 1 /\ u = 100 BY <1>2
<1>3. CASE Base = 100 /\ s = 10 /\ u = 10 BY <1>3
<1>4. CASE Base = 1000 /\ s = 1 /\ u = 1000 BY <1>4
<1>5. CASE Base = 1000 /\ s = 10 /\ u = 100 BY <1>5
<1>6. CASE Base = 1000 /\ s = 100 /\ u = 10 BY <1>6, SMTT(60)
<1>7. CASE Base = 10000 /\ s = 1 /\ u = 10000 BY <1>7, SMTT(60)
<1>8. CASE Base = 10000 /\ s = 10 /\ u = 1000 BY <1>8, SMTT(60)
<1>9. CASE Base = 10000 /\ s = 100 /\ u = 100 BY <1>9, SMTT(60)
<1>10. CASE Base = 10000 /\ s = 1000 /\ u = 10 BY <1>10, SMTT(60)
<1> QED BY <1>1, <1>2, <1>3, <1>4, <1>5, <1>6, <1>7, <1>8, <1>9, <1>10 DEF Unit

LEMMA LeftStep ==
  ASSUME NEW s, NEW u, Unit(s, u), NEW h \in Nat, NEW x \in 0 .. Base - 1
  PROVE  Base * (s * h + x \div u) + (x % u) * s = s * (Base * h + x)
<1>1. CASE Base = 10 /\ s = 1 /\ u = 10 BY <1>1
<1>2. CASE Base = 100 /\ s = 1 /\ u = 100 BY <1>2
<1>3. CASE Base = 100 /\ s = 10 /\ u = 10 BY <1>3
<1>4. CASE Base = 1000 /\ s = 1 /\ u = 1000 BY <1>4
<1>5. CASE Base = 1000 /\ s = 10 /\ u = 100 BY <1>5
<1>6. CASE Base = 1000 /\ s = 100 /\ u = 10 BY <1>6
<1>7. CASE Base = 10000 /\ s = 1 /\ u = 10000 BY <1>7
<1>8. CASE Base = 10000 /\ s = 10 /\ u = 1000 BY <1>8
<1>9. CASE Base = 10000 /\ s = 100 /\ u = 100 BY <1>9
<1>10. CASE Base = 10000 /\ s = 1000 /\ u = 10 BY <1>10
<1> QED BY <1>1, <1>2, <1>3, <1>4, <1>5, <1>6, <1>7, <1>8, <1>9, <1>10 DEF Unit

LEMMA RightLimb ==
  ASSUME NEW s, NEW u, Unit(s, u), NEW x \in 0 .. Base - 1, NEW y \in 0 .. Base - 1
  PROVE  (x % s) * u + y \div s \in 0 .. Base - 1
<1>1. CASE Base = 10 /\ s = 1 /\ u = 10 BY <1>1
<1>2. CASE Base = 100 /\ s = 1 /\ u = 100 BY <1>2
<1>3. CASE Base = 100 /\ s = 10 /\ u = 10 BY <1>3
<1>4. CASE Base = 1000 /\ s = 1 /\ u = 1000 BY <1>4
<1>5. CASE Base = 1000 /\ s = 10 /\ u = 100 BY <1>5
<1>6. CASE Base = 1000 /\ s = 100 /\ u = 10 BY <1>6, SMTT(60)
<1>7. CASE Base = 10000 /\ s = 1 /\ u = 10000 BY <1>7
<1>8. CASE Base = 10000 /\ s = 10 /\ u = 1000 BY <1>8, SMTT(60)
<1>9. CASE Base = 10000 /\ s = 100 /\ u = 100 BY <1>9, SMTT(60)
<1>10. CASE Base = 10000 /\ s = 1000 /\ u = 10 BY <1>10, SMTT(60)
<1> QED BY <1>1, <1>2, <1>3, <1>4, <1>5, <1>6, <1>7, <1>8, <1>9, <1>10 DEF Unit

LEMMA RightStep ==
  ASSUME NEW s, NEW u, Unit(s, u), NEW h \in Nat, NEW x \in 0 .. Base - 1, NEW y \in 0 .. Base - 1,
         h % s = x % s
  PROVE  /\ Base * (h \div s) + (x % s) * u + y \div s = (Base * h + y) \div s
         /\ (Base * h + y) % s = y % s
<1>1. CASE Base = 10 /\ s = 1 /\ u = 10 BY <1>1
<1>2. CASE Base = 100 /\ s = 1 /\ u = 100 BY <1>2
<1>3. CASE Base = 100 /\ s = 10 /\ u = 10 BY <1>3
<1>4. CASE Base = 1000 /\ s = 1 /\ u = 1000 BY <1>4
<1>5. CASE Base = 1000 /\ s = 10 /\ u = 100 BY <1>5
<1>6. CASE Base = 1000 /\ s = 100 /\ u = 10 BY <1>6
<1>7. CASE Base = 10000 /\ s = 1 /\ u = 10000 BY <1>7
<1>8. CASE Base = 10000 /\ s = 10 /\ u = 1000 BY <1>8
<1>9. CASE Base = 10000 /\ s = 100 /\ u = 100 BY <1>9
<1>10. CASE Base = 10000 /\ s = 1000 /\ u = 10 BY <1>10
<1> QED BY <1>1, <1>2, <1>3, <1>4, <1>5, <1>6, <1>7, <1>8, <1>9, <1>10 DEF Unit

----------------------------------------------------------------------------
(* Shifts by limbs.                                                       *)
(* With i limbs behind them the first ones are worth as many places more.  *)
LEMMA TopRest ==
  ASSUME NEW n \in Nat, NEW t, IsLimbs(t, n), NEW k \in 0 .. n, NEW i \in Nat, k + i = n
  PROVE  /\ Tens(Top(t, k), i * Log10) <= Top(t, n)
         /\ Top(t, n) < Tens(Top(t, k) + 1, i * Log10)
<1>0. PICK a \in Nat, b \in Nat : a = Top(t, k) /\ b = Top(t, k) + 1
  <2>1. Top(t, k) \in Nat
    BY TopNat
  <2> QED BY <2>1
<1> DEFINE S == {j \in 0 .. i : /\ Tens(a, j * Log10) <= Top(t, k + j)
                                /\ Top(t, k + j) < Tens(b, j * Log10)}
<1>1. 0 \in S
  <2>1. Tens(a, 0) = a /\ Tens(b, 0) = b /\ 0 * Log10 = 0
    BY TensFirst, Places
  <2> QED BY <1>0, <2>1
<1>2. ASSUME NEW j \in 0 .. i - 1, j \in S PROVE j + 1 \in S
  <2>0. PICK l \in 0 .. n - 1 : l = k + j /\ l + 1 = k + (j + 1)
    OBVIOUS
  <2>1. PICK x \in Nat, y \in 0 .. Base - 1 : x = Top(t, l) /\ Top(t, l + 1) = Base * x + y
    BY TopNext
  <2>2. PICK p \in Nat : p = j * Log10 /\ (j + 1) * Log10 = p + Log10
    BY Places
  <2>3. PICK v \in Nat, w \in Nat : v = Tens(a, p) /\ w = Tens(b, p)
    BY TensNat
  <2>4. Tens(a, p + Log10) = Base * v /\ Tens(b, p + Log10) = Base * w
    BY <2>3, TensLimb
  <2>5. v <= x /\ x < w
    BY <1>2, <2>0, <2>1, <2>2, <2>3
  <2>6. Base * v <= Base * x + y /\ Base * x + y < Base * w
    BY <2>5, LimbMore
  <2>7. j + 1 \in 0 .. i
    OBVIOUS
  <2> QED BY <2>0, <2>1, <2>2, <2>4, <2>6, <2>7
<1> HIDE DEF S
<1>3. \A j \in 0 .. i : j \in S
  BY <1>1, <1>2, Inductive
<1>4. i \in S
  BY <1>3
<1> QED BY <1>0, <1>4 DEF S

(* Limbs of 0 behind them.                                                 *)
LEMMA ZerosBehindLimbs ==
  ASSUME NEW n \in Nat, NEW t, IsLimbs(t, n), NEW k \in 0 .. n, NEW i \in Nat, k + i = n,
         \A j \in k + 1 .. n : t[j] = 0
  PROVE  Top(t, n) = Tens(Top(t, k), i * Log10)
<1>0. PICK a \in Nat : a = Top(t, k)
  BY TopNat
<1> DEFINE S == {j \in 0 .. i : Top(t, k + j) = Tens(a, j * Log10)}
<1>1. 0 \in S
  <2>1. Tens(a, 0) = a /\ 0 * Log10 = 0
    BY TensFirst, Places
  <2> QED BY <1>0, <2>1
<1>2. ASSUME NEW j \in 0 .. i - 1, j \in S PROVE j + 1 \in S
  <2>0. PICK l \in 0 .. n - 1 : l = k + j /\ l + 1 = k + (j + 1) /\ l + 1 \in k + 1 .. n
    OBVIOUS
  <2>1. PICK x \in Nat : x = Top(t, l) /\ Top(t, l + 1) = Base * x + t[l + 1]
    BY TopNext
  <2>2. t[l + 1] = 0
    BY <2>0
  <2>3. PICK p \in Nat : p = j * Log10 /\ (j + 1) * Log10 = p + Log10
    BY Places
  <2>4. Tens(a, p + Log10) = Base * Tens(a, p)
    BY TensLimb
  <2>5. x = Tens(a, p)
    BY <1>2, <2>0, <2>1, <2>3
  <2>6. Top(t, l + 1) = Base * x
    BY <2>1, <2>2, BaseIs
  <2>7. j + 1 \in 0 .. i
    OBVIOUS
  <2> QED BY <2>0, <2>3, <2>4, <2>5, <2>6, <2>7
<1> HIDE DEF S
<1>3. \A j \in 0 .. i : j \in S
  BY <1>1, <1>2, Inductive
<1>4. i \in S
  BY <1>3
<1> QED BY <1>0, <1>4 DEF S

(* Limbs of 0 in front of them.                                            *)
LEMMA ZerosBefore ==
  ASSUME NEW n \in Nat, NEW s, NEW t, IsLimbs(s, n), IsLimbs(t, n), NEW k \in 0 .. n,
         \A j \in 1 .. k : t[j] = 0, \A j \in k + 1 .. n : t[j] = s[j - k]
  PROVE  Top(t, n) = Top(s, n - k)
<1> DEFINE S == {i \in 0 .. n - k : Top(t, k + i) = Top(s, i)}
<1>1. 0 \in S
  <2>1. Top(t, k) = 0
    BY TopOfZeros
  <2> QED BY <2>1, TopFirst
<1>2. ASSUME NEW i \in 0 .. (n - k) - 1, i \in S PROVE i + 1 \in S
  <2>0. PICK l \in 0 .. n - 1 : l = k + i /\ l + 1 = k + (i + 1) /\ l + 1 \in k + 1 .. n
                                /\ (l + 1) - k = i + 1 /\ i \in 0 .. n - 1
    OBVIOUS
  <2>1. Top(t, l + 1) = Base * Top(t, l) + t[l + 1]
    BY TopNext
  <2>2. Top(s, i + 1) = Base * Top(s, i) + s[i + 1]
    BY <2>0, TopNext
  <2>3. t[l + 1] = s[i + 1]
    BY <2>0
  <2>4. Top(t, l) = Top(s, i)
    BY <1>2, <2>0
  <2>5. i + 1 \in 0 .. n - k
    OBVIOUS
  <2> QED BY <2>0, <2>1, <2>2, <2>3, <2>4, <2>5
<1> HIDE DEF S
<1>3. n - k \in Nat /\ n - k \in 0 .. n - k
  OBVIOUS
<1>4. \A i \in 0 .. n - k : i \in S
  BY <1>1, <1>2, <1>3, Inductive
<1>5. n - k \in S /\ k + (n - k) = n
  BY <1>3, <1>4
<1> QED BY <1>5 DEF S

----------------------------------------------------------------------------
(* A number of digits is a number of limbs and one below Log10.            *)
LEMMA Shifted ==
  ASSUME NEW n \in 0 .. Positions
  PROVE  /\ n % Log10 \in 0 .. Log10 - 1 /\ n \div Log10 \in 0 .. Parts
         /\ n = (n \div Log10) * Log10 + (n % Log10)
         /\ n \div Log10 = Parts => n % Log10 = 0
<1>1. n \in Nat /\ n <= Parts * Log10 /\ Parts \in Nat
  BY PositionsIs, PartsIs
<1>2. CASE Log10 = 1 BY <1>1, <1>2
<1>3. CASE Log10 = 2 BY <1>1, <1>3
<1>4. CASE Log10 = 3 BY <1>1, <1>4
<1>5. CASE Log10 = 4 BY <1>1, <1>5
<1> QED BY <1>2, <1>3, <1>4, <1>5, BaseIs

(* The limbs of m from k limbs further up, or further down.                *)
LEMMA LimbOf ==
  ASSUME NEW m \in Mantissas, NEW i \in Int
  PROVE  Limb(m, i) \in 0 .. Base - 1 /\ (i \in Limbs => Limb(m, i) = m[i])
         /\ (i \notin Limbs => Limb(m, i) = 0)
<1>1. i \in Limbs => m[i] \in 0 .. Base - 1
  BY LimbIs
<1> QED BY <1>1, BaseIs DEF Limb

(* A mantissa has its highest limb below what a shift to the left needs.   *)
LEMMA RoomAbove ==
  ASSUME NEW m \in Mantissas, NEW k \in 0 .. Parts, NEW r \in 0 .. Log10 - 1,
         decimal_num_digits(m) + k * Log10 + r <= Positions
  PROVE  \A i \in Limbs : /\ i >= Parts - k => m[i] = 0
                          /\ i = Parts - k - 1 => m[i] < Ten(Log10 - r)
<1>1. CASE (\A i \in Limbs : m[i] = 0) /\ decimal_num_digits(m) = 0
  <2>1. Log10 - r \in Nat
    BY BaseIs
  <2>2. 0 < Ten(Log10 - r)
    BY <2>1, TenIs
  <2> QED BY <1>1, <2>2
<1>2. ASSUME NEW h \in Limbs, Highest(m, h), decimal_num_digits(m) = h * Log10 + DigitsOf(m[h]),
             NEW i \in Limbs
      PROVE  (i >= Parts - k => m[i] = 0) /\ (i = Parts - k - 1 => m[i] < Ten(Log10 - r))
  <2>1. PICK v \in 0 .. Base - 1 : v = m[h] /\ v # 0
    BY <1>2, LimbIs DEF Highest
  <2>2. PICK d \in Nat : d = DigitsOf(v) /\ d > 0 /\ d <= Log10 /\ v < Ten(d)
    BY <2>1, DigitsOfIs, BaseIs DEF IsDigits
  <2>3. h * Log10 + d + k * Log10 + r <= Parts * Log10
    BY <1>2, <2>1, <2>2, PositionsIs
  <2>4. h \in Nat /\ i \in Nat /\ i < Parts /\ h < Parts /\ r \in Nat
    BY PartsIs, BaseIs DEF Limbs
  <2>5. h <= Parts - k - 1 /\ (h = Parts - k - 1 => d <= Log10 - r)
    <3>1. CASE Log10 = 1 BY <3>1, <2>2, <2>3, <2>4, PartsIs
    <3>2. CASE Log10 = 2 BY <3>2, <2>2, <2>3, <2>4, PartsIs
    <3>3. CASE Log10 = 3 BY <3>3, <2>2, <2>3, <2>4, PartsIs
    <3>4. CASE Log10 = 4 BY <3>4, <2>2, <2>3, <2>4, PartsIs
    <3> QED BY <3>1, <3>2, <3>3, <3>4, BaseIs
  <2>6. i > h => m[i] = 0
    BY <1>2, <2>4 DEF Highest
  <2>7. i >= Parts - k => i > h
    BY <2>4, <2>5, PartsIs
  <2>8. ASSUME i = Parts - k - 1 PROVE m[i] < Ten(Log10 - r)
    <3>1. PICK e \in Nat : e = Log10 - r
      <4>1. Log10 - r \in Nat
        BY BaseIs
      <4> QED BY <4>1
    <3>2. Ten(e) \in Nat /\ Ten(e) > 0
      BY TenIs
    <3>3. CASE i > h
      BY <2>6, <3>1, <3>2, <3>3
    <3>4. CASE ~ (i > h)
      <4>1. i = h /\ d <= e
        BY <2>4, <2>5, <2>8, <3>1, <3>4
      <4>2. Ten(d) <= Ten(e) /\ Ten(d) \in Nat
        BY <4>1, TenGrows, TenIs
      <4> QED BY <2>1, <2>2, <3>1, <3>2, <4>1, <4>2, BaseIs
    <3> QED BY <3>3, <3>4
  <2> QED BY <2>6, <2>7, <2>8
<1> QED BY <1>1, <1>2, HighestIs

----------------------------------------------------------------------------
(* Shifts by digits.                                                      *)
(* What the limbs of m are worth that a shift joins, k limbs from them.    *)
LEMMA LeftJoins ==
  ASSUME NEW N \in Nat, NEW y, NEW t, IsLimbs(y, N + 1), IsLimbs(t, N), NEW s, NEW u, Unit(s, u),
         \A j \in 1 .. N : t[j] = (y[j] % u) * s + y[j + 1] \div u,
         y[1] < u
  PROVE  Top(t, N) = s * Top(y, N) + y[N + 1] \div u
<1> DEFINE S == {k \in 0 .. N : Top(t, k) = s * Top(y, k) + y[k + 1] \div u}
<1>1. 0 \in S
  <2>1. Top(t, 0) = 0 /\ Top(y, 0) = 0
    BY TopFirst
  <2>2. PICK x \in 0 .. Base - 1 : x = y[1]
    <3>1. 1 \in 1 .. N + 1
      OBVIOUS
    <3> QED BY <3>1 DEF IsLimbs
  <2>3. x \div u = 0
    BY <2>2, BaseIs DEF Unit
  <2>4. s * 0 + 0 = 0
    BY UnitParts
  <2>5. 0 + 1 = 1
    OBVIOUS
  <2> QED BY <2>1, <2>2, <2>3, <2>4, <2>5
<1>2. ASSUME NEW k \in 0 .. N - 1, k \in S PROVE k + 1 \in S
  <2>1. k + 1 \in 1 .. N /\ k + 1 \in 1 .. N + 1 /\ (k + 1) + 1 \in 1 .. N + 1 /\ k \in 0 .. (N + 1) - 1
        /\ N + 1 \in Nat /\ k + 1 \in 0 .. N
    OBVIOUS
  <2>2. PICK x \in 0 .. Base - 1, z \in 0 .. Base - 1 : x = y[k + 1] /\ z = y[(k + 1) + 1]
    BY <2>1 DEF IsLimbs
  <2>3. PICK h \in Nat : h = Top(y, k) /\ Top(y, k + 1) = Base * h + x
    BY <2>1, <2>2, TopNext
  <2>4. PICK g \in Nat : g = Top(t, k) /\ Top(t, k + 1) = Base * g + t[k + 1]
    BY TopNext
  <2>5. t[k + 1] = (x % u) * s + z \div u
    BY <2>1, <2>2
  <2>6. g = s * h + x \div u
    BY <1>2, <2>2, <2>3, <2>4
  <2>7. PICK p : p = s * h + x \div u
    OBVIOUS
  <2>8. Base * p + (x % u) * s = s * (Base * h + x)
    BY <2>7, LeftStep
  <2>9. PICK q \in Nat : q = (x % u) * s
    <3>1. (x % u) * s \in Nat
      <4>1. x % u \in Nat
        BY UnitParts, BaseIs
      <4> QED BY <4>1, UnitParts
    <3> QED BY <3>1
  <2>10. PICK w \in Nat : w = z \div u
    <3>1. z \div u \in Nat
      BY UnitParts, BaseIs
    <3> QED BY <3>1
  <2>11. PICK f \in Nat : f = Base * g
    BY BaseIs
  <2>12. Top(t, k + 1) = f + (q + w)
    BY <2>4, <2>5, <2>9, <2>10, <2>11
  <2>13. f + q = s * Top(y, k + 1)
    BY <2>3, <2>6, <2>7, <2>8, <2>9, <2>11
  <2>14. Top(t, k + 1) = (f + q) + w
    BY <2>12
  <2> QED BY <2>1, <2>2, <2>10, <2>13, <2>14
<1> HIDE DEF S
<1>3. \A k \in 0 .. N : k \in S
  BY <1>1, <1>2, Inductive
<1>4. N \in S
  BY <1>3
<1> QED BY <1>4 DEF S

LEMMA RightJoins ==
  ASSUME NEW N \in Nat, NEW y, NEW t, IsLimbs(y, N), IsLimbs(t, N), NEW s, NEW u, Unit(s, u),
         \A j \in 1 .. N : t[j] = ((IF j = 1 THEN 0 ELSE y[j - 1]) % s) * u + y[j] \div s
  PROVE  Top(t, N) = Top(y, N) \div s
<1> DEFINE Before0(k) == IF k = 0 THEN 0 ELSE y[k]
           S == {k \in 0 .. N : Top(t, k) = Top(y, k) \div s /\ Top(y, k) % s = Before0(k) % s}
<1>1. 0 \in S
  <2>1. Top(t, 0) = 0 /\ Top(y, 0) = 0 /\ Before0(0) = 0
    BY TopFirst
  <2>2. 0 \div s = 0
    BY UnitParts
  <2> QED BY <2>1, <2>2
<1>2. ASSUME NEW k \in 0 .. N - 1, k \in S PROVE k + 1 \in S
  <2>1. k + 1 \in 1 .. N /\ k + 1 \in 0 .. N /\ k + 1 # 0 /\ (k + 1) - 1 = k /\ (k + 1 = 1 <=> k = 0)
    OBVIOUS
  <2>2. PICK x \in 0 .. Base - 1, z \in 0 .. Base - 1 : x = Before0(k) /\ z = y[k + 1]
    <3>1. y[k + 1] \in 0 .. Base - 1
      BY <2>1 DEF IsLimbs
    <3>2. Before0(k) \in 0 .. Base - 1
      BY BaseIs DEF IsLimbs
    <3> QED BY <3>1, <3>2
  <2>3. PICK h \in Nat : h = Top(y, k) /\ Top(y, k + 1) = Base * h + z
    BY <2>2, TopNext
  <2>4. PICK g \in Nat : g = Top(t, k) /\ Top(t, k + 1) = Base * g + t[k + 1]
    BY TopNext
  <2>5. t[k + 1] = (x % s) * u + z \div s
    BY <2>1, <2>2
  <2>6. g = h \div s /\ h % s = x % s
    BY <1>2, <2>2, <2>3, <2>4
  <2>7. PICK p : p = h \div s
    OBVIOUS
  <2>8. Base * p + (x % s) * u + z \div s = (Base * h + z) \div s /\ (Base * h + z) % s = z % s
    BY <2>6, <2>7, RightStep
  <2>9. PICK q \in Nat : q = (x % s) * u
    <3>1. (x % s) * u \in Nat
      <4>1. x % s \in Nat
        BY UnitParts, BaseIs
      <4> QED BY <4>1, UnitParts
    <3> QED BY <3>1
  <2>10. PICK w \in Nat : w = z \div s
    <3>1. z \div s \in Nat
      BY UnitParts, BaseIs
    <3> QED BY <3>1
  <2>11. PICK f \in Nat : f = Base * g
    BY BaseIs
  <2>12. Top(t, k + 1) = f + (q + w)
    BY <2>4, <2>5, <2>9, <2>10, <2>11
  <2>13. f + q + w = Top(y, k + 1) \div s
    BY <2>3, <2>6, <2>7, <2>8, <2>9, <2>10, <2>11
  <2>14. Top(t, k + 1) = f + q + w
    BY <2>12
  <2>15. Top(y, k + 1) % s = Before0(k + 1) % s
    BY <2>1, <2>2, <2>3, <2>8
  <2> QED BY <2>1, <2>13, <2>14, <2>15
<1> HIDE DEF S
<1>3. \A k \in 0 .. N : k \in S
  BY <1>1, <1>2, Inductive
<1>4. N \in S
  BY <1>3
<1> QED BY <1>4 DEF S

----------------------------------------------------------------------------
(* A shift to the left multiplies.                                        *)
(* A shift to the left that loses no digit multiplies.                     *)
LEMMA ShiftLeftValue ==
  ASSUME NEW m \in Mantissas, NEW n \in Nat, decimal_num_digits(m) + n <= Positions
  PROVE  /\ decimal_shift_left(m, n) \in Mantissas
         /\ Value(decimal_shift_left(m, n)) = Tens(Value(m), n)
<1>1. n \in 0 .. Positions
  BY NumDigits, PositionsIs
<1>2. PICK k \in 0 .. Parts, r \in 0 .. Log10 - 1 :
        k = n \div Log10 /\ r = n % Log10 /\ n = k * Log10 + r /\ (k = Parts => r = 0)
  BY <1>1, Shifted
<1>3. PICK s, u : s = 10 ^ r /\ u = Base \div s
  OBVIOUS
<1>4. Unit(s, u) /\ (\A v \in Int : Tens(v, r) = s * v) /\ Ten(Log10 - r) = u
  BY <1>3, UnitIs
<1>5. PICK t : t = decimal_shift_left(m, n)
  OBVIOUS
<1>6. t = [i \in Limbs |-> (Limb(m, i - k) % u) * s + Limb(m, i - k - 1) \div u]
  BY <1>2, <1>3, <1>5 DEF decimal_shift_left
<1>7. \A i \in Limbs : /\ i - k \in Int /\ i - k - 1 \in Int
                       /\ t[i] \in 0 .. Base - 1
                       /\ t[i] = (Limb(m, i - k) % u) * s + Limb(m, i - k - 1) \div u
  <2> TAKE i \in Limbs
  <2>1. i - k \in Int /\ i - k - 1 \in Int
    BY PartsIs DEF Limbs
  <2>2. PICK x \in 0 .. Base - 1, y \in 0 .. Base - 1 : x = Limb(m, i - k) /\ y = Limb(m, i - k - 1)
    BY <2>1, LimbOf
  <2>3. t[i] = (x % u) * s + y \div u
    BY <1>6, <2>2
  <2>4. (x % u) * s + y \div u \in 0 .. Base - 1
    BY <1>4, LeftLimb
  <2> QED BY <1>6, <2>1, <2>3, <2>4
<1>8. t \in Mantissas
  <2>1. t = [i \in Limbs |-> t[i]]
    BY <1>6
  <2> QED BY <1>7, <2>1 DEF Mantissas
<1> DEFINE y == [j \in 1 .. Parts + 1 |-> Limb(m, Parts - j - k)]
           D == Down(t)
           M == Down(m)
<1>9. \A j \in 1 .. Parts + 1 : Parts - j - k \in Int /\ y[j] = Limb(m, Parts - j - k)
  BY <1>2, PartsIs
<1>10. IsLimbs(D, Parts) /\ (\A j \in 1 .. Parts : D[j] = t[Parts - j]) /\ Value(t) = Top(D, Parts)
  BY <1>8, DownIs DEF Value
<1>11. IsLimbs(M, Parts) /\ (\A j \in 1 .. Parts : M[j] = m[Parts - j]) /\ Value(m) = Top(M, Parts)
  BY DownIs DEF Value
<1> HIDE DEF y, D, M
<1>12. IsLimbs(y, Parts + 1) /\ IsLimbs(y, Parts)
  <2>1. \A j \in 1 .. Parts + 1 : y[j] \in 0 .. Base - 1
    BY <1>9, LimbOf
  <2>2. \A j \in 1 .. Parts : j \in 1 .. Parts + 1
    BY PartsIs
  <2> QED BY <2>1, <2>2 DEF IsLimbs
<1>13. \A j \in 1 .. Parts : D[j] = (y[j] % u) * s + y[j + 1] \div u
  <2> TAKE j \in 1 .. Parts
  <2>1. PICK i \in Limbs : i = Parts - j
    <3>1. Parts - j \in Limbs
      BY PartsIs DEF Limbs
    <3> QED BY <3>1
  <2>2. j \in 1 .. Parts + 1 /\ j + 1 \in 1 .. Parts + 1 /\ Parts - j - k = i - k
        /\ Parts - (j + 1) - k = i - k - 1
    BY <2>1, <1>2, PartsIs
  <2>3. y[j] = Limb(m, i - k) /\ y[j + 1] = Limb(m, i - k - 1)
    BY <1>9, <2>2
  <2> QED BY <1>7, <1>10, <2>1, <2>3
<1>14. \A i \in Limbs : (i >= Parts - k => m[i] = 0) /\ (i = Parts - k - 1 => m[i] < u)
  <2>1. decimal_num_digits(m) + k * Log10 + r <= Positions
    <3>1. k * Log10 \in Nat /\ r \in Nat /\ decimal_num_digits(m) \in Nat
      BY <1>2, Places, NumDigits, PositionsIs, BaseIs, PartsIs
    <3> QED BY <1>2, <3>1
  <2> QED BY <1>4, <2>1, RoomAbove
<1>15. y[1] < u
  <2>1. 1 \in 1 .. Parts + 1 /\ Parts - 1 - k \in Int /\ Parts - 1 - k = Parts - k - 1
    BY <1>2, PartsIs
  <2>2. y[1] = Limb(m, Parts - k - 1) /\ Parts - k - 1 \in Int
    BY <1>9, <2>1
  <2>3. CASE Parts - k - 1 \in Limbs
    BY <1>14, <2>2, <2>3, LimbOf
  <2>4. CASE Parts - k - 1 \notin Limbs
    BY <1>4, <2>2, <2>4, LimbOf, UnitParts
  <2> QED BY <2>3, <2>4
<1>16. y[Parts + 1] = 0
  <2>1. Parts + 1 \in 1 .. Parts + 1 /\ Parts - (Parts + 1) - k \in Int /\ Parts - (Parts + 1) - k \notin Limbs
    BY <1>2, PartsIs DEF Limbs
  <2> QED BY <1>9, <2>1, LimbOf
<1>17. Top(D, Parts) = s * Top(y, Parts)
  <2>1. Top(D, Parts) = s * Top(y, Parts) + y[Parts + 1] \div u
    BY <1>4, <1>10, <1>12, <1>13, <1>15, PartsIs, LeftJoins
  <2>2. 0 \div u = 0
    BY <1>4, UnitParts
  <2>3. s * Top(y, Parts) \in Nat
    <3>1. Top(y, Parts) \in Nat
      BY <1>12, PartsIs, TopNat
    <3> QED BY <1>4, <3>1, UnitParts
  <2> QED BY <1>16, <2>1, <2>2, <2>3
<1>18. PICK c \in 0 .. Parts : c = Parts - k /\ c + k = Parts
  <2>1. Parts - k \in 0 .. Parts /\ (Parts - k) + k = Parts
    BY <1>2, PartsIs
  <2> QED BY <2>1
<1>19. \A j \in c + 1 .. Parts : y[j] = 0
  <2> TAKE j \in c + 1 .. Parts
  <2>1. j \in 1 .. Parts + 1 /\ Parts - j - k \in Int /\ Parts - j - k \notin Limbs
    BY <1>18, PartsIs DEF Limbs
  <2> QED BY <1>9, <2>1, LimbOf
<1>20. Top(y, Parts) = Tens(Top(y, c), k * Log10)
  BY <1>2, <1>12, <1>18, <1>19, PartsIs, ZerosBehindLimbs
<1>21. Top(y, c) = Top(M, Parts)
  <2>1. \A j \in 1 .. k : M[j] = 0
    <3> TAKE j \in 1 .. k
    <3>1. j \in 1 .. Parts /\ Parts - j \in Limbs /\ Parts - j >= Parts - k
      BY <1>2, PartsIs DEF Limbs
    <3> QED BY <1>11, <1>14, <3>1
  <2>2. \A j \in k + 1 .. Parts : M[j] = y[j - k]
    <3> TAKE j \in k + 1 .. Parts
    <3>1. j \in 1 .. Parts /\ Parts - j \in Limbs /\ j - k \in 1 .. Parts + 1
          /\ Parts - (j - k) - k = Parts - j /\ Parts - j \in Int
      BY <1>2, PartsIs DEF Limbs
    <3>2. y[j - k] = Limb(m, Parts - j)
      BY <1>9, <3>1
    <3> QED BY <1>11, <3>1, <3>2, LimbOf
  <2>3. Top(M, Parts) = Top(y, Parts - k)
    BY <1>2, <1>11, <1>12, <2>1, <2>2, PartsIs, ZerosBefore
  <2> QED BY <1>18, <2>3
<1>22. PICK v \in Int, p \in Nat : v = Value(m) /\ p = k * Log10 /\ n = p + r
  BY <1>2, ValueBelow, Places
<1>23. Value(t) = s * Tens(v, p)
  BY <1>10, <1>11, <1>17, <1>20, <1>21, <1>22
<1>24. Tens(v, p) \in Int /\ r \in Nat
  BY TensInt, BaseIs
<1>25. Tens(Tens(v, p), r) = s * Tens(v, p)
  BY <1>4, <1>24
<1>26. Tens(Tens(v, p), r) = Tens(v, n)
  BY <1>22, <1>24, TensTwice
<1> QED BY <1>5, <1>8, <1>22, <1>23, <1>25, <1>26

----------------------------------------------------------------------------
(* A shift to the right divides.                                          *)
LEMMA UnitDivides ==
  ASSUME NEW s, NEW u, Unit(s, u), NEW a \in Nat
  PROVE  a \div s \in Nat /\ s * (a \div s) <= a /\ a + 1 <= s * (a \div s + 1)
<1>1. CASE Base = 10 /\ s = 1 /\ u = 10 BY <1>1
<1>2. CASE Base = 100 /\ s = 1 /\ u = 100 BY <1>2
<1>3. CASE Base = 100 /\ s = 10 /\ u = 10 BY <1>3
<1>4. CASE Base = 1000 /\ s = 1 /\ u = 1000 BY <1>4
<1>5. CASE Base = 1000 /\ s = 10 /\ u = 100 BY <1>5
<1>6. CASE Base = 1000 /\ s = 100 /\ u = 10 BY <1>6
<1>7. CASE Base = 10000 /\ s = 1 /\ u = 10000 BY <1>7
<1>8. CASE Base = 10000 /\ s = 10 /\ u = 1000 BY <1>8
<1>9. CASE Base = 10000 /\ s = 100 /\ u = 100 BY <1>9
<1>10. CASE Base = 10000 /\ s = 1000 /\ u = 10 BY <1>10
<1> QED BY <1>1, <1>2, <1>3, <1>4, <1>5, <1>6, <1>7, <1>8, <1>9, <1>10 DEF Unit

(* A shift to the right cuts the last digits off.                          *)
LEMMA ShiftRightValue ==
  ASSUME NEW m \in Mantissas, NEW n \in 0 .. Positions
  PROVE  /\ decimal_shift_right(m, n) \in Mantissas
         /\ Tens(Value(decimal_shift_right(m, n)), n) <= Value(m)
         /\ Value(m) < Tens(Value(decimal_shift_right(m, n)) + 1, n)
<1>2. PICK k \in 0 .. Parts, r \in 0 .. Log10 - 1 :
        k = n \div Log10 /\ r = n % Log10 /\ n = k * Log10 + r
  BY Shifted
<1>3. PICK s, u : s = 10 ^ r /\ u = Base \div s
  OBVIOUS
<1>4. Unit(s, u) /\ (\A v \in Int : Tens(v, r) = s * v)
  BY <1>3, UnitIs
<1>5. PICK t : t = decimal_shift_right(m, n)
  OBVIOUS
<1>6. t = [i \in Limbs |-> (Limb(m, i + k + 1) % s) * u + Limb(m, i + k) \div s]
  BY <1>2, <1>3, <1>5 DEF decimal_shift_right
<1>7. \A i \in Limbs : /\ i + k \in Int /\ i + k + 1 \in Int
                       /\ t[i] \in 0 .. Base - 1
                       /\ t[i] = (Limb(m, i + k + 1) % s) * u + Limb(m, i + k) \div s
  <2> TAKE i \in Limbs
  <2>1. i + k \in Int /\ i + k + 1 \in Int
    BY PartsIs DEF Limbs
  <2>2. PICK x \in 0 .. Base - 1, y \in 0 .. Base - 1 : x = Limb(m, i + k + 1) /\ y = Limb(m, i + k)
    BY <2>1, LimbOf
  <2>3. t[i] = (x % s) * u + y \div s
    BY <1>6, <2>2
  <2>4. (x % s) * u + y \div s \in 0 .. Base - 1
    BY <1>4, RightLimb
  <2> QED BY <1>6, <2>1, <2>3, <2>4
<1>8. t \in Mantissas
  <2>1. t = [i \in Limbs |-> t[i]]
    BY <1>6
  <2> QED BY <1>7, <2>1 DEF Mantissas
<1> DEFINE y == [j \in 1 .. Parts |-> Limb(m, Parts - j + k)]
           D == Down(t)
           M == Down(m)
<1>9. \A j \in 1 .. Parts : Parts - j + k \in Int /\ y[j] = Limb(m, Parts - j + k)
  BY <1>2, PartsIs
<1>10. IsLimbs(D, Parts) /\ (\A j \in 1 .. Parts : D[j] = t[Parts - j]) /\ Value(t) = Top(D, Parts)
  BY <1>8, DownIs DEF Value
<1>11. IsLimbs(M, Parts) /\ (\A j \in 1 .. Parts : M[j] = m[Parts - j]) /\ Value(m) = Top(M, Parts)
  BY DownIs DEF Value
<1> HIDE DEF y, D, M
<1>12. IsLimbs(y, Parts)
  <2>1. \A j \in 1 .. Parts : y[j] \in 0 .. Base - 1
    BY <1>9, LimbOf
  <2> QED BY <2>1 DEF IsLimbs
<1>13. \A j \in 1 .. Parts : D[j] = ((IF j = 1 THEN 0 ELSE y[j - 1]) % s) * u + y[j] \div s
  <2> TAKE j \in 1 .. Parts
  <2>1. PICK i \in Limbs : i = Parts - j
    <3>1. Parts - j \in Limbs
      BY PartsIs DEF Limbs
    <3> QED BY <3>1
  <2>2. Parts - j + k = i + k /\ y[j] = Limb(m, i + k) /\ i + k + 1 \in Int
    BY <1>7, <1>9, <2>1
  <2>3. Limb(m, i + k + 1) = IF j = 1 THEN 0 ELSE y[j - 1]
    <3>1. CASE j = 1
      <4>1. i + k + 1 \notin Limbs
        BY <1>2, <2>1, <3>1, PartsIs DEF Limbs
      <4> QED BY <2>2, <3>1, <4>1, LimbOf
    <3>2. CASE j # 1
      <4>1. j - 1 \in 1 .. Parts /\ Parts - (j - 1) + k = i + k + 1
        BY <1>2, <2>1, <3>2, PartsIs
      <4>2. y[j - 1] = Limb(m, i + k + 1)
        BY <1>9, <4>1
      <4> QED BY <3>2, <4>2
    <3> QED BY <3>1, <3>2
  <2>4. PICK w : w = IF j = 1 THEN 0 ELSE y[j - 1]
    OBVIOUS
  <2>5. D[j] = (w % s) * u + y[j] \div s
    BY <1>7, <1>10, <2>1, <2>2, <2>3, <2>4
  <2> QED BY <2>4, <2>5
<1>14. Value(t) = Top(y, Parts) \div s
  BY <1>4, <1>10, <1>12, <1>13, PartsIs, RightJoins
<1>15. PICK c \in 0 .. Parts : c = Parts - k /\ c + k = Parts
  <2>1. Parts - k \in 0 .. Parts /\ (Parts - k) + k = Parts
    BY <1>2, PartsIs
  <2> QED BY <2>1
<1>16. Top(y, Parts) = Top(M, c)
  <2>1. \A j \in 1 .. k : y[j] = 0
    <3> TAKE j \in 1 .. k
    <3>1. j \in 1 .. Parts /\ Parts - j + k \in Int /\ Parts - j + k \notin Limbs
      BY <1>2, PartsIs DEF Limbs
    <3> QED BY <1>9, <3>1, LimbOf
  <2>2. \A j \in k + 1 .. Parts : y[j] = M[j - k]
    <3> TAKE j \in k + 1 .. Parts
    <3>1. j \in 1 .. Parts /\ j - k \in 1 .. Parts /\ Parts - (j - k) = Parts - j + k
          /\ Parts - j + k \in Limbs /\ Parts - j + k \in Int
      BY <1>2, PartsIs DEF Limbs
    <3>2. M[j - k] = m[Parts - j + k]
      BY <1>11, <3>1
    <3>3. Limb(m, Parts - j + k) = m[Parts - j + k]
      BY <3>1, LimbOf
    <3> QED BY <1>9, <3>1, <3>2, <3>3
  <2>3. Top(y, Parts) = Top(M, Parts - k)
    BY <1>2, <1>11, <1>12, <2>1, <2>2, PartsIs, ZerosBefore
  <2> QED BY <1>15, <2>3
<1>17. PICK a \in Nat : a = Top(M, c)
  BY <1>11, <1>15, PartsIs, TopNat
<1>18. PICK p \in Nat : p = k * Log10 /\ n = p + r
  BY <1>2, Places
<1>19. Tens(a, p) <= Value(m) /\ Value(m) < Tens(a + 1, p)
  <2>1. Parts \in Nat /\ k \in Nat
    BY <1>2, PartsIs
  <2>2. Tens(Top(M, c), k * Log10) <= Top(M, Parts) /\ Top(M, Parts) < Tens(Top(M, c) + 1, k * Log10)
    BY <1>11, <1>15, <2>1, TopRest
  <2> QED BY <1>11, <1>17, <1>18, <2>2
<1>20. PICK q \in Nat : q = a \div s /\ s * q <= a /\ a + 1 <= s * (q + 1)
  BY <1>4, UnitDivides
<1>21. Value(t) = q
  BY <1>14, <1>16, <1>17, <1>20
<1>22. PICK e \in Nat, f \in Nat : e = s * q /\ f = s * (q + 1) /\ e = Tens(q, r) /\ f = Tens(q + 1, r)
  <2>1. s * q \in Nat /\ s * (q + 1) \in Nat /\ q \in Int /\ q + 1 \in Int
    BY <1>4, UnitParts
  <2> QED BY <1>4, <2>1
<1>23. r \in Nat /\ r + p = n
  BY <1>18, BaseIs
<1>24. Tens(e, p) = Tens(q, n) /\ Tens(f, p) = Tens(q + 1, n)
  <2>1. PICK q1 \in Int : q1 = q + 1
    OBVIOUS
  <2>2. q \in Int /\ r \in Nat /\ p \in Nat
    BY <1>23
  <2>3. Tens(Tens(q, r), p) = Tens(q, r + p)
    BY <2>2, TensTwice
  <2>4. Tens(Tens(q1, r), p) = Tens(q1, r + p)
    BY <2>1, <2>2, TensTwice
  <2> QED BY <1>22, <1>23, <2>1, <2>3, <2>4
<1>25. Tens(e, p) <= Tens(a, p) /\ Tens(a + 1, p) <= Tens(f, p)
  BY <1>20, <1>22, TensAtMost
<1>26. /\ Tens(e, p) \in Int /\ Tens(f, p) \in Int /\ Tens(a, p) \in Int /\ Tens(a + 1, p) \in Int
       /\ Value(m) \in Int
  <2>1. e \in Int /\ f \in Int /\ a \in Int /\ a + 1 \in Int /\ p \in Nat
    OBVIOUS
  <2>2. PICK a1 \in Int : a1 = a + 1
    OBVIOUS
  <2>3. Tens(e, p) \in Int /\ Tens(f, p) \in Int /\ Tens(a, p) \in Int /\ Tens(a1, p) \in Int
    BY <2>1, TensInt
  <2>4. Value(m) \in Int
    BY ValueBelow
  <2> QED BY <2>2, <2>3, <2>4
<1>27. Tens(e, p) <= Value(m) /\ Value(m) < Tens(f, p)
  BY <1>19, <1>25, <1>26
<1> QED BY <1>5, <1>8, <1>21, <1>24, <1>27

----------------------------------------------------------------------------
(* A carry in front.                                                      *)
LEMMA TenthIs ==
  /\ Base \div 10 \in Nat /\ Base \div 10 = Ten(Log10 - 1) /\ Base \div 10 < Base
  /\ Base \div 10 + (Base \div 10) <= Base
<1>1. CASE Log10 = 1 /\ Base = 10 BY <1>1, TenFew
<1>2. CASE Log10 = 2 /\ Base = 100 BY <1>2, TenFew
<1>3. CASE Log10 = 3 /\ Base = 1000 BY <1>3, TenFew
<1>4. CASE Log10 = 4 /\ Base = 10000 BY <1>4, TenFew
<1> QED BY <1>1, <1>2, <1>3, <1>4, BaseIs

(* A digit 1 in the highest place.                                         *)
LEMMA TopDigit ==
  ASSUME NEW b, b = [i \in Limbs |-> IF i = Parts - 1 THEN Base \div 10 ELSE 0]
  PROVE  b \in Mantissas /\ Positions - 1 \in Nat /\ Value(b) = Ten(Positions - 1)
<1>1. b \in Mantissas
  <2>1. \A i \in Limbs : b[i] \in 0 .. Base - 1
    BY TenthIs, BaseIs
  <2> QED BY <2>1 DEF Mantissas
<1>2. PICK t : t = Down(b)
  OBVIOUS
<1>3. IsLimbs(t, Parts) /\ (\A j \in 1 .. Parts : t[j] = b[Parts - j]) /\ Value(b) = Top(t, Parts)
  BY <1>1, <1>2, DownIs DEF Value
<1>4. PICK k \in Nat : k = Parts - 1 /\ 1 + k = Parts
  <2>1. Parts - 1 \in Nat /\ 1 + (Parts - 1) = Parts
    BY PartsIs
  <2> QED BY <2>1
<1>5. t[1] = Base \div 10
  <2>1. 1 \in 1 .. Parts /\ Parts - 1 \in Limbs
    BY PartsIs DEF Limbs
  <2> QED BY <1>3, <2>1
<1>6. \A j \in 2 .. Parts : t[j] = 0
  <2> TAKE j \in 2 .. Parts
  <2>1. j \in 1 .. Parts /\ Parts - j \in Limbs /\ Parts - j # Parts - 1
    BY PartsIs DEF Limbs
  <2> QED BY <1>3, <2>1
<1>7. Top(t, 1) = Base \div 10
  <2>1. 0 \in 0 .. Parts - 1 /\ 0 + 1 = 1
    BY PartsIs
  <2>2. Top(t, 0 + 1) = Base * Top(t, 0) + t[0 + 1]
    BY <1>3, <2>1, PartsIs, TopNext
  <2>3. Top(t, 0) = 0
    BY TopFirst
  <2> QED BY <1>5, <2>1, <2>2, <2>3, BaseIs, TenthIs
<1>8. PICK p \in Nat : p = k * Log10 /\ Positions = p + Log10
  <2>1. (k + 1) * Log10 = k * Log10 + Log10 /\ k * Log10 \in Nat
    BY <1>4, Places
  <2>2. k + 1 = Parts
    BY <1>4
  <2> QED BY <2>1, <2>2, PositionsIs
<1>9. Top(t, Parts) = Tens(Top(t, 1), p)
  <2>1. 1 \in 0 .. Parts /\ 1 + 1 = 2
    BY PartsIs
  <2>2. \A j \in 1 + 1 .. Parts : t[j] = 0
    BY <1>6, <2>1
  <2>3. Top(t, Parts) = Tens(Top(t, 1), k * Log10)
    BY <1>3, <1>4, <2>1, <2>2, PartsIs, ZerosBehindLimbs
  <2> QED BY <1>8, <2>3
<1>10. PICK q \in Nat : q = Log10 - 1 /\ q + p = Positions - 1
  <2>1. Log10 - 1 \in Nat /\ Log10 - 1 + p = Positions - 1
    BY <1>8, BaseIs
  <2> QED BY <2>1
<1>11. Tens(Tens(1, q), p) = Tens(1, q + p)
  BY TensTwice
<1>12. Top(t, 1) = Tens(1, q)
  BY <1>7, <1>10, TenthIs, TenIs
<1>13. Tens(1, q + p) = Ten(Positions - 1) /\ Positions - 1 \in Nat
  <2>1. q + p \in Nat
    OBVIOUS
  <2>2. Ten(q + p) = Tens(1, q + p)
    BY <2>1, TenIs
  <2> QED BY <1>10, <2>1, <2>2
<1> QED BY <1>1, <1>3, <1>9, <1>11, <1>12, <1>13

(* The carry of a sum, put in front of its digits.                         *)
LEMMA CarryInFront ==
  ASSUME NEW m \in Mantissas, NEW p \in Nat, p = Positions - 1, Value(m) < Ten(p),
         NEW r, r = [m EXCEPT ![Parts - 1] = @ + Base \div 10]
  PROVE  r \in Mantissas /\ Value(r) = Value(m) + Ten(p) /\ decimal_num_digits(r) = Positions
<1>1. PICK top \in Limbs : top = Parts - 1
  <2>1. Parts - 1 \in Limbs
    BY PartsIs DEF Limbs
  <2> QED BY <2>1
<1>2. m[top] < Base \div 10
  <2>1. decimal_num_digits(m) \in Nat /\ decimal_num_digits(m) <= p
    BY NumDigitsAtMost, NumDigits
  <2>2. CASE Log10 = 1
    <3>1. 1 \in 0 .. Parts /\ 0 \in 0 .. Log10 - 1
      BY <2>2, PartsIs
    <3>2. decimal_num_digits(m) + 1 * Log10 + 0 <= Positions
      BY <2>1, <2>2, PositionsIs
    <3>3. \A i \in Limbs : i >= Parts - 1 => m[i] = 0
      BY <3>1, <3>2, RoomAbove
    <3>4. m[top] = 0
      BY <1>1, <3>3, PartsIs
    <3> QED BY <2>2, <3>4, TenthIs, TenFew
  <2>3. CASE Log10 # 1
    <3>1. 0 \in 0 .. Parts /\ 1 \in 0 .. Log10 - 1
      BY <2>3, PartsIs, BaseIs
    <3>2. decimal_num_digits(m) + 0 * Log10 + 1 <= Positions
      BY <2>1, PositionsIs, BaseIs
    <3>3. \A i \in Limbs : i = Parts - 0 - 1 => m[i] < Ten(Log10 - 1)
      BY <3>1, <3>2, RoomAbove
    <3>4. top = Parts - 0 - 1
      BY <1>1, PartsIs
    <3> QED BY <3>3, <3>4, TenthIs
  <2> QED BY <2>2, <2>3
<1>3. PICK b : b = [i \in Limbs |-> IF i = Parts - 1 THEN Base \div 10 ELSE 0]
  OBVIOUS
<1>4. b \in Mantissas /\ Value(b) = Ten(p)
  BY <1>3, TopDigit
<1>5. \A i \in Limbs : r[i] = m[i] + b[i] /\ r[i] \in 0 .. Base - 1
  <2> TAKE i \in Limbs
  <2>1. m[i] \in 0 .. Base - 1 /\ m[top] \in 0 .. Base - 1
    BY LimbIs
  <2>2. r[i] = IF i = top THEN m[top] + Base \div 10 ELSE m[i]
    BY <1>1 DEF Mantissas
  <2>3. b[i] = IF i = top THEN Base \div 10 ELSE 0
    BY <1>1, <1>3
  <2>4. CASE i = top
    BY <1>2, <2>1, <2>2, <2>3, <2>4, TenthIs, BaseIs
  <2>5. CASE i # top
    BY <2>1, <2>2, <2>3, <2>5, BaseIs
  <2> QED BY <2>4, <2>5
<1>6. r \in Mantissas
  <2>1. r = [i \in Limbs |-> r[i]]
    BY DEF Mantissas
  <2> QED BY <1>5, <2>1 DEF Mantissas
<1>7. PICK c : c = [i \in 0 .. Parts |-> 0]
  OBVIOUS
<1>8. Carries(m, b, r, c)
  <2>1. c \in [0 .. Parts -> {0, 1}] /\ c[0] = 0
    BY <1>7, PartsIs
  <2>2. \A i \in Limbs : m[i] + b[i] + c[i] = r[i] + Base * c[i + 1]
    <3> TAKE i \in Limbs
    <3>1. c[i] = 0 /\ c[i + 1] = 0
      BY <1>7, PartsIs DEF Limbs
    <3>2. PICK x \in Nat, y \in Nat : x = m[i] /\ y = b[i] /\ r[i] = x + y
      <4>1. m[i] \in 0 .. Base - 1 /\ b[i] \in 0 .. Base - 1
        BY <1>4, LimbIs
      <4> QED BY <1>5, <4>1, BaseIs
    <3> QED BY <3>1, <3>2, BaseIs
  <2> QED BY <2>1, <2>2 DEF Carries
<1>9. Value(m) + Value(b) = Value(r) + Tens(c[Parts], Positions)
  BY <1>4, <1>6, <1>8, CarriesPassed
<1>10. Tens(c[Parts], Positions) = 0
  <2>1. c[Parts] = 0
    BY <1>7, PartsIs
  <2> QED BY <2>1, PositionsIs, TensZero
<1>11. Value(r) = Value(m) + Ten(p)
  <2>1. Value(r) \in Nat /\ Value(m) \in Nat /\ Ten(p) \in Nat
    BY <1>6, ValueBelow, TenIs
  <2> QED BY <1>4, <1>9, <1>10, <2>1
<1>12. IsDigits(Positions, Value(r))
  <2>1. Value(r) < Ten(Positions) /\ Value(m) \in Nat
    BY <1>6, ValueBelow
  <2>2. Ten(Positions - 1) <= Value(r)
    BY <1>11, <2>1, TenIs
  <2> QED BY <2>1, <2>2, PositionsIs DEF IsDigits
<1>13. decimal_num_digits(r) = Positions
  BY <1>6, <1>12, NumDigitsOfValue
<1> QED BY <1>6, <1>11, <1>13

----------------------------------------------------------------------------
(* Alignment of two operands.                                             *)
LEMMA ExponentsIs == MinExponent .. MaxExponent \subseteq Int /\ 0 \in MinExponent .. MaxExponent
<1>1. MinExponent \in Int /\ MaxExponent \in Int /\ 0 \in MinExponent .. MaxExponent
  BY DecimalAssumption
<1> QED BY <1>1

LEMMA SizedIs ==
  ASSUME NEW d, Sized(d)
  PROVE  /\ d.m \in Mantissas /\ d.n \in 0 .. Positions /\ d.e \in Int /\ d.sign \in {1, -1}
         /\ Value(d.m) \in Nat /\ Value(d.m) < Ten(d.n)
         /\ decimal_num_digits(d.m) \in Nat /\ decimal_num_digits(d.m) <= d.n
<1>1. d.m \in Mantissas /\ d.n \in Nat /\ decimal_num_digits(d.m) <= d.n /\ d.n <= Positions
  BY DEF Sized, Mantissas
<1>2. d.e \in Int
  BY ExponentsIs DEF Sized
<1>3. Value(d.m) < Ten(d.n)
  BY <1>1, ValueAtMost
<1>4. Value(d.m) \in Nat /\ decimal_num_digits(d.m) \in Nat
  BY <1>1, ValueBelow, NumDigits
<1>5. d.n \in 0 .. Positions
  BY <1>1, PositionsIs
<1> QED BY <1>1, <1>2, <1>3, <1>4, <1>5 DEF Sized

(* What alignment keeps of two operands.                                   *)
Aligns(n1, n2, s1, s2, e) ==
  /\ s1 \in Mantissas /\ s2 \in Mantissas /\ e \in Int
  /\ e <= n1.e /\ (e = n1.e \/ n2.e <= e)
  /\ Value(s1) = Tens(Value(n1.m), n1.e - e)
  /\ \/ e <= n2.e /\ Value(s2) = Tens(Value(n2.m), n2.e - e)
     \/ /\ n2.e < e /\ n1.e + n1.n - e = Positions
        /\ Tens(Value(s2), e - n2.e) <= Value(n2.m)
        /\ Value(n2.m) < Tens(Value(s2) + 1, e - n2.e)

LEMMA AlignedIs ==
  ASSUME NEW n1, NEW n2, Sized(n1), Sized(n2), Reach(n2) <= Reach(n1), ~ TooSmall(n1, n2),
         NEW a, a = Aligned(n1, n2)
  PROVE  Aligns(n1, n2, a.s1, a.s2, a.e) /\ a.e \in MinExponent .. MaxExponent
<1>1. PICK e1 \in Int, e2 \in Int, k1 \in Nat, k2 \in Nat, p \in Nat :
        e1 = n1.e /\ e2 = n2.e /\ k1 = n1.n /\ k2 = n2.n /\ p = Positions /\ k1 <= p /\ k2 <= p
  BY SizedIs, PositionsIs, SMTT(60)
<1>2. e2 + k2 <= e1 + k1
  BY <1>1 DEF Reach
<1>3. e1 - e2 > p - k1 => e1 - e2 - (p - k1) <= k2
  BY <1>1 DEF TooSmall
<1>4. n1.m \in Mantissas /\ n2.m \in Mantissas
  BY SizedIs
<1>5. PICK h1 \in Nat, h2 \in Nat : /\ h1 = decimal_num_digits(n1.m) /\ h2 = decimal_num_digits(n2.m)
                                    /\ h1 <= k1 /\ h2 <= k2
  BY <1>1, SizedIs
<1>6. PICK min \in Int, max \in Int : /\ min = MinExponent /\ max = MaxExponent
                                      /\ min <= e1 /\ e1 <= max /\ min <= e2 /\ e2 <= max
  <2>1. MinExponent \in Int /\ MaxExponent \in Int
    BY DecimalAssumption
  <2>2. e1 \in MinExponent .. MaxExponent /\ e2 \in MinExponent .. MaxExponent
    BY <1>1 DEF Sized
  <2> QED BY <2>1, <2>2
<1>7. CASE e1 - e2 > p - k1
  <2>1. PICK f \in Nat, k \in Nat, e \in Int :
          f = p - k1 /\ k = e1 - e2 - f /\ e = e1 - f /\ k <= p /\ h1 + f <= p /\ k > 0
    <3>1. p - k1 \in Nat /\ e1 - e2 - (p - k1) \in Nat /\ e1 - (p - k1) \in Int
          /\ e1 - e2 - (p - k1) <= p /\ h1 + (p - k1) <= p /\ e1 - e2 - (p - k1) > 0
      BY <1>1, <1>3, <1>5, <1>7
    <3> QED BY <3>1
  <2>2. /\ a.s1 = decimal_shift_left(n1.m, f) /\ a.s2 = decimal_shift_right(n2.m, k) /\ a.e = e
    BY <1>1, <1>7, <2>1 DEF Aligned
  <2>3. a.s1 \in Mantissas /\ Value(a.s1) = Tens(Value(n1.m), f)
    <3>1. decimal_num_digits(n1.m) + f <= Positions
      BY <1>1, <1>5, <2>1
    <3> QED BY <1>4, <2>2, <3>1, ShiftLeftValue
  <2>4. /\ a.s2 \in Mantissas
        /\ Tens(Value(a.s2), k) <= Value(n2.m) /\ Value(n2.m) < Tens(Value(a.s2) + 1, k)
    <3>1. k \in 0 .. Positions
      BY <1>1, <2>1
    <3> QED BY <1>4, <2>2, <3>1, ShiftRightValue
  <2>5. /\ a.e \in Int /\ n1.e - a.e = f /\ a.e - n2.e = k /\ n2.e < a.e /\ a.e <= n1.e
        /\ n1.e + n1.n - a.e = Positions
    BY <1>1, <2>1, <2>2
  <2>6. a.e \in MinExponent .. MaxExponent
    BY <1>1, <1>6, <2>5
  <2>7. n2.e <= a.e
    BY <1>1, <2>5
  <2> QED BY <2>3, <2>4, <2>5, <2>6, <2>7 DEF Aligns
<1>8. CASE e1 - e2 <= p - k1 /\ e1 - e2 > 0
  <2>1. PICK f \in Nat : f = e1 - e2 /\ h1 + f <= p
    <3>1. e1 - e2 \in Nat /\ h1 + (e1 - e2) <= p
      BY <1>1, <1>5, <1>8
    <3> QED BY <3>1
  <2>2. a.s1 = decimal_shift_left(n1.m, f) /\ a.s2 = n2.m /\ a.e = e2
    BY <1>1, <1>8, <2>1 DEF Aligned
  <2>3. a.s1 \in Mantissas /\ Value(a.s1) = Tens(Value(n1.m), f)
    <3>1. decimal_num_digits(n1.m) + f <= Positions
      BY <1>1, <1>5, <2>1
    <3> QED BY <1>4, <2>2, <3>1, ShiftLeftValue
  <2>4. /\ a.e \in Int /\ n1.e - a.e = f /\ n2.e - a.e = 0 /\ a.e <= n1.e /\ a.e <= n2.e /\ n2.e <= a.e
    BY <1>1, <2>1, <2>2
  <2>5. Value(a.s2) = Tens(Value(n2.m), n2.e - a.e)
    BY <2>2, <2>4, TensFirst
  <2>6. a.e \in MinExponent .. MaxExponent
    BY <1>1, <1>6, <2>2
  <2> QED BY <1>4, <2>2, <2>3, <2>4, <2>5, <2>6 DEF Aligns
<1>9. CASE e1 - e2 <= 0
  <2>1. PICK f \in Nat : f = e2 - e1 /\ f = -(e1 - e2) /\ h2 + f <= p /\ ~ e1 - e2 > 0 /\ ~ e1 - e2 > p - k1
    <3>1. e2 - e1 \in Nat /\ h2 + (e2 - e1) <= p /\ e2 - e1 = -(e1 - e2) /\ ~ e1 - e2 > 0 /\ ~ e1 - e2 > p - k1
      BY <1>1, <1>2, <1>5, <1>9
    <3> QED BY <3>1
  <2>2. a.s1 = n1.m /\ a.s2 = decimal_shift_left(n2.m, f) /\ a.e = e1
    BY <1>1, <2>1 DEF Aligned
  <2>3. a.s2 \in Mantissas /\ Value(a.s2) = Tens(Value(n2.m), f)
    <3>1. decimal_num_digits(n2.m) + f <= Positions
      BY <1>1, <1>5, <2>1
    <3> QED BY <1>4, <2>2, <3>1, ShiftLeftValue
  <2>4. a.e \in Int /\ n2.e - a.e = f /\ n1.e - a.e = 0 /\ a.e <= n1.e /\ a.e <= n2.e /\ a.e = n1.e
    BY <1>1, <2>1, <2>2
  <2>5. Value(a.s1) = Tens(Value(n1.m), n1.e - a.e)
    BY <2>2, <2>4, TensFirst
  <2>6. a.e \in MinExponent .. MaxExponent
    BY <1>1, <1>6, <2>2
  <2> QED BY <1>4, <2>2, <2>3, <2>4, <2>5, <2>6 DEF Aligns
<1> QED BY <1>7, <1>8, <1>9

(* The operands and the aligned mantissas, in units of the place E.        *)
Weighs(d, E) == Tens(Value(d.m), d.e - E)

LEMMA WeighsIs ==
  ASSUME NEW d, Sized(d), NEW E \in Int, E <= d.e
  PROVE  Weighs(d, E) \in Nat /\ d.e + d.n - E \in Nat /\ Weighs(d, E) < Ten(d.e + d.n - E)
<1>1. PICK v \in Nat, k \in Nat, e \in Int, g \in Nat, t \in Nat :
        /\ v = Value(d.m) /\ k = d.n /\ e = d.e /\ g = e - E /\ v < t /\ t = Ten(k)
        /\ k + g = d.e + d.n - E
  <2>1. d.n \in Nat /\ d.e \in Int /\ Value(d.m) \in Nat /\ Value(d.m) < Ten(d.n)
    BY SizedIs, PositionsIs
  <2>2. d.e - E \in Nat /\ d.n + (d.e - E) = d.e + d.n - E
    BY <2>1
  <2> QED BY <2>1, <2>2, TenIs
<1>2. Tens(v, g) < Tens(t, g)
  BY <1>1, TensLess
<1>3. Tens(t, g) = Ten(k + g)
  <2>1. t = Tens(1, k) /\ k + g \in Nat
    BY <1>1, TenIs
  <2>2. Tens(Tens(1, k), g) = Tens(1, k + g)
    BY TensTwice
  <2>3. Ten(k + g) = Tens(1, k + g)
    BY <2>1, TenIs
  <2> QED BY <2>1, <2>2, <2>3
<1>4. Tens(v, g) \in Nat
  BY TensNat
<1>5. Weighs(d, E) = Tens(v, g)
  BY <1>1 DEF Weighs
<1> QED BY <1>1, <1>2, <1>3, <1>4, <1>5

LEMMA AlignedWeighs ==
  ASSUME NEW n1, NEW n2, Sized(n1), Sized(n2), NEW s1, NEW s2, NEW e, Aligns(n1, n2, s1, s2, e),
         NEW E \in Int, E <= n1.e, E <= n2.e
  PROVE  /\ e - E \in Nat
         /\ Tens(Value(s1), e - E) = Weighs(n1, E)
         /\ Tens(Value(s2), e - E) <= Weighs(n2, E)
         /\ Weighs(n2, E) < Tens(Value(s2), e - E) + Ten(e - E)
         /\ Weighs(n2, E) = Tens(Value(s2), e - E) \/ n1.e + n1.n - e = Positions
<1>1. PICK e1 \in Int, e2 \in Int, w1 \in Nat, w2 \in Nat, v1 \in Nat, v2 \in Nat :
        /\ e1 = n1.e /\ e2 = n2.e /\ v1 = Value(n1.m) /\ v2 = Value(n2.m)
        /\ w1 = Value(s1) /\ w2 = Value(s2) /\ e \in Int /\ e <= e1 /\ (e = e1 \/ e2 <= e)
  BY SizedIs, ValueBelow DEF Aligns
<1>2. PICK g \in Nat, k1 \in Nat, g1 \in Nat, g2 \in Nat :
        g = e - E /\ k1 = e1 - e /\ k1 + g = g1 /\ g1 = e1 - E /\ g2 = e2 - E
  <2>1. e - E \in Nat /\ e1 - e \in Nat /\ (e1 - e) + (e - E) = e1 - E /\ e1 - E \in Nat /\ e2 - E \in Nat
    BY <1>1
  <2> QED BY <2>1
<1>3. w1 = Tens(v1, k1)
  BY <1>1, <1>2 DEF Aligns
<1>4. Tens(w1, g) = Tens(v1, g1)
  BY <1>2, <1>3, TensTwice
<1>5. Weighs(n1, E) = Tens(v1, g1) /\ Weighs(n2, E) = Tens(v2, g2)
  BY <1>1, <1>2 DEF Weighs
<1>6. Tens(w2, g) \in Nat /\ Ten(g) \in Nat /\ Ten(g) > 0 /\ Tens(v2, g2) \in Nat
  BY TensNat, TenIs
<1>7. CASE e <= e2 /\ w2 = Tens(v2, e2 - e)
  <2>1. PICK k2 \in Nat : k2 = e2 - e /\ k2 + g = g2
    <3>1. e2 - e \in Nat /\ (e2 - e) + g = g2
      BY <1>1, <1>2, <1>7
    <3> QED BY <3>1
  <2>2. Tens(w2, g) = Tens(v2, g2)
    BY <1>7, <2>1, TensTwice
  <2> QED BY <1>1, <1>2, <1>4, <1>5, <1>6, <2>2
<1>8. CASE /\ e2 < e /\ n1.e + n1.n - e = Positions
           /\ Tens(w2, e - e2) <= v2 /\ v2 < Tens(w2 + 1, e - e2)
  <2>1. PICK k2 \in Nat, u \in Nat : k2 = e - e2 /\ k2 + g2 = g /\ u = w2 + 1
    <3>1. e - e2 \in Nat /\ (e - e2) + g2 = g
      BY <1>1, <1>2, <1>8
    <3> QED BY <3>1
  <2>2. PICK x \in Nat, y \in Nat : x = Tens(w2, k2) /\ y = Tens(u, k2) /\ x <= v2 /\ v2 < y
    <3>1. Tens(w2, k2) \in Nat /\ Tens(u, k2) \in Nat
      BY TensNat
    <3> QED BY <1>8, <2>1, <3>1
  <2>3. Tens(x, g2) <= Tens(v2, g2)
    BY <2>2, TensAtMost
  <2>4. Tens(v2, g2) < Tens(y, g2)
    BY <2>2, TensLess
  <2>5. Tens(x, g2) = Tens(w2, g)
    BY <2>1, <2>2, TensTwice
  <2>6. Tens(y, g2) = Tens(u, g)
    BY <2>1, <2>2, TensTwice
  <2>7. Tens(u, g) = Tens(w2, g) + Tens(1, g)
    <3>1. Tens(w2 + 1, g) = Tens(w2, g) + Tens(1, g)
      BY TensSum
    <3> QED BY <2>1, <3>1
  <2>8. Tens(1, g) = Ten(g)
    BY TenIs
  <2> QED BY <1>1, <1>2, <1>4, <1>5, <1>8, <2>3, <2>4, <2>5, <2>6, <2>7, <2>8
<1> QED BY <1>1, <1>7, <1>8 DEF Aligns

----------------------------------------------------------------------------
(* Sums.                                                                  *)
Slack(h) == Ten(Max({h, 0}))

LEMMA SlackIs ==
  ASSUME NEW h \in Int
  PROVE  Slack(h) \in Nat /\ Slack(h) > 0 /\ \A k \in Nat : k <= h => Ten(k) <= Slack(h)
<1>1. PICK k \in Nat : k = Max({h, 0}) /\ h <= k
  <2>1. CASE h >= 0
    <3>1. h \in {h, 0} /\ \A y \in {h, 0} : h >= y
      BY <2>1
    <3>2. \A x \in {h, 0} : (\A y \in {h, 0} : x >= y) => x = h
      BY <2>1
    <3>3. Max({h, 0}) = h
      BY <3>1, <3>2 DEF Max
    <3> QED BY <2>1, <3>3
  <2>2. CASE h < 0
    <3>1. 0 \in {h, 0} /\ \A y \in {h, 0} : 0 >= y
      BY <2>2
    <3>2. \A x \in {h, 0} : (\A y \in {h, 0} : x >= y) => x = 0
      BY <2>2
    <3>3. Max({h, 0}) = 0
      BY <3>1, <3>2 DEF Max
    <3> QED BY <2>2, <3>3
  <2> QED BY <2>1, <2>2
<1>2. Ten(k) \in Nat /\ Ten(k) > 0
  BY TenIs
<1>3. ASSUME NEW j \in Nat, j <= h PROVE Ten(j) <= Ten(k)
  <2>1. j <= k
    BY <1>1, <1>3
  <2> QED BY <2>1, TenGrows
<1> QED BY <1>1, <1>2, <1>3 DEF Slack

(* A number that an operation made.                                        *)
Made(d) == Sized(d) /\ d.n = decimal_num_digits(d.m)

LEMMA MadeIs ==
  ASSUME NEW sign \in {1, -1}, NEW e \in MinExponent .. MaxExponent, NEW m \in Mantissas,
         NEW n, n = decimal_num_digits(m), NEW d, d = [sign |-> sign, e |-> e, n |-> n, m |-> m]
  PROVE  Made(d)
<1>1. n \in Nat /\ n <= Positions
  BY NumDigits, PositionsIs
<1> QED BY <1>1 DEF Made, Sized, Mantissas

LEMMA SumWeighs ==
  ASSUME NEW n1, NEW n2, Sized(n1), Sized(n2), Reach(n2) <= Reach(n1),
         NEW a, Aligns(n1, n2, a.s1, a.s2, a.e), a.e \in MinExponent .. MaxExponent,
         NEW E \in Int, E <= n1.e, E <= n2.e,
         NEW a1, a1.sign \in {1, -1}, NEW old, NEW R, R = Added(a1, a, old), R.ret = "ok",
         NEW h, h = Reach(n1) + 1 - Positions - E
  PROVE  /\ Made(R.d) /\ R.d.sign = a1.sign
         /\ Weighs(R.d, E) <= Weighs(n1, E) + Weighs(n2, E)
         /\ Weighs(n1, E) + Weighs(n2, E) < Weighs(R.d, E) + Slack(h)
<1>1. a.s1 \in Mantissas /\ a.s2 \in Mantissas /\ a.e \in Int
  BY DEF Aligns
<1>2. PICK sm, c : sm = decimal_abs_add(a.s1, a.s2).m /\ c = decimal_abs_add(a.s1, a.s2).carry
  OBVIOUS
<1>3. PICK w1 \in Nat, w2 \in Nat, w \in Nat, p \in Nat :
        /\ w1 = Value(a.s1) /\ w2 = Value(a.s2) /\ w = Value(sm) /\ p = Positions
        /\ sm \in Mantissas /\ c \in {0, 1} /\ w1 + w2 = w + Tens(c, p)
  <2>1. sm \in Mantissas /\ c \in {0, 1}
        /\ Value(a.s1) + Value(a.s2) = Value(sm) + Tens(c, Positions)
    BY <1>1, <1>2, SumValue
  <2>2. Value(a.s1) \in Nat /\ Value(a.s2) \in Nat /\ Value(sm) \in Nat /\ Positions \in Nat
    BY <1>1, <2>1, ValueBelow, PositionsIs
  <2> QED BY <2>1, <2>2
<1>4. PICK g \in Nat, x1 \in Nat, x2 \in Nat, y1 \in Nat, y2 \in Nat, o \in Nat, sl \in Nat :
        /\ g = a.e - E /\ x1 = Weighs(n1, E) /\ x2 = Weighs(n2, E)
        /\ y1 = Tens(w1, g) /\ y2 = Tens(w2, g) /\ o = Ten(g) /\ o > 0
        /\ x1 = y1 /\ y2 <= x2 /\ x2 < y2 + o
        /\ x2 = y2 \/ n1.e + n1.n - a.e = Positions
        /\ sl = Slack(h) /\ sl > 0
  <2>1. /\ a.e - E \in Nat /\ Tens(Value(a.s1), a.e - E) = Weighs(n1, E)
        /\ Tens(Value(a.s2), a.e - E) <= Weighs(n2, E)
        /\ Weighs(n2, E) < Tens(Value(a.s2), a.e - E) + Ten(a.e - E)
        /\ Weighs(n2, E) = Tens(Value(a.s2), a.e - E) \/ n1.e + n1.n - a.e = Positions
    BY AlignedWeighs
  <2>2. PICK g \in Nat : g = a.e - E
    BY <2>1
  <2>3. Tens(w1, g) \in Nat /\ Tens(w2, g) \in Nat /\ Ten(g) \in Nat /\ Ten(g) > 0
    BY TensNat, TenIs
  <2>4. Weighs(n1, E) \in Nat /\ Weighs(n2, E) \in Nat
    BY WeighsIs
  <2>5. h \in Int
    BY SizedIs, PositionsIs DEF Reach
  <2>6. Slack(h) \in Nat /\ Slack(h) > 0
    BY <2>5, SlackIs
  <2> QED BY <1>3, <2>1, <2>2, <2>3, <2>4, <2>6
<1>5. PICK H \in Nat, b1 \in Int : H = n1.e + n1.n - E /\ b1 = n1.e + n1.n - a.e /\ b1 + g = H
                        /\ h = H + 1 - p /\ x1 < Ten(H) /\ x2 < Ten(H)
  <2>1. PICK e1 \in Int, k1 \in Nat, e2 \in Int, k2 \in Nat, e \in Int :
          e1 = n1.e /\ k1 = n1.n /\ e2 = n2.e /\ k2 = n2.n /\ e = a.e
    <3>1. n1.e \in Int /\ n1.n \in 0 .. Positions
      BY SizedIs
    <3>2. n2.e \in Int /\ n2.n \in 0 .. Positions
      BY SizedIs
    <3> QED BY <1>1, <3>1, <3>2, PositionsIs
  <2>2. Weighs(n1, E) < Ten(n1.e + n1.n - E) /\ n1.e + n1.n - E \in Nat
    BY WeighsIs
  <2>3. Weighs(n2, E) < Ten(n2.e + n2.n - E) /\ n2.e + n2.n - E \in Nat
    BY WeighsIs
  <2>4. PICK H1 \in Nat, H2 \in Nat : H1 = e1 + k1 - E /\ H2 = e2 + k2 - E
    BY <2>1, <2>2, <2>3
  <2>5. H2 <= H1
    BY <2>1, <2>4 DEF Reach
  <2>6. Ten(H2) <= Ten(H1) /\ Ten(H1) \in Nat /\ Ten(H2) \in Nat
    BY <2>5, TenGrows, TenIs
  <2>7. x1 < Ten(H1) /\ x2 < Ten(H2)
    BY <1>4, <2>1, <2>2, <2>3, <2>4
  <2>8. x2 < Ten(H1)
    BY <2>6, <2>7
  <2>9. /\ e1 + k1 - e \in Int /\ (e1 + k1 - e) + g = H1
        /\ h = H1 + 1 - p
    <3>1. g = e - E
      BY <1>4, <2>1
    <3>2. h = e1 + k1 + 1 - p - E
      BY <1>3, <2>1 DEF Reach
    <3> QED BY <2>4, <3>1, <3>2
  <2> QED BY <2>1, <2>4, <2>7, <2>8, <2>9
<1>6. y1 + y2 = Tens(w1 + w2, g)
  <2>1. w1 \in Int /\ w2 \in Int /\ g \in Nat
    OBVIOUS
  <2>2. Tens(w1 + w2, g) = Tens(w1, g) + Tens(w2, g)
    BY <2>1, TensSum
  <2> QED BY <1>4, <2>2
<1>7. CASE c = 0
  <2>1. w1 + w2 = w
    <3>1. Tens(c, p) = 0
      BY <1>7, TensZero
    <3> QED BY <1>3, <3>1
  <2>2. R.d = [sign |-> a1.sign, e |-> a.e, n |-> decimal_num_digits(sm), m |-> sm]
    BY <1>2, <1>7 DEF Added, Number
  <2>3. Made(R.d) /\ R.d.sign = a1.sign
    BY <1>3, <2>2, MadeIs
  <2>4. Weighs(R.d, E) = Tens(w, g)
    BY <1>3, <1>4, <2>2 DEF Weighs
  <2>5. Weighs(R.d, E) = y1 + y2
    BY <1>6, <2>1, <2>4
  <2>6. x2 = y2 \/ o <= sl
    <3>1. CASE b1 = p
      <4>1. g <= h
        BY <1>5, <3>1
      <4>2. h \in Int
        BY <1>5
      <4> QED BY <1>4, <4>1, <4>2, SlackIs
    <3> QED BY <1>3, <1>4, <1>5, <3>1
  <2>7. x1 + x2 < (y1 + y2) + sl /\ y1 + y2 <= x1 + x2
    BY <1>4, <2>6
  <2> QED BY <1>4, <2>3, <2>5, <2>7
<1>8. CASE c = 1
  <2>1. PICK q \in Nat : q = p - 1 /\ q + 1 = p
    <3>1. Positions - 1 \in Nat
      BY TopDigit
    <3> QED BY <1>3, <3>1
  <2>2. PICK t \in Nat : t = Ten(q) /\ Tens(c, p) = 10 * t
    <3>1. Tens(1, q + 1) = 10 * Tens(1, q)
      BY TensNext
    <3> QED BY <1>8, <2>1, <3>1, TenIs
  <2>3. PICK m : m = decimal_shift_right(sm, 1)
    OBVIOUS
  <2>4. PICK v \in Nat : v = Value(m) /\ m \in Mantissas /\ 10 * v <= w /\ w < 10 * v + 10
    <3>1. 1 \in 0 .. Positions
      BY <1>3, <2>1
    <3>2. m \in Mantissas /\ Tens(Value(m), 1) <= Value(sm) /\ Value(sm) < Tens(Value(m) + 1, 1)
      BY <1>3, <2>3, <3>1, ShiftRightValue
    <3>3. PICK v \in Nat : v = Value(m)
      BY <3>2, ValueBelow
    <3>4. PICK v1 \in Nat : v1 = v + 1
      OBVIOUS
    <3>5. Tens(v, 1) = 10 * v /\ Tens(v1, 1) = 10 * v1
      BY TensFew
    <3> QED BY <1>3, <3>2, <3>3, <3>4, <3>5
  <2>5. v < t
    <3>1. w < Tens(1, p)
      BY <1>3, ValueBelow, TenIs
    <3> QED BY <1>8, <2>2, <2>4, <3>1
  <2>6. PICK r : r = [m EXCEPT ![Parts - 1] = @ + Base \div 10]
    OBVIOUS
  <2>7. r \in Mantissas /\ Value(r) = v + t /\ decimal_num_digits(r) = Positions
    BY <1>3, <2>1, <2>2, <2>4, <2>5, <2>6, CarryInFront, ZenonT(60)
  <2>8. a.e # MaxExponent /\ R.d = [sign |-> a1.sign, e |-> a.e + 1, n |-> Positions, m |-> r]
    <3>1. decimal_abs_add(a.s1, a.s2).carry # 0
      BY <1>2, <1>8
    <3>2. a.e # MaxExponent
      BY <3>1 DEF Added, Error
    <3> QED BY <1>2, <2>3, <2>6, <3>1, <3>2 DEF Added, Number
  <2>9. a.e + 1 \in MinExponent .. MaxExponent
    <3>1. MinExponent \in Int /\ MaxExponent \in Int
      BY DecimalAssumption
    <3> QED BY <2>8, <3>1
  <2>10. Made(R.d) /\ R.d.sign = a1.sign
    BY <2>7, <2>8, <2>9, MadeIs
  <2>11. PICK s \in Nat, z \in Nat : s = v + t /\ z = Tens(s, g + 1) /\ Weighs(R.d, E) = z
    <3>1. v + t \in Nat /\ g + 1 \in Nat /\ a.e + 1 - E = g + 1
      BY <1>1, <1>4
    <3>2. PICK s \in Nat : s = v + t
      BY <3>1
    <3>3. Tens(s, g + 1) \in Nat
      BY <3>1, TensNat
    <3>4. Weighs(R.d, E) = Tens(s, g + 1)
      BY <2>7, <2>8, <3>1, <3>2 DEF Weighs
    <3> QED BY <3>2, <3>3, <3>4
  <2>12. PICK i \in 0 .. 9 : w1 + w2 = 10 * s + i
    <3>1. (w1 + w2) - 10 * s \in 0 .. 9
      BY <1>3, <2>2, <2>4, <2>11
    <3> QED BY <3>1
  <2>13. y1 + y2 = z + Tens(i, g)
    <3>1. PICK s10 \in Nat : s10 = 10 * s
      OBVIOUS
    <3>2. Tens(s10 + i, g) = Tens(s10, g) + Tens(i, g)
      BY TensSum
    <3>3. Tens(Tens(s, 1), g) = Tens(s, 1 + g)
      BY TensTwice
    <3>4. Tens(s, 1) = s10 /\ 1 + g = g + 1
      BY <3>1, TensFew
    <3> QED BY <1>6, <2>11, <2>12, <3>1, <3>2, <3>3, <3>4
  <2>14. PICK ti \in Nat : ti = Tens(i, g) /\ ti <= 9 * o
    <3>0. i \in Nat /\ i \in Int /\ 9 \in Int /\ i <= 9
      OBVIOUS
    <3>1. Tens(i, g) \in Nat
      BY <3>0, TensNat
    <3>2. Tens(i, g) <= Tens(9, g)
      BY <3>0, TensAtMost
    <3>3. Tens(9, g) = 9 * o
      <4>1. Tens(1 + 1, g) = Tens(1, g) + Tens(1, g)
        BY TensSum
      <4>2. Tens(2 + 2, g) = Tens(2, g) + Tens(2, g)
        BY TensSum
      <4>3. Tens(4 + 4, g) = Tens(4, g) + Tens(4, g)
        BY TensSum
      <4>4. Tens(8 + 1, g) = Tens(8, g) + Tens(1, g)
        BY TensSum
      <4>5. Tens(1, g) = o
        BY <1>4, TenIs
      <4> QED BY <4>1, <4>2, <4>3, <4>4, <4>5
    <3> QED BY <3>1, <3>2, <3>3
  <2>15. 10 * o <= sl
    <3>1. y1 + y2 >= Ten(p + g)
      <4>1. 10 * t = Ten(p)
        BY <1>8, <2>2, TenIs
      <4>2. Tens(10 * t, g) = Ten(p + g)
        <5>1. Tens(Tens(1, p), g) = Tens(1, p + g)
          BY TensTwice
        <5>2. Ten(p) = Tens(1, p) /\ Ten(p + g) = Tens(1, p + g)
          BY TenIs
        <5> QED BY <4>1, <5>1, <5>2
      <4>3. 10 * t <= w1 + w2
        BY <1>3, <2>2
      <4>4. Tens(10 * t, g) <= Tens(w1 + w2, g)
        <5>1. 10 * t \in Int /\ w1 + w2 \in Int
          OBVIOUS
        <5> QED BY <4>3, <5>1, TensAtMost
      <4>5. Ten(p + g) \in Nat /\ Tens(w1 + w2, g) \in Nat
        <5>1. p + g \in Nat /\ w1 + w2 \in Nat
          OBVIOUS
        <5> QED BY <5>1, TenIs, TensNat
      <4> QED BY <1>6, <4>2, <4>4, <4>5
    <3>2. p + g <= H
      <4>1. SUFFICES ASSUME H < p + g PROVE FALSE
        OBVIOUS
      <4>2. PICK u \in Nat, uu \in Nat : u = Ten(H) /\ uu = Ten(p + g) /\ 10 * u <= uu
        <5>1. p + g \in Nat /\ H <= p + g
          BY <4>1
        <5>2. 10 * Ten(H) <= Ten(p + g)
          BY <4>1, <5>1, TenGrows
        <5> QED BY <5>1, <5>2, TenIs
      <4>3. x1 < u /\ x2 < u /\ uu <= y1 + y2
        BY <1>5, <3>1, <4>2
      <4> QED BY <1>4, <4>2, <4>3
    <3>3. PICK g1 \in Nat : g1 = g + 1 /\ g1 <= h
      BY <1>5, <3>2
    <3>4. h \in Int
      BY <1>5
    <3>5. Ten(g1) <= sl
      BY <1>4, <3>3, <3>4, SlackIs
    <3>6. Ten(g1) = 10 * o
      <4>1. Tens(1, g + 1) = 10 * Tens(1, g)
        BY TensNext
      <4> QED BY <1>4, <3>3, <4>1, TenIs
    <3> QED BY <3>5, <3>6
  <2>16. x1 + x2 < z + sl /\ z <= x1 + x2
    BY <1>4, <2>13, <2>14, <2>15
  <2> QED BY <1>4, <2>10, <2>11, <2>16
<1> QED BY <1>3, <1>7, <1>8

----------------------------------------------------------------------------
(* Differences.                                                           *)
Within(x, y, s) == x - y < s /\ y - x < s

LEMMA NoLimbsIs ==
  NoLimbs \in Mantissas /\ decimal_num_digits(NoLimbs) = 0 /\ Value(NoLimbs) = 0
<1>1. NoLimbs \in Mantissas
  <2>1. 0 \in 0 .. Base - 1
    BY BaseIs
  <2> QED BY <2>1 DEF NoLimbs, Mantissas
<1>2. \A i \in Limbs : NoLimbs[i] = 0
  BY DEF NoLimbs
<1>3. decimal_num_digits(NoLimbs) = 0
  BY <1>1, <1>2, HighestIs DEF Highest
<1>4. Value(NoLimbs) < Ten(0) /\ Value(NoLimbs) \in Nat
  BY <1>1, <1>3, ValueAtMost, ValueBelow
<1> QED BY <1>1, <1>3, <1>4, TenFew

LEMMA DifferenceWeighs ==
  ASSUME NEW n1, NEW n2, Sized(n1), Sized(n2), Reach(n2) <= Reach(n1),
         NEW a, Aligns(n1, n2, a.s1, a.s2, a.e), a.e \in MinExponent .. MaxExponent,
         NEW E \in Int, E <= n1.e, E <= n2.e,
         NEW R, R = Subtracted(n1, n2, a), E <= R.d.e,
         NEW h, h = Reach(n1) + 1 - Positions - E
  PROVE  /\ Made(R.d)
         /\ \/ R.d.sign = n1.sign /\ Within(Weighs(R.d, E), Weighs(n1, E) - Weighs(n2, E), Slack(h))
            \/ R.d.sign = n2.sign /\ Within(Weighs(R.d, E), Weighs(n2, E) - Weighs(n1, E), Slack(h))
            \/ Weighs(R.d, E) = 0 /\ Within(0, Weighs(n1, E) - Weighs(n2, E), Slack(h))
<1>1. a.s1 \in Mantissas /\ a.s2 \in Mantissas /\ a.e \in Int
  BY DEF Aligns
<1>2. PICK c \in Int : c = decimal_abs_cmp(a.s1, a.s2)
  BY <1>1, ComparesValues
<1>3. PICK w1 \in Nat, w2 \in Nat :
        /\ w1 = Value(a.s1) /\ w2 = Value(a.s2)
        /\ (c = 0 => w1 = w2) /\ (c < 0 => w1 < w2) /\ (c > 0 => w2 < w1)
  <2>1. Value(a.s1) \in Nat /\ Value(a.s2) \in Nat
    BY <1>1, ValueBelow
  <2> QED BY <1>1, <1>2, <2>1, ComparesValues
<1>4. PICK g \in Nat, x1 \in Nat, x2 \in Nat, y1 \in Nat, y2 \in Nat, o \in Nat, sl \in Nat :
        /\ g = a.e - E /\ x1 = Weighs(n1, E) /\ x2 = Weighs(n2, E)
        /\ y1 = Tens(w1, g) /\ y2 = Tens(w2, g) /\ o = Ten(g) /\ o > 0
        /\ x1 = y1 /\ y2 <= x2 /\ x2 < y2 + o
        /\ x2 = y2 \/ n1.e + n1.n - a.e = Positions
        /\ sl = Slack(h) /\ sl > 0 /\ h \in Int
  <2>1. /\ a.e - E \in Nat /\ Tens(Value(a.s1), a.e - E) = Weighs(n1, E)
        /\ Tens(Value(a.s2), a.e - E) <= Weighs(n2, E)
        /\ Weighs(n2, E) < Tens(Value(a.s2), a.e - E) + Ten(a.e - E)
        /\ Weighs(n2, E) = Tens(Value(a.s2), a.e - E) \/ n1.e + n1.n - a.e = Positions
    BY AlignedWeighs
  <2>2. PICK g \in Nat : g = a.e - E
    BY <2>1
  <2>3. Tens(w1, g) \in Nat /\ Tens(w2, g) \in Nat /\ Ten(g) \in Nat /\ Ten(g) > 0
    BY TensNat, TenIs
  <2>4. Weighs(n1, E) \in Nat /\ Weighs(n2, E) \in Nat
    BY WeighsIs
  <2>5. h \in Int
    BY SizedIs, PositionsIs DEF Reach
  <2>6. Slack(h) \in Nat /\ Slack(h) > 0
    BY <2>5, SlackIs
  <2> QED BY <1>3, <2>1, <2>2, <2>3, <2>4, <2>5, <2>6
<1>5. y2 <= x2 /\ x2 - y2 < sl
  <2>1. CASE n1.e + n1.n - a.e = Positions
    <3>1. PICK e1 \in Int, k1 \in Nat, e \in Int, p \in Nat :
            e1 = n1.e /\ k1 = n1.n /\ e = a.e /\ p = Positions
      BY <1>1, SizedIs, PositionsIs
    <3>2. g = e - E /\ e1 + k1 - e = p /\ h = e1 + k1 + 1 - p - E
      BY <1>4, <2>1, <3>1 DEF Reach
    <3>3. g <= h
      BY <3>2
    <3>4. o <= sl
      BY <1>4, <3>3, SlackIs
    <3> QED BY <1>4, <3>4
  <2> QED BY <1>4, <2>1
<1>6. n1.sign \in {1, -1} /\ n2.sign \in {1, -1}
  BY SizedIs
<1>7. CASE c = 0
  <2>1. R.d = [sign |-> 1, e |-> 0, n |-> 0, m |-> NoLimbs]
    BY <1>2, <1>7 DEF Subtracted, Number
  <2>2. Made(R.d)
    BY <2>1, NoLimbsIs, ExponentsIs, MadeIs
  <2>3. Weighs(R.d, E) = 0
    <3>1. 0 - E \in Nat
      BY <2>1
    <3> QED BY <2>1, <3>1, NoLimbsIs, TensZero DEF Weighs
  <2>4. y1 = y2
    BY <1>3, <1>4, <1>7
  <2>5. Within(0, x1 - x2, sl)
    BY <1>4, <1>5, <2>4 DEF Within
  <2> QED BY <1>4, <2>2, <2>3, <2>5
<1>8. CASE c > 0
  <2>1. PICK m : m = decimal_abs_sub(a.s1, a.s2)
    OBVIOUS
  <2>2. R.d = [sign |-> n1.sign, e |-> a.e, n |-> decimal_num_digits(m), m |-> m]
    BY <1>2, <1>8, <2>1 DEF Subtracted, Number
  <2>3. m \in Mantissas /\ Value(m) = w1 - w2
    BY <1>1, <1>3, <1>8, <2>1, DifferenceValue
  <2>4. Made(R.d)
    BY <1>6, <2>2, <2>3, MadeIs
  <2>5. PICK w \in Nat : w = w1 - w2 /\ w1 = w2 + w
    BY <1>3, <1>8
  <2>6. Weighs(R.d, E) = Tens(w, g)
    BY <1>4, <2>2, <2>3, <2>5 DEF Weighs
  <2>7. Tens(w2 + w, g) = Tens(w2, g) + Tens(w, g)
    <3>1. w2 \in Int /\ w \in Int /\ g \in Nat
      OBVIOUS
    <3> QED BY <3>1, TensSum, ZenonT(60)
  <2>8. PICK z \in Nat : z = Weighs(R.d, E) /\ y1 = y2 + z
    BY <1>4, <2>5, <2>6, <2>7, TensNat
  <2>9. Within(z, x1 - x2, sl)
    BY <1>4, <1>5, <2>8 DEF Within
  <2> QED BY <1>4, <2>2, <2>4, <2>8, <2>9
<1>9. CASE c < 0
  <2>1. PICK m : m = decimal_abs_sub(a.s2, a.s1)
    OBVIOUS
  <2>2. R.d = [sign |-> n2.sign, e |-> a.e, n |-> decimal_num_digits(m), m |-> m]
    BY <1>2, <1>9, <2>1 DEF Subtracted, Number
  <2>3. m \in Mantissas /\ Value(m) = w2 - w1
    BY <1>1, <1>3, <1>9, <2>1, DifferenceValue
  <2>4. Made(R.d)
    BY <1>6, <2>2, <2>3, MadeIs
  <2>5. PICK w \in Nat : w = w2 - w1 /\ w2 = w1 + w
    BY <1>3, <1>9
  <2>6. Weighs(R.d, E) = Tens(w, g)
    BY <1>4, <2>2, <2>3, <2>5 DEF Weighs
  <2>7. Tens(w1 + w, g) = Tens(w1, g) + Tens(w, g)
    <3>1. w1 \in Int /\ w \in Int /\ g \in Nat
      OBVIOUS
    <3> QED BY <3>1, TensSum
  <2>8. PICK z \in Nat : z = Weighs(R.d, E) /\ y2 = y1 + z
    BY <1>4, <2>5, <2>6, <2>7, TensNat
  <2>9. Within(z, x2 - x1, sl)
    BY <1>4, <1>5, <2>8 DEF Within
  <2> QED BY <1>4, <2>2, <2>4, <2>8, <2>9
<1> QED BY <1>7, <1>8, <1>9

(* The operand that is too small to count.                                 *)
LEMMA SmallWeighs ==
  ASSUME NEW n1, NEW n2, Sized(n1), Sized(n2), TooSmall(n1, n2),
         NEW E \in Int, E <= n2.e, NEW h, h = Reach(n1) + 1 - Positions - E
  PROVE  h \in Int /\ Weighs(n2, E) < Slack(h)
<1>1. PICK e1 \in Int, k1 \in Nat, e2 \in Int, k2 \in Nat, p \in Nat :
        e1 = n1.e /\ k1 = n1.n /\ e2 = n2.e /\ k2 = n2.n /\ p = Positions
  <2>1. n1.e \in Int /\ n1.n \in 0 .. Positions
    BY SizedIs
  <2>2. n2.e \in Int /\ n2.n \in 0 .. Positions
    BY SizedIs
  <2> QED BY <2>1, <2>2, PositionsIs
<1>2. h = e1 + k1 + 1 - p - E
  BY <1>1 DEF Reach
<1>3. e1 - e2 > p - k1 /\ e1 - e2 - (p - k1) > k2
  BY <1>1 DEF TooSmall
<1>4. Weighs(n2, E) \in Nat /\ n2.e + n2.n - E \in Nat /\ Weighs(n2, E) < Ten(n2.e + n2.n - E)
  BY WeighsIs
<1>5. PICK H \in Nat : H = e2 + k2 - E
  BY <1>1, <1>4
<1>6. H <= h /\ h \in Int
  BY <1>2, <1>3, <1>5
<1>7. Ten(H) <= Slack(h) /\ Ten(H) \in Nat /\ Slack(h) \in Nat
  BY <1>6, SlackIs, TenIs
<1>8. Weighs(n2, E) < Ten(H)
  BY <1>1, <1>4, <1>5
<1> QED BY <1>4, <1>6, <1>7, <1>8

----------------------------------------------------------------------------
(* Signs, and the operands either way round.                              *)
Signed(d, E) == d.sign * Weighs(d, E)

LEMMA SignedIs ==
  ASSUME NEW d, d.sign \in {1, -1}, NEW E, Weighs(d, E) \in Nat
  PROVE  /\ Signed(d, E) \in Int
         /\ d.sign = 1 => Signed(d, E) = Weighs(d, E)
         /\ d.sign = -1 => Signed(d, E) = -Weighs(d, E)
<1>1. CASE d.sign = 1 BY <1>1 DEF Signed
<1>2. CASE d.sign = -1 BY <1>2 DEF Signed
<1> QED BY <1>1, <1>2

(* What an operation on two numbers, the first of which reaches higher,    *)
(* makes of them.                                                          *)
Combined(n1, n2, a1, plus, old) ==
  IF TooSmall(n1, n2) THEN [ret |-> "ok", d |-> n1]
  ELSE IF (n1.sign # n2.sign) = plus THEN Subtracted(n1, n2, Aligned(n1, n2))
  ELSE Added(a1, Aligned(n1, n2), old)

Keeps(n1, n2, d) ==
  /\ Sized(d)
  /\ n1.n = decimal_num_digits(n1.m) /\ n2.n = decimal_num_digits(n2.m) => d.n = decimal_num_digits(d.m)

LEMMA CombinedIs ==
  ASSUME NEW n1, NEW n2, Sized(n1), Sized(n2), Reach(n2) <= Reach(n1),
         NEW a1, a1.sign \in {n1.sign, n2.sign}, NEW plus \in BOOLEAN, NEW old,
         NEW R, R = Combined(n1, n2, a1, plus, old), R.ret = "ok",
         NEW E \in Int, E <= n1.e, E <= n2.e, E <= R.d.e,
         NEW h, h = Reach(n1) + 1 - Positions - E
  PROVE  /\ Keeps(n1, n2, R.d)
         /\ plus => Within(Signed(R.d, E), Signed(n1, E) + Signed(n2, E), Slack(h))
         /\ ~ plus => \/ Within(Signed(R.d, E), Signed(n1, E) - Signed(n2, E), Slack(h))
                      \/ Within(-Signed(R.d, E), Signed(n1, E) - Signed(n2, E), Slack(h))
<1>1. n1.sign \in {1, -1} /\ n2.sign \in {1, -1} /\ a1.sign \in {1, -1}
  BY SizedIs
<1>2. PICK x1 \in Nat, x2 \in Nat, sl \in Nat : x1 = Weighs(n1, E) /\ x2 = Weighs(n2, E) /\ sl = Slack(h)
  <2>1. Weighs(n1, E) \in Nat /\ Weighs(n2, E) \in Nat
    BY WeighsIs
  <2>2. h \in Int
    BY SizedIs, PositionsIs DEF Reach
  <2> QED BY <2>1, <2>2, SlackIs
<1>3. PICK v1 \in Int, v2 \in Int : /\ v1 = Signed(n1, E) /\ v2 = Signed(n2, E)
                                    /\ (n1.sign = 1 => v1 = x1) /\ (n1.sign = -1 => v1 = -x1)
                                    /\ (n2.sign = 1 => v2 = x2) /\ (n2.sign = -1 => v2 = -x2)
  BY <1>1, <1>2, SignedIs
<1>4. Sized(R.d)
  <2>1. CASE TooSmall(n1, n2)
    BY <2>1 DEF Combined
  <2>2. CASE ~ TooSmall(n1, n2)
    <3>1. PICK a : a = Aligned(n1, n2)
      OBVIOUS
    <3>2. Aligns(n1, n2, a.s1, a.s2, a.e) /\ a.e \in MinExponent .. MaxExponent
      BY <2>2, <3>1, AlignedIs
    <3>3. CASE (n1.sign # n2.sign) = plus
      <4>1. R = Subtracted(n1, n2, a)
        BY <2>2, <3>1, <3>3 DEF Combined
      <4>2. Made(R.d)
        BY <3>2, <4>1, DifferenceWeighs
      <4> QED BY <4>2 DEF Made
    <3>4. CASE (n1.sign # n2.sign) # plus
      <4>1. R = Added(a1, a, old)
        BY <2>2, <3>1, <3>4 DEF Combined
      <4>2. Made(R.d)
        BY <1>1, <3>2, <4>1, SumWeighs
      <4> QED BY <4>2 DEF Made
    <3> QED BY <3>3, <3>4
  <2> QED BY <2>1, <2>2
<1>5. PICK x \in Nat, v \in Int : /\ x = Weighs(R.d, E) /\ v = Signed(R.d, E)
                                  /\ (R.d.sign = 1 => v = x) /\ (R.d.sign = -1 => v = -x)
                                  /\ R.d.sign \in {1, -1}
  <2>1. Weighs(R.d, E) \in Nat
    BY <1>4, WeighsIs
  <2>2. R.d.sign \in {1, -1}
    BY <1>4, SizedIs
  <2> QED BY <2>1, <2>2, SignedIs
<1>6. /\ Keeps(n1, n2, R.d)
      /\ plus => Within(v, v1 + v2, sl)
      /\ ~ plus => Within(v, v1 - v2, sl) \/ Within(-v, v1 - v2, sl)
  <2>1. CASE TooSmall(n1, n2)
    <3>1. R.d = n1
      BY <2>1 DEF Combined
    <3>2. x2 < sl
      BY <1>2, <2>1, SmallWeighs
    <3>3. v = v1
      BY <1>3, <1>5, <3>1
    <3>4. Within(v, v1 + v2, sl) /\ Within(v, v1 - v2, sl)
      BY <1>1, <1>3, <3>2, <3>3 DEF Within
    <3> QED BY <1>4, <3>1, <3>4 DEF Keeps
  <2>2. CASE ~ TooSmall(n1, n2)
    <3>1. PICK a : a = Aligned(n1, n2)
      OBVIOUS
    <3>2. Aligns(n1, n2, a.s1, a.s2, a.e) /\ a.e \in MinExponent .. MaxExponent
      BY <2>2, <3>1, AlignedIs
    <3>3. CASE (n1.sign # n2.sign) = plus
      <4>1. R = Subtracted(n1, n2, a)
        BY <2>2, <3>1, <3>3 DEF Combined
      <4>2. /\ Made(R.d)
            /\ \/ R.d.sign = n1.sign /\ Within(x, x1 - x2, sl)
               \/ R.d.sign = n2.sign /\ Within(x, x2 - x1, sl)
               \/ x = 0 /\ Within(0, x1 - x2, sl)
        <5>1. /\ Made(R.d)
              /\ \/ R.d.sign = n1.sign /\ Within(Weighs(R.d, E), Weighs(n1, E) - Weighs(n2, E), Slack(h))
                 \/ R.d.sign = n2.sign /\ Within(Weighs(R.d, E), Weighs(n2, E) - Weighs(n1, E), Slack(h))
                 \/ Weighs(R.d, E) = 0 /\ Within(0, Weighs(n1, E) - Weighs(n2, E), Slack(h))
          BY <3>2, <4>1, DifferenceWeighs
        <5> QED BY <1>2, <1>5, <5>1
      <4>3. CASE plus
        <5>1. n1.sign # n2.sign
          BY <3>3, <4>3
        <5>2. Within(v, v1 + v2, sl)
          BY <1>1, <1>3, <1>5, <4>2, <5>1 DEF Within
        <5> QED BY <4>2, <4>3, <5>2 DEF Keeps, Made
      <4>4. CASE ~ plus
        <5>1. n1.sign = n2.sign
          BY <3>3, <4>4
        <5>2. Within(v, v1 - v2, sl) \/ Within(-v, v1 - v2, sl)
          BY <1>1, <1>3, <1>5, <4>2, <5>1 DEF Within
        <5> QED BY <4>2, <4>4, <5>2 DEF Keeps, Made
      <4> QED BY <4>3, <4>4
    <3>4. CASE (n1.sign # n2.sign) # plus
      <4>1. R = Added(a1, a, old)
        BY <2>2, <3>1, <3>4 DEF Combined
      <4>2. Made(R.d) /\ R.d.sign = a1.sign /\ x <= x1 + x2 /\ x1 + x2 < x + sl
        <5>1. /\ Made(R.d) /\ R.d.sign = a1.sign
              /\ Weighs(R.d, E) <= Weighs(n1, E) + Weighs(n2, E)
              /\ Weighs(n1, E) + Weighs(n2, E) < Weighs(R.d, E) + Slack(h)
          BY <1>1, <3>2, <4>1, SumWeighs
        <5> QED BY <1>2, <1>5, <5>1
      <4>3. CASE plus
        <5>1. n1.sign = n2.sign
          BY <3>4, <4>3
        <5>2. Within(v, v1 + v2, sl)
          BY <1>1, <1>3, <1>5, <4>2, <5>1 DEF Within
        <5> QED BY <4>2, <4>3, <5>2 DEF Keeps, Made
      <4>4. CASE ~ plus
        <5>1. n1.sign # n2.sign
          BY <3>4, <4>4
        <5>2. Within(v, v1 - v2, sl) \/ Within(-v, v1 - v2, sl)
          BY <1>1, <1>3, <1>5, <4>2, <5>1 DEF Within
        <5> QED BY <4>2, <4>4, <5>2 DEF Keeps, Made
      <4> QED BY <4>3, <4>4
    <3> QED BY <3>3, <3>4
  <2> QED BY <2>1, <2>2
<1> QED BY <1>2, <1>3, <1>5, <1>6

LEMMA HigherReach ==
  ASSUME NEW x \in Int, NEW y \in Int
  PROVE  Max({x, y}) \in Int /\ (y <= x => Max({x, y}) = x) /\ (x <= y => Max({x, y}) = y)
<1>1. ASSUME y <= x PROVE Max({x, y}) = x
  <2>1. x \in {x, y} /\ \A z \in {x, y} : x >= z
    BY <1>1
  <2>2. \A u \in {x, y} : (\A z \in {x, y} : u >= z) => u = x
    BY <1>1
  <2> QED BY <2>1, <2>2 DEF Max
<1>2. ASSUME x <= y PROVE Max({x, y}) = y
  <2>1. y \in {x, y} /\ \A z \in {x, y} : y >= z
    BY <1>2
  <2>2. \A u \in {x, y} : (\A z \in {x, y} : u >= z) => u = y
    BY <1>2
  <2> QED BY <2>1, <2>2 DEF Max
<1> QED BY <1>1, <1>2

(* What decimal_add_sub makes of any two numbers of the right size.        *)
LEMMA SumIs ==
  ASSUME NEW a, NEW b, Sized(a), Sized(b), NEW plus \in BOOLEAN, NEW old,
         NEW R, R = decimal_add_sub(a, b, plus, old), R.ret = "ok",
         NEW E \in Int, E <= a.e, E <= b.e, E <= R.d.e,
         NEW h, h = Max({Reach(a), Reach(b)}) + 1 - Positions - E
  PROVE  /\ Keeps(a, b, R.d)
         /\ plus => Within(Signed(R.d, E), Signed(a, E) + Signed(b, E), Slack(h))
         /\ ~ plus => \/ Within(Signed(R.d, E), Signed(a, E) - Signed(b, E), Slack(h))
                      \/ Within(-Signed(R.d, E), Signed(a, E) - Signed(b, E), Slack(h))
<1>1. PICK ra \in Int, rb \in Int : ra = Reach(a) /\ rb = Reach(b)
  <2>1. a.e \in Int /\ a.n \in 0 .. Positions
    BY SizedIs
  <2>2. b.e \in Int /\ b.n \in 0 .. Positions
    BY SizedIs
  <2> QED BY <2>1, <2>2, PositionsIs DEF Reach
<1>2. h \in Int /\ Slack(h) \in Nat /\ Slack(h) > 0
  <2>1. h \in Int
    BY <1>1, HigherReach, PositionsIs
  <2> QED BY <2>1, SlackIs
<1>3. PICK xa \in Nat, xb \in Nat, va \in Int, vb \in Int :
        /\ xa = Weighs(a, E) /\ xb = Weighs(b, E) /\ va = Signed(a, E) /\ vb = Signed(b, E)
        /\ (a.sign = 1 => va = xa) /\ (a.sign = -1 => va = -xa) /\ a.sign \in {1, -1}
        /\ (b.sign = 1 => vb = xb) /\ (b.sign = -1 => vb = -xb) /\ b.sign \in {1, -1}
  <2>1. Weighs(a, E) \in Nat /\ a.sign \in {1, -1}
    BY WeighsIs, SizedIs
  <2>2. Weighs(b, E) \in Nat /\ b.sign \in {1, -1}
    BY WeighsIs, SizedIs
  <2> QED BY <2>1, <2>2, SignedIs
<1>4. \A d : Sized(d) /\ d.n = 0 /\ E <= d.e => Weighs(d, E) = 0
  <2> TAKE d
  <2> HAVE Sized(d) /\ d.n = 0 /\ E <= d.e
  <2>1. Value(d.m) \in Nat /\ Value(d.m) < Ten(0) /\ d.e \in Int
    BY SizedIs
  <2>2. Value(d.m) = 0 /\ d.e - E \in Nat
    BY <2>1, TenFew
  <2> QED BY <2>2, TensZero DEF Weighs
<1>5. CASE a.n = 0
  <2>1. R.d = [sign |-> IF plus THEN b.sign ELSE -b.sign, e |-> b.e, n |-> b.n, m |-> b.m]
    BY <1>5 DEF decimal_add_sub, Number
  <2>2. Sized(R.d)
    BY <1>3, <2>1 DEF Sized
  <2>3. Keeps(a, b, R.d)
    BY <2>1, <2>2 DEF Keeps
  <2>4. va = 0
    BY <1>3, <1>4, <1>5
  <2>5. PICK vr \in Int : vr = Signed(R.d, E) /\ vr = IF plus THEN vb ELSE -vb
    <3>1. Weighs(R.d, E) = xb
      BY <1>3, <2>1 DEF Weighs
    <3>2. R.d.sign = IF plus THEN b.sign ELSE -b.sign
      BY <2>1
    <3>3. R.d.sign \in {1, -1}
      BY <1>3, <3>2
    <3>4. /\ Signed(R.d, E) \in Int
          /\ R.d.sign = 1 => Signed(R.d, E) = xb
          /\ R.d.sign = -1 => Signed(R.d, E) = -xb
      BY <3>1, <3>3, SignedIs
    <3> QED BY <1>3, <3>2, <3>4
  <2>6. plus => Within(vr, va + vb, Slack(h))
    BY <1>2, <2>4, <2>5 DEF Within
  <2>7. ~ plus => Within(vr, va - vb, Slack(h))
    BY <1>2, <2>4, <2>5 DEF Within
  <2> QED BY <1>3, <2>3, <2>5, <2>6, <2>7
<1>6. CASE a.n # 0 /\ b.n = 0
  <2>1. R.d = a
    BY <1>6 DEF decimal_add_sub
  <2>2. Keeps(a, b, R.d)
    BY <2>1 DEF Keeps
  <2>3. vb = 0
    BY <1>3, <1>4, <1>6
  <2>4. Within(va, va + vb, Slack(h)) /\ Within(va, va - vb, Slack(h))
    BY <1>2, <2>3 DEF Within
  <2> QED BY <1>3, <2>1, <2>2, <2>4
<1>7. CASE a.n # 0 /\ b.n # 0 /\ ~ ra < rb
  <2>1. R = Combined(a, b, a, plus, old)
    BY <1>1, <1>7 DEF decimal_add_sub, Combined
  <2>2. Reach(b) <= Reach(a)
    BY <1>1, <1>7
  <2>3. h = Reach(a) + 1 - Positions - E
    BY <1>1, <2>2, HigherReach
  <2> QED BY <2>1, <2>2, <2>3, CombinedIs
<1>8. CASE a.n # 0 /\ b.n # 0 /\ ra < rb
  <2>1. R = Combined(b, a, a, plus, old)
    BY <1>1, <1>8 DEF decimal_add_sub, Combined
  <2>2. Reach(a) <= Reach(b)
    BY <1>1, <1>8
  <2>3. h = Reach(b) + 1 - Positions - E
    BY <1>1, <2>2, HigherReach
  <2>4. /\ Keeps(b, a, R.d)
        /\ plus => Within(Signed(R.d, E), Signed(b, E) + Signed(a, E), Slack(h))
        /\ ~ plus => \/ Within(Signed(R.d, E), Signed(b, E) - Signed(a, E), Slack(h))
                     \/ Within(-Signed(R.d, E), Signed(b, E) - Signed(a, E), Slack(h))
    BY <2>1, <2>2, <2>3, CombinedIs
  <2>5. PICK vr \in Int : vr = Signed(R.d, E)
    <3>1. Sized(R.d)
      BY <2>4 DEF Keeps
    <3>2. Weighs(R.d, E) \in Nat /\ R.d.sign \in {1, -1}
      BY <3>1, WeighsIs, SizedIs
    <3> QED BY <3>2, SignedIs
  <2>6. PICK s \in Nat : s = Slack(h)
    BY <1>2
  <2>7. plus => Within(vr, va + vb, s)
    <3>1. vb + va = va + vb
      OBVIOUS
    <3>2. plus => Within(vr, vb + va, s)
      BY <1>3, <2>4, <2>5, <2>6
    <3> QED BY <3>1, <3>2
  <2>8. ~ plus => Within(vr, va - vb, s) \/ Within(-vr, va - vb, s)
    <3>1. Within(vr, vb - va, s) => Within(-vr, va - vb, s)
      BY DEF Within
    <3>2. Within(-vr, vb - va, s) => Within(vr, va - vb, s)
      BY DEF Within
    <3>3. ~ plus => Within(vr, vb - va, s) \/ Within(-vr, vb - va, s)
      BY <1>3, <2>4, <2>5, <2>6
    <3> QED BY <3>1, <3>2, <3>3
  <2>9. Keeps(a, b, R.d)
    BY <2>4 DEF Keeps
  <2> QED BY <1>3, <2>5, <2>6, <2>7, <2>8, <2>9
<1> QED BY <1>1, <1>5, <1>6, <1>7, <1>8

----------------------------------------------------------------------------
(* The theorems about sums.                                               *)
LEMMA SumExponent ==
  ASSUME NEW a, NEW b, Sized(a), Sized(b), NEW plus \in BOOLEAN, NEW old,
         NEW R, R = decimal_add_sub(a, b, plus, old), R.ret = "ok"
  PROVE  R.d.e \in Int
<1>1. PICK n1, n2 : /\ n1 = (IF Reach(a) < Reach(b) THEN b ELSE a)
                    /\ n2 = (IF Reach(a) < Reach(b) THEN a ELSE b)
  OBVIOUS
<1>2. Reach(a) \in Int /\ Reach(b) \in Int
  <2>1. a.e \in Int /\ a.n \in 0 .. Positions
    BY SizedIs
  <2>2. b.e \in Int /\ b.n \in 0 .. Positions
    BY SizedIs
  <2> QED BY <2>1, <2>2, PositionsIs DEF Reach
<1>3. Sized(n1) /\ Sized(n2) /\ Reach(n2) <= Reach(n1)
  BY <1>1, <1>2
<1>4. n1.e \in Int
  BY <1>3, SizedIs
<1>5. a.e \in Int /\ b.e \in Int
  BY SizedIs
<1>6. PICK aligned : aligned = Aligned(n1, n2)
  OBVIOUS
<1>7. CASE a.n = 0
  BY <1>5, <1>7 DEF decimal_add_sub, Number
<1>8. CASE a.n # 0 /\ b.n = 0
  BY <1>5, <1>8 DEF decimal_add_sub
<1>9. CASE a.n # 0 /\ b.n # 0
  <2>1. R = Combined(n1, n2, a, plus, old)
    BY <1>1, <1>9 DEF decimal_add_sub, Combined
  <2>2. CASE TooSmall(n1, n2)
    BY <1>4, <2>1, <2>2 DEF Combined
  <2>3. CASE ~ TooSmall(n1, n2)
    <3>1. aligned.e \in Int
      BY <1>3, <1>6, <2>3, AlignedIs DEF Aligns
    <3>2. CASE (n1.sign # n2.sign) = plus
      <4>1. R = Subtracted(n1, n2, aligned)
        BY <1>6, <2>1, <2>3, <3>2 DEF Combined
      <4> QED BY <3>1, <4>1 DEF Subtracted, Number
    <3>3. CASE (n1.sign # n2.sign) # plus
      <4>1. R = Added(a, aligned, old)
        BY <1>6, <2>1, <2>3, <3>3 DEF Combined
      <4>2. R.d.e \in {aligned.e, aligned.e + 1}
        BY <4>1 DEF Added, Number, Error
      <4> QED BY <3>1, <4>2
    <3> QED BY <3>2, <3>3
  <2> QED BY <2>2, <2>3
<1> QED BY <1>7, <1>8, <1>9

LEMMA LeastOfThree ==
  ASSUME NEW x \in Int, NEW y \in Int, NEW z \in Int
  PROVE  /\ Min({x, y, z}) \in Int /\ Min({x, y, z}) <= x /\ Min({x, y, z}) <= y /\ Min({x, y, z}) <= z
<1>1. PICK u \in {x, y, z} : \A w \in {x, y, z} : u <= w
  <2>1. CASE x <= y /\ x <= z BY <2>1
  <2>2. CASE y <= x /\ y <= z BY <2>2
  <2>3. CASE z <= x /\ z <= y BY <2>3
  <2> QED BY <2>1, <2>2, <2>3
<1>2. \A v \in {x, y, z} : (\A w \in {x, y, z} : v <= w) => v = u
  BY <1>1
<1>3. Min({x, y, z}) = u
  BY <1>1, <1>2 DEF Min
<1> QED BY <1>1, <1>3

LEMMA WorthIs ==
  ASSUME NEW d, Sized(d), LastPlace \in Int, LastPlace <= d.e
  PROVE  Worth(d) = Signed(d, LastPlace) /\ Signed(d, LastPlace) \in Int
<1>1. PICK v \in Nat, g \in Nat, s \in {1, -1} :
        v = Value(d.m) /\ g = d.e - LastPlace /\ s = d.sign
  <2>1. Value(d.m) \in Nat /\ d.e \in Int /\ d.sign \in {1, -1}
    BY SizedIs
  <2>2. d.e - LastPlace \in Nat
    BY <2>1
  <2> QED BY <2>1, <2>2
<1>2. Worth(d) = Tens(s * v, g) /\ Signed(d, LastPlace) = s * Tens(v, g)
  BY <1>1, WholeIsValue DEF Worth, Signed, Weighs
<1>3. Tens(v, g) \in Nat
  BY TensNat
<1>4. CASE s = 1
  <2>1. s * v = v
    BY <1>4
  <2> QED BY <1>2, <1>3, <1>4, <2>1
<1>5. CASE s = -1
  <2>1. s * v = -v
    BY <1>5
  <2>2. Tens(-v, g) = -Tens(v, g)
    BY TensNegative
  <2> QED BY <1>2, <1>3, <1>5, <2>1, <2>2
<1> QED BY <1>4, <1>5

LEMMA NearIs ==
  ASSUME NEW x \in Int, NEW y \in Int, NEW place, LastPlace \in Int, NEW h \in Int,
         h = place - LastPlace, Within(x, y, Slack(h))
  PROVE  Near(x, y, place)
<1>1. PICK s \in Nat : s = Slack(h)
  BY SlackIs
<1>2. Magnitude(x - y) < s
  BY <1>1 DEF Within, Magnitude
<1> QED BY <1>1, <1>2 DEF Near, Slack

(* Where a sum comes from.                                                 *)
Summed(name, plus) ==
  op = name => \E old : /\ ret = decimal_add_sub(d1, d2, plus, old).ret
                        /\ d3 = decimal_add_sub(d1, d2, plus, old).d
SumsMade == Summed("add", TRUE) /\ Summed("sub", FALSE)

LEMMA SumsMadeAlways == DecimalSpec => []SumsMade
<1>1. DecimalInit => SumsMade
  BY DEF DecimalInit, SumsMade, Summed
<1>2. SumsMade /\ [DecimalNext]_decimalVars => SumsMade'
  <2> SUFFICES ASSUME SumsMade, [DecimalNext]_decimalVars PROVE SumsMade'
    OBVIOUS
  <2>1. CASE Enter
    BY <2>1 DEF Enter, SumsMade, Summed
  <2>2. CASE Reuse
    BY <2>2 DEF Reuse, SumsMade, Summed
  <2>3. CASE Add
    BY <2>3 DEF Add, Computes, SumsMade, Summed
  <2>4. CASE Sub
    BY <2>4 DEF Sub, Computes, SumsMade, Summed
  <2>5. CASE Mul
    BY <2>5 DEF Mul, Computes, SumsMade, Summed
  <2>6. CASE Div
    BY <2>6 DEF Div, Computes, SumsMade, Summed
  <2>7. CASE Cmp
    BY <2>7 DEF Cmp, SumsMade, Summed
  <2>8. CASE UNCHANGED decimalVars
    BY <2>8 DEF decimalVars, SumsMade, Summed
  <2> QED BY <2>1, <2>2, <2>3, <2>4, <2>5, <2>6, <2>7, <2>8 DEF DecimalNext
<1> QED BY <1>1, <1>2, PTL DEF DecimalSpec

LEMMA SumPrecise ==
  ASSUME SumsMade, Sized(d1), Sized(d2), NEW name, NEW plus \in BOOLEAN,
         Summed(name, plus), Succeeded(name),
         NEW place, place = Max({Reach(d1), Reach(d2)}) + 1 - Positions
  PROVE  /\ Keeps(d1, d2, d3)
         /\ plus => Near(Worth(d3), Worth(d1) + Worth(d2), place)
         /\ ~ plus => \/ Near(Worth(d3), Worth(d1) - Worth(d2), place)
                      \/ Near(-Worth(d3), Worth(d1) - Worth(d2), place)
<1>1. PICK old : /\ ret = decimal_add_sub(d1, d2, plus, old).ret
                 /\ d3 = decimal_add_sub(d1, d2, plus, old).d
  BY DEF Summed, Succeeded
<1>2. PICK R : R = decimal_add_sub(d1, d2, plus, old) /\ R.ret = "ok" /\ R.d = d3
  BY <1>1 DEF Succeeded
<1>3. d3.e \in Int /\ d1.e \in Int /\ d2.e \in Int
  BY <1>2, SumExponent, SizedIs
<1>4. PICK E \in Int : E = LastPlace /\ E <= d1.e /\ E <= d2.e /\ E <= d3.e
  BY <1>3, LeastOfThree DEF LastPlace
<1>5. PICK r \in Int, h \in Int : r = Max({Reach(d1), Reach(d2)}) /\ h = place - E
  <2>1. d1.n \in 0 .. Positions /\ d2.n \in 0 .. Positions
    BY SizedIs
  <2>2. Reach(d1) \in Int /\ Reach(d2) \in Int
    BY <1>3, <2>1, PositionsIs DEF Reach
  <2>3. Max({Reach(d1), Reach(d2)}) \in Int
    BY <2>2, HigherReach
  <2>4. place - E \in Int
    BY <2>3, PositionsIs
  <2> QED BY <2>3, <2>4
<1>6. /\ Keeps(d1, d2, d3)
      /\ plus => Within(Signed(d3, E), Signed(d1, E) + Signed(d2, E), Slack(h))
      /\ ~ plus => \/ Within(Signed(d3, E), Signed(d1, E) - Signed(d2, E), Slack(h))
                   \/ Within(-Signed(d3, E), Signed(d1, E) - Signed(d2, E), Slack(h))
  <2>1. h = Max({Reach(d1), Reach(d2)}) + 1 - Positions - E
    <3>1. place = r + 1 - Positions
      BY <1>5
    <3> QED BY <1>5, <3>1, PositionsIs
  <2> QED BY <1>2, <1>4, <2>1, SumIs
<1>7. Sized(d3)
  BY <1>6 DEF Keeps
<1>8. PICK v1 \in Int, v2 \in Int, v3 \in Int :
        /\ v1 = Worth(d1) /\ v2 = Worth(d2) /\ v3 = Worth(d3)
        /\ v1 = Signed(d1, E) /\ v2 = Signed(d2, E) /\ v3 = Signed(d3, E)
  <2>1. Worth(d1) = Signed(d1, E) /\ Signed(d1, E) \in Int
    BY <1>4, WorthIs
  <2>2. Worth(d2) = Signed(d2, E) /\ Signed(d2, E) \in Int
    BY <1>4, WorthIs
  <2>3. Worth(d3) = Signed(d3, E) /\ Signed(d3, E) \in Int
    BY <1>4, <1>7, WorthIs
  <2> QED BY <2>1, <2>2, <2>3
<1>9. PICK sum \in Int, difference \in Int, less \in Int : sum = v1 + v2 /\ difference = v1 - v2 /\ less = -v3
  OBVIOUS
<1>10. \A x \in Int, y \in Int : Within(x, y, Slack(h)) => Near(x, y, place)
  BY <1>4, <1>5, NearIs
<1>11. /\ plus => Near(v3, sum, place)
       /\ ~ plus => Near(v3, difference, place) \/ Near(less, difference, place)
  BY <1>6, <1>8, <1>9, <1>10
<1> QED BY <1>6, <1>8, <1>9, <1>11

(* Sums and differences of operands of which every limb is one and no      *)
(* digit is left out of the count are as precise as a mantissa allows, for *)
(* every number and size of the limbs and every range of exponents.        *)
THEOREM SumsOfSized == DecimalSpec => [](Sized(d1) /\ Sized(d2) => SumsPrecise)
<1>1. SumsMade => (Sized(d1) /\ Sized(d2) => SumsPrecise)
  <2> SUFFICES ASSUME SumsMade, Sized(d1), Sized(d2) PROVE SumsPrecise
    OBVIOUS
  <2>1. PICK place : place = Max({Reach(d1), Reach(d2)}) + 1 - Positions
    OBVIOUS
  <2>2. Succeeded("add") => Near(Worth(d3), Worth(d1) + Worth(d2), place)
    <3> HAVE Succeeded("add")
    <3>1. Summed("add", TRUE)
      BY DEF SumsMade
    <3> QED BY <2>1, <3>1, SumPrecise
  <2>3. Succeeded("sub") => \/ Near(Worth(d3), Worth(d1) - Worth(d2), place)
                            \/ Near(-Worth(d3), Worth(d1) - Worth(d2), place)
    <3> HAVE Succeeded("sub")
    <3>1. Summed("sub", FALSE)
      BY DEF SumsMade
    <3> QED BY <2>1, <3>1, SumPrecise
  <2> QED BY <2>1, <2>2, <2>3 DEF SumsPrecise
<1> QED BY <1>1, SumsMadeAlways, PTL

(* ... and are operands again: they have the right size, and count their   *)
(* digits right where their operands did.                                  *)
THEOREM SumsStaySized ==
  DecimalSpec => [](/\ Sized(d1) /\ Sized(d2)
                    /\ Succeeded("add") \/ Succeeded("sub")
                    => Sized(d3) /\ (Normal(d1) /\ Normal(d2) => Normal(d3)))
<1> DEFINE Stay == /\ Sized(d1) /\ Sized(d2)
                   /\ Succeeded("add") \/ Succeeded("sub")
                   => Sized(d3) /\ (Normal(d1) /\ Normal(d2) => Normal(d3))
<1>1. SumsMade => Stay
  <2> SUFFICES ASSUME SumsMade, Sized(d1), Sized(d2), Succeeded("add") \/ Succeeded("sub")
               PROVE  Sized(d3) /\ (Normal(d1) /\ Normal(d2) => Normal(d3))
    OBVIOUS
  <2>1. PICK place : place = Max({Reach(d1), Reach(d2)}) + 1 - Positions
    OBVIOUS
  <2>2. Keeps(d1, d2, d3)
    <3>1. Summed("add", TRUE) /\ Summed("sub", FALSE)
      BY DEF SumsMade
    <3>2. CASE Succeeded("add")
      BY <2>1, <3>1, <3>2, SumPrecise
    <3>3. CASE Succeeded("sub")
      BY <2>1, <3>1, <3>3, SumPrecise
    <3> QED BY <3>2, <3>3
  <2> QED BY <2>2 DEF Keeps, Normal, Sized
<1> QED BY <1>1, SumsMadeAlways, PTL

(* What is added up in the first place, literals, has the right size.      *)
FirstSized == reuse \in Nat /\ (reuse = 0 => Sized(d1) /\ Sized(d2))

LEMMA FirstSizedAlways == DecimalSpec => []FirstSized
<1>1. DecimalInit => FirstSized
  <2> SUFFICES ASSUME DecimalInit PROVE FirstSized
    OBVIOUS
  <2>1. Sized(Zero)
    BY NoLimbsIs, ExponentsIs, PositionsIs DEF Sized, Zero, Mantissas
  <2> QED BY <2>1 DEF DecimalInit, FirstSized
<1>2. FirstSized /\ [DecimalNext]_decimalVars => FirstSized'
  <2> SUFFICES ASSUME FirstSized, [DecimalNext]_decimalVars PROVE FirstSized'
    OBVIOUS
  <2>1. CASE Enter
    BY <2>1, LiteralsAssumption DEF Enter, FirstSized
  <2>2. CASE Reuse
    BY <2>2 DEF Reuse, FirstSized
  <2>3. CASE Add \/ Sub \/ Mul \/ Div \/ Cmp
    <3>1. UNCHANGED <<d1, d2, reuse>>
      BY <2>3 DEF Add, Sub, Mul, Div, Cmp, Computes
    <3> QED BY <3>1 DEF FirstSized
  <2>4. CASE UNCHANGED decimalVars
    BY <2>4 DEF decimalVars, FirstSized
  <2> QED BY <2>1, <2>2, <2>3, <2>4 DEF DecimalNext
<1> QED BY <1>1, <1>2, PTL DEF DecimalSpec

(* Whatever two literals are added up, their sum is as precise as a        *)
(* mantissa allows.                                                        *)
THEOREM SumsOfLiterals == DecimalSpec => [](reuse = 0 => SumsPrecise)
<1>1. FirstSized /\ (Sized(d1) /\ Sized(d2) => SumsPrecise) => (reuse = 0 => SumsPrecise)
  BY DEF FirstSized
<1> QED BY <1>1, FirstSizedAlways, SumsOfSized, PTL

----------------------------------------------------------------------------
(* Products.  One cell of a row, and a multiple added limb by limb.       *)
LEMMA NatTimes ==
  ASSUME NEW x \in Nat, NEW y \in Nat
  PROVE  x * y \in Nat
  OBVIOUS

LEMMA LessTimes ==
  ASSUME NEW g \in Nat, NEW x \in 0 .. g, NEW y \in Nat
  PROVE  x * y \in Nat /\ x * y <= g * y
<1>1. PICK h \in Nat : h = g - x /\ g = x + h
  OBVIOUS
<1>2. PICK s \in Nat : s = x * y
  BY NatTimes
<1>3. PICK t \in Nat : t = h * y
  BY NatTimes
<1>4. g * y = s + t
  <2>1. (x + h) * y = x * y + h * y
    OBVIOUS
  <2> QED BY <1>1, <1>2, <1>3, <2>1
<1> QED BY <1>2, <1>4

LEMMA BaseDivides ==
  ASSUME NEW w \in Nat
  PROVE  /\ w \div Base \in Nat /\ w % Base \in 0 .. Base - 1
         /\ w = Base * (w \div Base) + (w % Base)
<1>1. CASE Base = 10 BY <1>1
<1>2. CASE Base = 100 BY <1>2
<1>3. CASE Base = 1000 BY <1>3
<1>4. CASE Base = 10000 BY <1>4
<1> QED BY <1>1, <1>2, <1>3, <1>4, BaseIs

(* p is at most y times the largest limb.                                  *)
Below(p, y) ==
  \/ Base = 10 /\ p <= 9 * y
  \/ Base = 100 /\ p <= 99 * y
  \/ Base = 1000 /\ p <= 999 * y
  \/ Base = 10000 /\ p <= 9999 * y

LEMMA BelowIs ==
  ASSUME NEW x \in 0 .. Base - 1, NEW y \in 0 .. Base - 1
  PROVE  x * y \in Nat /\ Below(x * y, y)
<1>1. y \in Nat
  BY BaseIs
<1>2. CASE Base = 10
  <2>1. x \in 0 .. 9 /\ 9 \in Nat
    BY <1>2
  <2> QED BY <1>1, <1>2, <2>1, LessTimes DEF Below
<1>3. CASE Base = 100
  <2>1. x \in 0 .. 99 /\ 99 \in Nat
    BY <1>3
  <2> QED BY <1>1, <1>3, <2>1, LessTimes DEF Below
<1>4. CASE Base = 1000
  <2>1. x \in 0 .. 999 /\ 999 \in Nat
    BY <1>4
  <2> QED BY <1>1, <1>4, <2>1, LessTimes DEF Below
<1>5. CASE Base = 10000
  <2>1. x \in 0 .. 9999 /\ 9999 \in Nat
    BY <1>5
  <2> QED BY <1>1, <1>5, <2>1, LessTimes DEF Below
<1> QED BY <1>2, <1>3, <1>4, <1>5, BaseIs

LEMMA CarryBelow ==
  ASSUME NEW y \in 0 .. Base - 1, NEW z \in 0 .. Base - 1, NEW v \in 0 .. Base - 1,
         NEW p \in Nat, Below(p, y), NEW q \in Nat, NEW r \in Nat, p + z + v = Base * q + r
  PROVE  q \in 0 .. Base - 1
<1>1. CASE Base = 10 /\ p <= 9 * y BY <1>1
<1>2. CASE Base = 100 /\ p <= 99 * y BY <1>2
<1>3. CASE Base = 1000 /\ p <= 999 * y
  <2>1. y <= 999 /\ z <= 999 /\ v <= 999 /\ y \in Nat /\ z \in Nat /\ v \in Nat
    BY <1>3
  <2>2. 999 * y <= 999 * 999
    BY <2>1
  <2>3. p + z + v <= 999 * 999 + 999 + 999
    BY <1>3, <2>1, <2>2
  <2>4. 1000 * q <= 999 * 999 + 999 + 999
    BY <1>3, <2>3
  <2>5. q <= 999
    BY <2>4
  <2> QED BY <1>3, <2>5
<1>4. CASE Base = 10000 /\ p <= 9999 * y
  <2>1. y <= 9999 /\ z <= 9999 /\ v <= 9999 /\ y \in Nat /\ z \in Nat /\ v \in Nat
    BY <1>4
  <2>2. 9999 * y <= 9999 * 9999
    BY <2>1
  <2>3. p + z + v <= 9999 * 9999 + 9999 + 9999
    BY <1>4, <2>1, <2>2
  <2>4. 10000 * q <= 9999 * 9999 + 9999 + 9999
    BY <1>4, <2>3
  <2>5. q <= 9999
    BY <2>4
  <2> QED BY <1>4, <2>5, SMTT(60)
<1> QED BY <1>1, <1>2, <1>3, <1>4 DEF Below

(* One cell of a row: it fits, and so does what is carried on.             *)
LEMMA CellCarry ==
  ASSUME NEW x \in 0 .. Base - 1, NEW y \in 0 .. Base - 1, NEW z \in 0 .. Base - 1, NEW v \in 0 .. Base - 1,
         NEW w, w = x * y + z + v
  PROVE  /\ w \in Nat /\ w \div Base \in 0 .. Base - 1 /\ w % Base \in 0 .. Base - 1
         /\ w = Base * (w \div Base) + (w % Base)
<1>1. PICK p \in Nat : p = x * y /\ Below(p, y) /\ w = p + z + v
  BY BelowIs
<1>2. w \in Nat
  <2>1. z \in Nat /\ v \in Nat
    BY BaseIs
  <2> QED BY <1>1, <2>1
<1>3. PICK q \in Nat, r \in Nat : q = w \div Base /\ r = w % Base /\ r \in 0 .. Base - 1 /\ w = Base * q + r
  <2>1. w \div Base \in Nat /\ w % Base \in 0 .. Base - 1 /\ w = Base * (w \div Base) + (w % Base)
    BY <1>2, BaseDivides
  <2>2. w % Base \in Nat
    BY <2>1, BaseIs
  <2> QED BY <2>1, <2>2
<1>4. q \in 0 .. Base - 1
  <2>1. p + z + v = Base * q + r
    BY <1>1, <1>3
  <2> QED BY <1>1, <2>1, CarryBelow
<1> QED BY <1>2, <1>3, <1>4

LEMMA TensProduct ==
  ASSUME NEW v \in Nat, NEW w \in Nat, NEW n \in Nat
  PROVE  v * Tens(w, n) = Tens(v, n) * w
<1> DEFINE S == {k \in Nat : v * Tens(w, k) = Tens(v, k) * w}
<1>1. 0 \in S
  BY TensFirst
<1>2. ASSUME NEW k \in Nat, k \in S PROVE k + 1 \in S
  <2>1. PICK x \in Nat, y \in Nat : x = Tens(w, k) /\ y = Tens(v, k)
    BY TensNat
  <2>2. Tens(w, k + 1) = 10 * x /\ Tens(v, k + 1) = 10 * y
    BY <2>1, TensNext
  <2>3. v * x = y * w
    BY <1>2, <2>1
  <2>4. v * (10 * x) = 10 * (v * x) /\ (10 * y) * w = 10 * (y * w)
    OBVIOUS
  <2> QED BY <2>2, <2>3, <2>4
<1> HIDE DEF S
<1>3. n \in S
  BY <1>1, <1>2, InductiveNat
<1> QED BY <1>3 DEF S

(* A multiple of one number, added to another limb by limb with carries    *)
(* that end within the limbs.                                              *)
Multiplies(f, x, q, c, g, N) ==
  /\ c \in [0 .. N -> Nat] /\ c[0] = 0
  /\ \A j \in 1 .. N : f[j] + x * q[j] + c[j] = g[j] + Base * c[j - 1]

LEMMA CarriesOver ==
  ASSUME NEW N \in Nat, NEW f, NEW q, NEW g, IsLimbs(f, N), IsLimbs(q, N), IsLimbs(g, N),
         NEW x \in Nat, NEW c, Multiplies(f, x, q, c, g, N), c[N] = 0
  PROVE  Top(f, N) + x * Top(q, N) = Top(g, N)
<1> DEFINE S == {k \in 0 .. N : Top(f, k) + x * Top(q, k) + c[k] = Top(g, k)}
<1>1. 0 \in S
  <2>1. Top(f, 0) = 0 /\ Top(q, 0) = 0 /\ Top(g, 0) = 0
    BY TopFirst
  <2>2. c[0] = 0 /\ x * 0 = 0
    BY DEF Multiplies
  <2> QED BY <2>1, <2>2
<1>2. ASSUME NEW k \in 0 .. N - 1, k \in S PROVE k + 1 \in S
  <2>1. k + 1 \in 1 .. N /\ k + 1 \in 0 .. N /\ k \in 0 .. N /\ (k + 1) - 1 = k
    OBVIOUS
  <2>2. PICK F \in Nat, u \in 0 .. Base - 1 : F = Top(f, k) /\ u = f[k + 1] /\ Top(f, k + 1) = Base * F + u
    BY TopNext
  <2>3. PICK Q \in Nat, v \in 0 .. Base - 1 : Q = Top(q, k) /\ v = q[k + 1] /\ Top(q, k + 1) = Base * Q + v
    BY TopNext
  <2>4. PICK G \in Nat, w \in 0 .. Base - 1 : G = Top(g, k) /\ w = g[k + 1] /\ Top(g, k + 1) = Base * G + w
    BY TopNext
  <2>5. PICK e \in Nat, h \in Nat : e = c[k + 1] /\ h = c[k]
    BY <2>1 DEF Multiplies
  <2>6. u + x * v + e = w + Base * h
    BY <2>1, <2>2, <2>3, <2>4, <2>5 DEF Multiplies
  <2>7. F + x * Q + h = G
    BY <1>2, <2>2, <2>3, <2>4, <2>5
  <2>8. PICK s \in Nat, t \in Nat : s = x * v /\ t = x * Q
    <3>1. v \in Nat
      BY BaseIs
    <3> QED BY <3>1, NatTimes
  <2>9. x * (Base * Q + v) = Base * t + s
    BY <2>8, BaseIs
  <2>10. (Base * F + u) + (Base * t + s) + e = Base * G + w
    <3>1. CASE Base = 10 BY <3>1, <2>6, <2>7, <2>8
    <3>2. CASE Base = 100 BY <3>2, <2>6, <2>7, <2>8
    <3>3. CASE Base = 1000 BY <3>3, <2>6, <2>7, <2>8
    <3>4. CASE Base = 10000 BY <3>4, <2>6, <2>7, <2>8
    <3> QED BY <3>1, <3>2, <3>3, <3>4, BaseIs
  <2> QED BY <2>1, <2>2, <2>3, <2>4, <2>5, <2>9, <2>10
<1> HIDE DEF S
<1>3. N \in S
  <2>1. \A k \in 0 .. N : k \in S
    BY <1>1, <1>2, Inductive
  <2> QED BY <2>1
<1>4. Top(f, N) + x * Top(q, N) + c[N] = Top(g, N)
  BY <1>3 DEF S
<1>5. PICK F \in Nat, Q \in Nat : F = Top(f, N) /\ Q = Top(q, N)
  BY TopNat
<1>6. PICK t \in Nat : t = x * Q
  BY NatTimes
<1> QED BY <1>4, <1>5, <1>6

(* The two mantissas of a product, from the highest limb down.             *)
Wide == 2 * Parts
Wides == [0 .. 2 * Parts - 1 -> 0 .. Base - 1]
Spread(m) == [j \in 1 .. Wide |-> m[Wide - j]]
WideValue(m) == Top(Spread(m), Wide)

LEMMA WideIs == Wide \in Nat /\ Wide = Parts + Parts /\ Wide - 1 \in Nat
  BY PartsIs DEF Wide

LEMMA SpreadIs ==
  ASSUME NEW m \in Wides
  PROVE  IsLimbs(Spread(m), Wide) /\ \A j \in 1 .. Wide : Spread(m)[j] = m[Wide - j]
<1>1. \A j \in 1 .. Wide : Wide - j \in 0 .. 2 * Parts - 1
  BY WideIs DEF Wide
<1>2. \A j \in 1 .. Wide : Spread(m)[j] = m[Wide - j]
  BY DEF Spread
<1>3. \A j \in 1 .. Wide : Spread(m)[j] \in 0 .. Base - 1
  BY <1>1, <1>2 DEF Wides
<1> QED BY <1>2, <1>3 DEF IsLimbs

(* The limbs of b with i limbs of 0 behind them.                           *)
Moved(b, i) == [j \in 1 .. Wide |-> IF Wide - j - i \in Limbs THEN b[Wide - j - i] ELSE 0]

LEMMA MovedValue ==
  ASSUME NEW b \in Mantissas, NEW i \in Limbs
  PROVE  IsLimbs(Moved(b, i), Wide) /\ Top(Moved(b, i), Wide) = Tens(Value(b), i * Log10)
<1>1. PICK W \in Nat, P \in Nat, k \in Nat, l \in Nat :
        W = Wide /\ P = Parts /\ k = W - i /\ l = P - i /\ W = P + P /\ i < P /\ i \in Nat /\ P > 0
  <2>1. Wide - i \in Nat /\ Parts - i \in Nat /\ i < Parts /\ i \in Nat
    BY WideIs, PartsIs DEF Limbs
  <2> QED BY <2>1, WideIs, PartsIs
<1>2. PICK q : q = Moved(b, i)
  OBVIOUS
<1>3. \A j \in 1 .. W : q[j] = IF W - j - i \in Limbs THEN b[W - j - i] ELSE 0
  BY <1>1, <1>2 DEF Moved
<1>4. IsLimbs(q, W)
  <2>1. \A h \in Limbs : b[h] \in 0 .. Base - 1
    BY LimbIs
  <2>2. 0 \in 0 .. Base - 1
    BY BaseIs
  <2>3. \A j \in 1 .. W : q[j] \in 0 .. Base - 1
    BY <1>3, <2>1, <2>2
  <2> QED BY <2>3 DEF IsLimbs
<1>5. Top(q, W) = Tens(Top(q, k), i * Log10)
  <2>1. k \in 0 .. W /\ k + i = W
    BY <1>1
  <2>2. \A j \in k + 1 .. W : q[j] = 0
    <3> TAKE j \in k + 1 .. W
    <3>1. j \in 1 .. W /\ W - j - i \notin Limbs
      BY <1>1 DEF Limbs
    <3> QED BY <1>3, <3>1
  <2> QED BY <1>1, <1>4, <2>1, <2>2, ZerosBehindLimbs
<1>6. PICK s : s = [j \in 1 .. W |-> IF j <= P THEN b[P - j] ELSE 0]
  OBVIOUS
<1>7. \A j \in 1 .. W : j <= P => P - j \in Limbs /\ s[j] = b[P - j]
  BY <1>1, <1>6 DEF Limbs
<1>8. IsLimbs(s, k) /\ IsLimbs(q, k)
  <2>1. \A h \in Limbs : b[h] \in 0 .. Base - 1
    BY LimbIs
  <2>2. 0 \in 0 .. Base - 1
    BY BaseIs
  <2>3. \A j \in 1 .. W : s[j] \in 0 .. Base - 1
    BY <1>6, <1>7, <2>1, <2>2
  <2>4. \A j \in 1 .. k : j \in 1 .. W
    BY <1>1
  <2> QED BY <1>4, <2>3, <2>4 DEF IsLimbs
<1>9. Top(q, k) = Top(s, k - l)
  <2>1. l \in 0 .. k
    BY <1>1
  <2>2. \A j \in 1 .. l : q[j] = 0
    <3> TAKE j \in 1 .. l
    <3>1. j \in 1 .. W /\ W - j - i \notin Limbs
      BY <1>1 DEF Limbs
    <3> QED BY <1>3, <3>1
  <2>3. \A j \in l + 1 .. k : q[j] = s[j - l]
    <3> TAKE j \in l + 1 .. k
    <3>1. j \in 1 .. W /\ W - j - i \in Limbs /\ j - l \in 1 .. W /\ j - l <= P /\ P - (j - l) = W - j - i
      BY <1>1 DEF Limbs
    <3>2. q[j] = b[W - j - i]
      BY <1>3, <3>1
    <3>3. s[j - l] = b[P - (j - l)]
      BY <1>7, <3>1
    <3> QED BY <3>1, <3>2, <3>3
  <2> QED BY <1>8, <2>1, <2>2, <2>3, ZerosBefore
<1>10. Top(s, P) = Value(b)
  <2>1. \A j \in 1 .. P : s[j] = Down(b)[j]
    <3> TAKE j \in 1 .. P
    <3>1. j \in 1 .. W /\ j <= P
      BY <1>1
    <3> QED BY <1>1, <1>7, <3>1, DownIs
  <2>2. Top(s, P) = Top(Down(b), P)
    BY <2>1, AgreeTops
  <2> QED BY <1>1, <2>2 DEF Value
<1>11. k - l = P
  BY <1>1
<1> QED BY <1>1, <1>2, <1>4, <1>5, <1>9, <1>10, <1>11

----------------------------------------------------------------------------
(* A row of a product.                                                    *)
(* What is carried from cell to cell of a row.                             *)
RowCarries(c, m, x, b, i) ==
  /\ c \in [0 .. Parts -> 0 .. Base - 1] /\ c[0] = 0
  /\ \A j \in Limbs : c[j + 1] = (x * b[j] + m[i + j] + c[j]) \div Base

LEMMA RowCarriesExist ==
  ASSUME NEW m \in Wides, NEW x \in 0 .. Base - 1, NEW b \in Mantissas, NEW i \in Limbs
  PROVE  \E c : RowCarries(c, m, x, b, i)
<1> DEFINE F == [k \in 1 .. Parts |-> [v \in 0 .. Base - 1 |-> (x * b[k - 1] + m[i + (k - 1)] + v) \div Base]]
<1>1. ASSUME NEW k \in 1 .. Parts, NEW v \in 0 .. Base - 1
      PROVE  (x * b[k - 1] + m[i + (k - 1)] + v) \div Base \in 0 .. Base - 1
  <2>1. k - 1 \in Limbs /\ i + (k - 1) \in 0 .. 2 * Parts - 1
    BY PartsIs DEF Limbs
  <2>2. PICK y \in 0 .. Base - 1, z \in 0 .. Base - 1 : y = b[k - 1] /\ z = m[i + (k - 1)]
    BY <2>1, LimbIs DEF Wides
  <2>3. PICK w : w = x * y + z + v
    OBVIOUS
  <2> QED BY <2>2, <2>3, CellCarry
<1>2. Steps(F, Parts, 0 .. Base - 1)
  BY <1>1 DEF Steps
<1>3. \A k \in 1 .. Parts, v \in 0 .. Base - 1 : F[k][v] = (x * b[k - 1] + m[i + (k - 1)] + v) \div Base
  OBVIOUS
<1> HIDE DEF F
<1>4. PICK c : Follows(c, 0, F, Parts, 0 .. Base - 1)
  <2>1. 0 \in 0 .. Base - 1
    BY BaseIs
  <2> QED BY <1>2, <2>1, PartsIs, CourseOfSteps
<1>5. c \in [0 .. Parts -> 0 .. Base - 1] /\ c[0] = 0
  BY <1>4 DEF Follows
<1>6. ASSUME NEW j \in Limbs PROVE c[j + 1] = (x * b[j] + m[i + j] + c[j]) \div Base
  <2>1. PICK k \in 1 .. Parts : k = j + 1 /\ k - 1 = j /\ j \in 0 .. Parts
    <3>1. j + 1 \in 1 .. Parts /\ (j + 1) - 1 = j /\ j \in 0 .. Parts
      BY PartsIs DEF Limbs
    <3> QED BY <3>1
  <2>2. c[k] = F[k][c[k - 1]] /\ c[k - 1] \in 0 .. Base - 1
    BY <1>4, <2>1 DEF Follows
  <2> QED BY <1>3, <2>1, <2>2
<1> QED BY <1>5, <1>6 DEF RowCarries

RowCell(u, m, x, b, i) ==
  u = [j \in Limbs |-> x * b[j] + m[i + j] + (IF j = 0 THEN 0 ELSE u[j - 1] \div Base)]

LEMMA RowCellExists ==
  ASSUME NEW m \in Wides, NEW x \in 0 .. Base - 1, NEW b \in Mantissas, NEW i \in Limbs
  PROVE  \E u : RowCell(u, m, x, b, i)
<1>1. PICK c : RowCarries(c, m, x, b, i)
  BY RowCarriesExist
<1>2. PICK u : u = [j \in Limbs |-> x * b[j] + m[i + j] + c[j]]
  OBVIOUS
<1>3. ASSUME NEW j \in Limbs PROVE u[j] = x * b[j] + m[i + j] + (IF j = 0 THEN 0 ELSE u[j - 1] \div Base)
  <2>1. CASE j = 0
    <3>1. c[j] = 0
      BY <1>1, <2>1 DEF RowCarries
    <3> QED BY <1>2, <2>1, <3>1
  <2>2. CASE j # 0
    <3>1. PICK k \in Limbs : k = j - 1 /\ k + 1 = j
      <4>1. j - 1 \in Limbs /\ (j - 1) + 1 = j
        BY <2>2, PartsIs DEF Limbs
      <4> QED BY <4>1
    <3>2. c[j] = u[k] \div Base
      BY <1>1, <1>2, <3>1 DEF RowCarries
    <3> QED BY <1>2, <2>2, <3>1, <3>2
  <2> QED BY <2>1, <2>2
<1>4. u = [j \in Limbs |-> x * b[j] + m[i + j] + (IF j = 0 THEN 0 ELSE u[j - 1] \div Base)]
  BY <1>2, <1>3
<1> QED BY <1>4 DEF RowCell

(* From a cell on, the limbs are 0.                                        *)
ClearFrom(m, k) == \A j \in 0 .. 2 * Parts - 1 : j >= k => m[j] = 0

(* A row: what it leaves of the limbs, and what it carries.                *)
Row(g, c, m, x, b, i) ==
  /\ g \in Wides /\ c \in [0 .. Parts -> 0 .. Base - 1] /\ c[0] = 0
  /\ \A j \in Limbs : m[i + j] + x * b[j] + c[j] = g[i + j] + Base * c[j + 1]
  /\ m[i + Parts] = 0 /\ g[i + Parts] = c[Parts]
  /\ \A k \in 0 .. 2 * Parts - 1 : k < i \/ k > i + Parts => g[k] = m[k]

LEMMA RowIs ==
  ASSUME NEW m \in Wides, NEW x \in 0 .. Base - 1, NEW b \in Mantissas, NEW i \in Limbs,
         ClearFrom(m, Parts + i)
  PROVE  \E c : Row(AddRow(m, x, b, i), c, m, x, b, i)
<1> DEFINE u == CHOOSE v : RowCell(v, m, x, b, i)
<1>1. RowCell(u, m, x, b, i)
  BY RowCellExists, Zenon
<1>2. AddRow(m, x, b, i) = [k \in DOMAIN m |-> IF k - i \in Limbs THEN u[k - i] % Base
                                              ELSE IF k = i + Parts THEN m[k] + u[Parts - 1] \div Base
                                              ELSE m[k]]
  BY Zenon DEF AddRow, RowCell
<1> HIDE DEF u
<1>3. PICK g : g = AddRow(m, x, b, i)
  OBVIOUS
<1>4. PICK W \in Nat, P \in Nat, h \in Nat : W = 2 * Parts /\ W = P + P /\ P = Parts /\ h = i /\ h < P /\ P > 0
  BY PartsIs DEF Limbs
<1>5. DOMAIN m = 0 .. W - 1 /\ Limbs = 0 .. P - 1
  BY <1>4 DEF Wides, Limbs
<1>6. \A k \in 0 .. W - 1 : g[k] = IF k - h \in Limbs THEN u[k - h] % Base
                                  ELSE IF k = h + P THEN m[k] + u[P - 1] \div Base ELSE m[k]
  BY <1>2, <1>3, <1>4, <1>5
<1>7. \A j \in Limbs : u[j] = x * b[j] + m[h + j] + (IF j = 0 THEN 0 ELSE u[j - 1] \div Base)
  BY <1>1, <1>4 DEF RowCell
<1>8. PICK c : c = [k \in 0 .. P |-> IF k = 0 THEN 0 ELSE u[k - 1] \div Base]
  OBVIOUS
<1>9. c[0] = 0 /\ \A j \in Limbs : c[j + 1] = u[j] \div Base /\ u[j] = x * b[j] + m[h + j] + c[j]
  <2>1. c[0] = 0
    BY <1>4, <1>8
  <2>2. ASSUME NEW j \in Limbs PROVE c[j + 1] = u[j] \div Base /\ u[j] = x * b[j] + m[h + j] + c[j]
    <3>1. j + 1 \in 0 .. P /\ j + 1 # 0 /\ (j + 1) - 1 = j /\ j \in 0 .. P
      BY <1>4, <1>5
    <3>2. c[j + 1] = u[j] \div Base
      BY <1>8, <3>1
    <3>3. c[j] = IF j = 0 THEN 0 ELSE u[j - 1] \div Base
      BY <1>8, <3>1
    <3> QED BY <1>7, <3>2, <3>3
  <2> QED BY <2>1, <2>2
<1>10. ASSUME NEW j \in Limbs, c[j] \in 0 .. Base - 1
       PROVE  /\ c[j + 1] \in 0 .. Base - 1 /\ u[j] % Base \in 0 .. Base - 1
              /\ m[h + j] + x * b[j] + c[j] = (u[j] % Base) + Base * c[j + 1]
  <2>1. h + j \in 0 .. 2 * Parts - 1
    BY <1>4, <1>5
  <2>2. PICK y \in 0 .. Base - 1, z \in 0 .. Base - 1, v \in 0 .. Base - 1 :
          y = b[j] /\ z = m[h + j] /\ v = c[j]
    BY <1>10, <2>1, LimbIs DEF Wides
  <2>3. PICK w : w = x * y + z + v /\ w = u[j]
    BY <1>9, <2>2
  <2>4. /\ w \in Nat /\ w \div Base \in 0 .. Base - 1 /\ w % Base \in 0 .. Base - 1
        /\ w = Base * (w \div Base) + (w % Base)
    BY <2>3, CellCarry
  <2>5. PICK q \in Nat, r \in Nat, p \in Nat :
          q = w \div Base /\ r = w % Base /\ p = x * y /\ w = Base * q + r /\ w = p + z + v
    <3>1. x \in Nat /\ y \in Nat
      BY BaseIs
    <3>2. w \div Base \in Nat /\ w % Base \in Nat /\ x * y \in Nat
      BY <2>4, <3>1, BaseIs, NatTimes
    <3> QED BY <2>3, <2>4, <3>2
  <2>6. z + p + v = r + Base * q
    <3>1. Base * q \in Nat /\ z \in Nat /\ v \in Nat
      <4>1. q \in Nat /\ Base \in Nat
        BY <2>5, BaseIs
      <4> QED BY <4>1, BaseIs, NatTimes
    <3>2. PICK t \in Nat, zz \in Nat, vv \in Nat : t = Base * q /\ zz = z /\ vv = v
      BY <3>1
    <3>3. w = t + r /\ w = p + z + v
      BY <2>5, <3>2
    <3>4. zz + p + vv = r + t
      <4>1. p \in Nat /\ r \in Nat
        BY <2>5
      <4>2. t + r = p + zz + vv
        BY <3>2, <3>3
      <4> HIDE <2>5
      <4> QED BY <4>1, <4>2
    <3> QED BY <3>2, <3>4
  <2> QED BY <1>9, <2>2, <2>3, <2>4, <2>5, <2>6
<1>11. \A k \in 0 .. P : c[k] \in 0 .. Base - 1
  <2> DEFINE S == {k \in 0 .. P : c[k] \in 0 .. Base - 1}
  <2>1. 0 \in S
    BY <1>4, <1>9, BaseIs
  <2>2. ASSUME NEW k \in 0 .. P - 1, k \in S PROVE k + 1 \in S
    <3>1. k \in Limbs /\ k + 1 \in 0 .. P
      BY <1>4, <1>5
    <3> QED BY <1>10, <2>2, <3>1
  <2> HIDE DEF S
  <2>3. \A k \in 0 .. P : k \in S
    BY <2>1, <2>2, Inductive
  <2> QED BY <2>3 DEF S
<1>12. \A j \in Limbs : /\ c[j] \in 0 .. Base - 1 /\ j \in 0 .. P
                        /\ c[j + 1] \in 0 .. Base - 1 /\ u[j] % Base \in 0 .. Base - 1
                        /\ m[h + j] + x * b[j] + c[j] = (u[j] % Base) + Base * c[j + 1]
  <2> TAKE j \in Limbs
  <2>1. j \in 0 .. P
    BY <1>4, <1>5
  <2> QED BY <1>10, <1>11, <2>1
<1>13. \A j \in Limbs : g[h + j] = u[j] % Base /\ m[h + j] + x * b[j] + c[j] = g[h + j] + Base * c[j + 1]
  <2> TAKE j \in Limbs
  <2>1. h + j \in 0 .. W - 1 /\ (h + j) - h = j
    BY <1>4, <1>5
  <2>2. g[h + j] = u[j] % Base
    BY <1>6, <2>1
  <2> QED BY <1>12, <2>2
<1>14. m[h + P] = 0 /\ g[h + P] = c[P] /\ h + P \in 0 .. W - 1
  <2>1. h + P \in 0 .. W - 1 /\ (h + P) - h \notin Limbs /\ h + P >= Parts + i
    BY <1>4, <1>5
  <2>2. m[h + P] = 0
    BY <1>4, <2>1 DEF ClearFrom
  <2>3. g[h + P] = m[h + P] + u[P - 1] \div Base
    BY <1>6, <2>1
  <2>4. P - 1 \in Limbs /\ (P - 1) + 1 = P /\ P \in 0 .. P
    BY <1>4, <1>5
  <2>5. c[P] = u[P - 1] \div Base
    BY <1>9, <2>4
  <2>6. PICK v \in Nat : v = c[P]
    BY <1>11, <2>4, BaseIs
  <2> QED BY <2>1, <2>2, <2>3, <2>5, <2>6
<1>15. \A k \in 0 .. W - 1 : k < h \/ k > h + P => g[k] = m[k]
  <2> TAKE k \in 0 .. W - 1
  <2> HAVE k < h \/ k > h + P
  <2>1. k - h \notin Limbs /\ k # h + P
    BY <1>4, <1>5
  <2> QED BY <1>6, <2>1
<1>16. g \in Wides
  <2>1. g = [k \in 0 .. W - 1 |-> g[k]]
    BY <1>2, <1>3, <1>5
  <2>2. ASSUME NEW k \in 0 .. W - 1 PROVE g[k] \in 0 .. Base - 1
    <3>1. CASE k < h \/ k > h + P
      BY <1>4, <1>15, <3>1 DEF Wides
    <3>2. CASE k = h + P
      <4>1. P \in 0 .. P
        BY <1>4
      <4> QED BY <1>11, <1>14, <3>2, <4>1
    <3>3. CASE h <= k /\ k < h + P
      <4>1. PICK j \in Limbs : j = k - h /\ h + j = k
        <5>1. k - h \in Limbs /\ h + (k - h) = k
          BY <1>4, <1>5, <3>3
        <5> QED BY <5>1
      <4> QED BY <1>12, <1>13, <4>1
    <3> QED BY <1>4, <3>1, <3>2, <3>3
  <2> QED BY <1>4, <2>1, <2>2 DEF Wides
<1>17. c \in [0 .. Parts -> 0 .. Base - 1]
  BY <1>4, <1>8, <1>11
<1>18. Row(g, c, m, x, b, i)
  BY <1>4, <1>9, <1>13, <1>14, <1>15, <1>16, <1>17 DEF Row
<1> QED BY <1>3, <1>18

----------------------------------------------------------------------------
(* What a row is worth.                                                   *)
LEMMA RowWorth ==
  ASSUME NEW m \in Wides, NEW x \in 0 .. Base - 1, NEW b \in Mantissas, NEW i \in Limbs,
         NEW g, NEW c, Row(g, c, m, x, b, i)
  PROVE  /\ Tens(Value(b), i * Log10) \in Nat
         /\ WideValue(m) + x * Tens(Value(b), i * Log10) = WideValue(g)
<1>1. PICK W \in Nat, P \in Nat, h \in Nat : W = Wide /\ W = P + P /\ P = Parts /\ h = i /\ h < P /\ P > 0
  BY WideIs, PartsIs DEF Limbs
<1>2. PICK f, q, t : f = Spread(m) /\ q = Moved(b, i) /\ t = Spread(g)
  OBVIOUS
<1>3. Limbs = 0 .. P - 1 /\ 2 * Parts - 1 = W - 1
  BY <1>1 DEF Limbs
<1>4. \A j \in 1 .. W : f[j] = m[W - j] /\ t[j] = g[W - j]
  BY <1>1, <1>2, SpreadIs DEF Row
<1>5. \A j \in 1 .. W : q[j] = IF W - j - h \in Limbs THEN b[W - j - h] ELSE 0
  BY <1>1, <1>2 DEF Moved
<1>6. PICK d : d = [j \in 0 .. W |-> IF W - j - h \in 0 .. P THEN c[W - j - h] ELSE 0]
  OBVIOUS
<1>7. \A l \in 0 .. P : c[l] \in 0 .. Base - 1 /\ c[l] \in Nat
  BY <1>1, BaseIs DEF Row
<1>8. d \in [0 .. W -> Nat]
  BY <1>6, <1>7
<1>9. d[0] = 0
  <2>1. 0 \in 0 .. W /\ W - 0 - h \notin 0 .. P
    BY <1>1
  <2> QED BY <1>6, <2>1
<1>10. c[0] = 0
  BY DEF Row
<1>11. d[W] = 0
  <2>1. W \in 0 .. W /\ W - W - h = -h /\ (-h \in 0 .. P => -h = 0)
    BY <1>1
  <2> QED BY <1>6, <1>10, <2>1
<1>12. x \in Nat /\ x * 0 = 0 /\ Base * 0 = 0
  BY BaseIs
<1>13. ASSUME NEW j \in 1 .. W PROVE f[j] + x * q[j] + d[j] = t[j] + Base * d[j - 1]
  <2>1. PICK l \in Int, k \in 0 .. 2 * Parts - 1 :
          l = W - j - h /\ k = h + l /\ k = W - j /\ W - (j - 1) - h = l + 1 /\ l + h <= W - 1 /\ l + h >= 0
    <3>1. W - j - h \in Int /\ W - j \in 0 .. W - 1 /\ W - j = h + (W - j - h)
          /\ W - (j - 1) - h = (W - j - h) + 1
      BY <1>1
    <3>2. W - j \in 0 .. 2 * Parts - 1
      BY <1>3, <3>1
    <3>3. (W - j - h) + h <= W - 1 /\ (W - j - h) + h >= 0
      BY <1>1
    <3> QED BY <3>1, <3>2, <3>3
  <2>2. f[j] = m[k] /\ t[j] = g[k]
    BY <1>4, <2>1
  <2>3. q[j] = IF l \in Limbs THEN b[l] ELSE 0
    BY <1>5, <2>1
  <2>4. d[j] = IF l \in 0 .. P THEN c[l] ELSE 0
    BY <1>6, <2>1
  <2>5. d[j - 1] = IF l + 1 \in 0 .. P THEN c[l + 1] ELSE 0
    <3>1. j - 1 \in 0 .. W
      BY <1>1
    <3> QED BY <1>6, <2>1, <3>1
  <2>6. m[k] \in Nat /\ g[k] \in Nat
    <3>1. m[k] \in 0 .. Base - 1 /\ g[k] \in 0 .. Base - 1
      BY DEF Row, Wides
    <3> QED BY <3>1, BaseIs
  <2>7. CASE l < 0 \/ l > P
    <3>1. l \notin Limbs /\ l \notin 0 .. P /\ (l + 1 \in 0 .. P => l + 1 = 0)
      BY <1>1, <1>3, <2>7
    <3>2. q[j] = 0 /\ d[j] = 0 /\ d[j - 1] = 0
      BY <1>10, <2>3, <2>4, <2>5, <3>1
    <3>3. k < i \/ k > i + Parts
      BY <1>1, <2>1, <2>7
    <3>4. g[k] = m[k]
      BY <3>3 DEF Row
    <3> QED BY <1>12, <2>2, <2>6, <3>2, <3>4
  <2>8. CASE l = P
    <3>1. l \notin Limbs /\ l \in 0 .. P /\ l + 1 \notin 0 .. P /\ k = i + Parts
      BY <1>1, <1>3, <2>1, <2>8
    <3>2. q[j] = 0 /\ d[j] = c[P] /\ d[j - 1] = 0
      BY <2>3, <2>4, <2>5, <2>8, <3>1
    <3>3. m[k] = 0 /\ g[k] = c[P]
      BY <1>1, <3>1 DEF Row
    <3> QED BY <1>12, <2>2, <2>6, <3>2, <3>3
  <2>9. CASE l >= 0 /\ l < P
    <3>1. l \in Limbs /\ l \in 0 .. P /\ l + 1 \in 0 .. P /\ k = i + l
      BY <1>1, <1>3, <2>1, <2>9
    <3>2. q[j] = b[l] /\ d[j] = c[l] /\ d[j - 1] = c[l + 1]
      BY <2>3, <2>4, <2>5, <3>1
    <3>3. m[i + l] + x * b[l] + c[l] = g[i + l] + Base * c[l + 1]
      BY <3>1 DEF Row
    <3> QED BY <2>2, <3>1, <3>2, <3>3
  <2>10. l < 0 \/ l > P \/ l = P \/ (l >= 0 /\ l < P)
    BY <1>1, <2>1
  <2> QED BY <2>7, <2>8, <2>9, <2>10
<1>14. Multiplies(f, x, q, d, t, W)
  BY <1>8, <1>9, <1>13 DEF Multiplies
<1>15. IsLimbs(f, W) /\ IsLimbs(t, W)
  BY <1>1, <1>2, SpreadIs DEF Row
<1>16. IsLimbs(q, W) /\ Top(q, W) = Tens(Value(b), i * Log10)
  BY <1>1, <1>2, MovedValue
<1>17. Top(f, W) + x * Top(q, W) = Top(t, W)
  BY <1>11, <1>12, <1>14, <1>15, <1>16, CarriesOver
<1>18. Top(q, W) \in Nat
  BY <1>1, <1>16, TopNat
<1> QED BY <1>1, <1>2, <1>16, <1>17, <1>18 DEF WideValue

LEMMA AddRowIs ==
  ASSUME NEW m \in Wides, NEW x \in 0 .. Base - 1, NEW b \in Mantissas, NEW i \in Limbs,
         ClearFrom(m, Parts + i)
  PROVE  /\ AddRow(m, x, b, i) \in Wides /\ ClearFrom(AddRow(m, x, b, i), Parts + i + 1)
         /\ Tens(Value(b), i * Log10) \in Nat
         /\ WideValue(AddRow(m, x, b, i)) = WideValue(m) + x * Tens(Value(b), i * Log10)
<1>1. PICK g, c : g = AddRow(m, x, b, i) /\ Row(g, c, m, x, b, i)
  BY RowIs
<1>2. Tens(Value(b), i * Log10) \in Nat /\ WideValue(m) + x * Tens(Value(b), i * Log10) = WideValue(g)
  BY <1>1, RowWorth
<1>3. ClearFrom(g, Parts + i + 1)
  <2> SUFFICES ASSUME NEW j \in 0 .. 2 * Parts - 1, j >= Parts + i + 1 PROVE g[j] = 0
    BY DEF ClearFrom
  <2>1. j > i + Parts /\ j >= Parts + i
    BY PartsIs DEF Limbs
  <2>2. m[j] = 0
    BY <2>1 DEF ClearFrom
  <2> QED BY <1>1, <2>1, <2>2 DEF Row
<1> QED BY <1>1, <1>2, <1>3 DEF Row

(* The rows of a product.                                                  *)
Rows(r, a, b) ==
  r = [i \in 0 .. Parts |->
         IF i = 0 THEN [k \in 0 .. 2 * Parts - 1 |-> 0]
         ELSE IF a[i - 1] = 0 THEN r[i - 1] ELSE AddRow(r[i - 1], a[i - 1], b, i - 1)]

NoWide == [k \in 0 .. 2 * Parts - 1 |-> 0]

LEMMA NoWideIs == NoWide \in Wides /\ WideValue(NoWide) = 0 /\ \A k : ClearFrom(NoWide, k)
<1>1. NoWide \in Wides
  BY BaseIs DEF NoWide, Wides
<1>2. \A j \in 1 .. Wide : Spread(NoWide)[j] = 0
  <2> TAKE j \in 1 .. Wide
  <2>1. Wide - j \in 0 .. 2 * Parts - 1
    BY WideIs, PartsIs
  <2>2. Spread(NoWide)[j] = NoWide[Wide - j]
    BY <1>1, SpreadIs
  <2> QED BY <2>1, <2>2 DEF NoWide
<1>3. WideValue(NoWide) = 0
  <2>1. IsLimbs(Spread(NoWide), Wide) /\ Wide \in 0 .. Wide
    BY <1>1, SpreadIs, WideIs
  <2> QED BY <1>2, <2>1, WideIs, TopOfZeros DEF WideValue
<1> QED BY <1>1, <1>3 DEF NoWide, ClearFrom

----------------------------------------------------------------------------
(* The rows of a product.                                                 *)
Rowed(r, a, b) ==
  /\ r \in [0 .. Parts -> Wides] /\ r[0] = NoWide
  /\ \A k \in Limbs : /\ ClearFrom(r[k], Parts + k)
                      /\ r[k + 1] = IF a[k] = 0 THEN r[k] ELSE AddRow(r[k], a[k], b, k)

LEMMA RowedExists ==
  ASSUME NEW a \in Mantissas, NEW b \in Mantissas
  PROVE  \E r : Rowed(r, a, b)
<1> DEFINE F == [k \in 1 .. Parts |-> [v \in Wides |->
                   IF a[k - 1] # 0 /\ ClearFrom(v, Parts + (k - 1)) THEN AddRow(v, a[k - 1], b, k - 1) ELSE v]]
<1>1. ASSUME NEW k \in 1 .. Parts, NEW v \in Wides
      PROVE  (IF a[k - 1] # 0 /\ ClearFrom(v, Parts + (k - 1)) THEN AddRow(v, a[k - 1], b, k - 1) ELSE v) \in Wides
  <2>1. PICK i \in Limbs : i = k - 1
    BY PartsIs DEF Limbs
  <2>2. PICK x \in 0 .. Base - 1 : x = a[i]
    BY LimbIs
  <2>3. ClearFrom(v, Parts + i) => AddRow(v, x, b, i) \in Wides
    BY AddRowIs
  <2> QED BY <2>1, <2>2, <2>3
<1>2. Steps(F, Parts, Wides)
  BY <1>1 DEF Steps
<1>3. \A k \in 1 .. Parts, v \in Wides :
        F[k][v] = IF a[k - 1] # 0 /\ ClearFrom(v, Parts + (k - 1)) THEN AddRow(v, a[k - 1], b, k - 1) ELSE v
  OBVIOUS
<1> HIDE DEF F
<1>4. PICK r : Follows(r, NoWide, F, Parts, Wides)
  <2>1. NoWide \in Wides
    BY NoWideIs
  <2> QED BY <1>2, <2>1, PartsIs, CourseOfSteps
<1>5. r \in [0 .. Parts -> Wides] /\ r[0] = NoWide
  BY <1>4 DEF Follows
<1>6. ASSUME NEW k \in 0 .. Parts - 1
      PROVE  /\ k \in Limbs /\ r[k] \in Wides
             /\ r[k + 1] = IF a[k] # 0 /\ ClearFrom(r[k], Parts + k) THEN AddRow(r[k], a[k], b, k) ELSE r[k]
  <2>1. PICK j \in 1 .. Parts : j = k + 1 /\ j - 1 = k /\ k \in 0 .. Parts /\ k \in Limbs
    <3>1. k + 1 \in 1 .. Parts /\ (k + 1) - 1 = k /\ k \in 0 .. Parts /\ k \in Limbs
      BY PartsIs DEF Limbs
    <3> QED BY <3>1
  <2>2. r[j] = F[j][r[j - 1]] /\ r[j - 1] \in Wides
    BY <1>4, <2>1 DEF Follows
  <2> QED BY <1>3, <2>1, <2>2
<1>7. ASSUME NEW k \in 0 .. Parts - 1, ClearFrom(r[k], Parts + k)
      PROVE  ClearFrom(r[k + 1], Parts + (k + 1))
  <2>1. PICK v \in Wides : v = r[k] /\ k \in Limbs
    BY <1>6
  <2>2. PICK x \in 0 .. Base - 1 : x = a[k]
    BY <2>1, LimbIs
  <2>3. Parts + k + 1 = Parts + (k + 1)
    BY PartsIs
  <2>4. CASE a[k] # 0
    <3>1. r[k + 1] = AddRow(v, x, b, k)
      BY <1>6, <1>7, <2>1, <2>2, <2>4
    <3>2. ClearFrom(AddRow(v, x, b, k), Parts + k + 1)
      BY <1>7, <2>1, AddRowIs
    <3> QED BY <2>3, <3>1, <3>2
  <2>5. CASE a[k] = 0
    <3>1. r[k + 1] = r[k]
      BY <1>6, <2>5
    <3>2. \A j \in 0 .. 2 * Parts - 1 : j >= Parts + (k + 1) => j >= Parts + k
      BY PartsIs
    <3> QED BY <1>7, <3>1, <3>2 DEF ClearFrom
  <2> QED BY <2>4, <2>5
<1>8. \A k \in 0 .. Parts : ClearFrom(r[k], Parts + k)
  <2> DEFINE S == {k \in 0 .. Parts : ClearFrom(r[k], Parts + k)}
  <2>1. 0 \in S
    BY <1>5, NoWideIs, PartsIs
  <2>2. ASSUME NEW k \in 0 .. Parts - 1, k \in S PROVE k + 1 \in S
    <3>1. k + 1 \in 0 .. Parts
      BY PartsIs
    <3> QED BY <1>7, <2>2, <3>1
  <2> HIDE DEF S
  <2>3. \A k \in 0 .. Parts : k \in S
    BY <2>1, <2>2, PartsIs, Inductive
  <2> QED BY <2>3 DEF S
<1>9. ASSUME NEW k \in Limbs
      PROVE  ClearFrom(r[k], Parts + k) /\ r[k + 1] = IF a[k] = 0 THEN r[k] ELSE AddRow(r[k], a[k], b, k)
  <2>1. k \in 0 .. Parts - 1 /\ k \in 0 .. Parts
    BY PartsIs DEF Limbs
  <2>2. ClearFrom(r[k], Parts + k)
    BY <1>8, <2>1
  <2> QED BY <1>6, <2>1, <2>2
<1> QED BY <1>5, <1>9 DEF Rowed

LEMMA RowsExist ==
  ASSUME NEW a \in Mantissas, NEW b \in Mantissas
  PROVE  \E r : Rows(r, a, b)
<1>1. PICK r : Rowed(r, a, b)
  BY RowedExists
<1>2. r = [i \in 0 .. Parts |-> r[i]]
  BY <1>1 DEF Rowed
<1>3. ASSUME NEW i \in 0 .. Parts
      PROVE  r[i] = IF i = 0 THEN NoWide ELSE IF a[i - 1] = 0 THEN r[i - 1] ELSE AddRow(r[i - 1], a[i - 1], b, i - 1)
  <2>1. CASE i = 0
    BY <1>1, <2>1 DEF Rowed
  <2>2. CASE i # 0
    <3>1. PICK k \in Limbs : k = i - 1 /\ k + 1 = i
      <4>1. i - 1 \in Limbs /\ (i - 1) + 1 = i
        BY <2>2, PartsIs DEF Limbs
      <4> QED BY <4>1
    <3>2. r[k + 1] = IF a[k] = 0 THEN r[k] ELSE AddRow(r[k], a[k], b, k)
      BY <1>1 DEF Rowed
    <3> QED BY <2>2, <3>1, <3>2
  <2> QED BY <2>1, <2>2
<1>4. PICK t : t = [i \in 0 .. Parts |-> IF i = 0 THEN NoWide ELSE IF a[i - 1] = 0 THEN r[i - 1]
                                        ELSE AddRow(r[i - 1], a[i - 1], b, i - 1)]
  OBVIOUS
<1>5. r = t
  BY <1>2, <1>3, <1>4
<1> QED BY <1>4, <1>5 DEF Rows, NoWide

LEMMA RowsAre ==
  ASSUME NEW a \in Mantissas, NEW b \in Mantissas
  PROVE  \E r : Rows(r, a, b) /\ Product(a, b) = r[Parts]
<1> DEFINE u == CHOOSE r : Rows(r, a, b)
<1>1. Rows(u, a, b)
  BY RowsExist, Zenon
<1>2. Product(a, b) = u[Parts]
  BY Zenon DEF Product, Rows
<1> QED BY <1>1, <1>2

----------------------------------------------------------------------------
(* What all rows together are worth.                                      *)
LEMMA RowsRowed ==
  ASSUME NEW a \in Mantissas, NEW b \in Mantissas, NEW r, Rows(r, a, b)
  PROVE  Rowed(r, a, b)
<1>1. \A i \in 0 .. Parts :
        r[i] = IF i = 0 THEN NoWide ELSE IF a[i - 1] = 0 THEN r[i - 1] ELSE AddRow(r[i - 1], a[i - 1], b, i - 1)
  BY DEF Rows, NoWide
<1>2. r = [i \in 0 .. Parts |-> r[i]]
  BY DEF Rows
<1>3. r[0] = NoWide
  BY <1>1, PartsIs
<1>4. ASSUME NEW k \in 0 .. Parts - 1
      PROVE  k \in Limbs /\ r[k + 1] = IF a[k] = 0 THEN r[k] ELSE AddRow(r[k], a[k], b, k)
  <2>1. PICK j \in 0 .. Parts : j = k + 1 /\ j - 1 = k /\ j # 0 /\ k \in Limbs
    <3>1. k + 1 \in 0 .. Parts /\ (k + 1) - 1 = k /\ k + 1 # 0 /\ k \in Limbs
      BY PartsIs DEF Limbs
    <3> QED BY <3>1
  <2>2. r[j] = IF a[j - 1] = 0 THEN r[j - 1] ELSE AddRow(r[j - 1], a[j - 1], b, j - 1)
    BY <1>1, <2>1
  <2> QED BY <2>1, <2>2
<1>5. ASSUME NEW k \in 0 .. Parts - 1, r[k] \in Wides, ClearFrom(r[k], Parts + k)
      PROVE  r[k + 1] \in Wides /\ ClearFrom(r[k + 1], Parts + (k + 1))
  <2>1. PICK v \in Wides : v = r[k] /\ k \in Limbs
    BY <1>4, <1>5
  <2>2. PICK x \in 0 .. Base - 1 : x = a[k]
    BY <2>1, LimbIs
  <2>3. Parts + k + 1 = Parts + (k + 1)
    BY PartsIs
  <2>4. CASE a[k] # 0
    <3>1. r[k + 1] = AddRow(v, x, b, k)
      BY <1>4, <2>1, <2>2, <2>4
    <3>2. AddRow(v, x, b, k) \in Wides /\ ClearFrom(AddRow(v, x, b, k), Parts + k + 1)
      BY <1>5, <2>1, AddRowIs
    <3> QED BY <2>3, <3>1, <3>2
  <2>5. CASE a[k] = 0
    <3>1. r[k + 1] = r[k]
      BY <1>4, <2>5
    <3>2. \A j \in 0 .. 2 * Parts - 1 : j >= Parts + (k + 1) => j >= Parts + k
      BY PartsIs
    <3> QED BY <1>5, <3>1, <3>2 DEF ClearFrom
  <2> QED BY <2>4, <2>5
<1>6. \A k \in 0 .. Parts : r[k] \in Wides /\ ClearFrom(r[k], Parts + k)
  <2> DEFINE S == {k \in 0 .. Parts : r[k] \in Wides /\ ClearFrom(r[k], Parts + k)}
  <2>1. 0 \in S
    BY <1>3, NoWideIs, PartsIs
  <2>2. ASSUME NEW k \in 0 .. Parts - 1, k \in S PROVE k + 1 \in S
    <3>1. k + 1 \in 0 .. Parts
      BY PartsIs
    <3> QED BY <1>5, <2>2, <3>1
  <2> HIDE DEF S
  <2>3. \A k \in 0 .. Parts : k \in S
    BY <2>1, <2>2, PartsIs, Inductive
  <2> QED BY <2>3 DEF S
<1>7. r \in [0 .. Parts -> Wides]
  BY <1>2, <1>6
<1>8. ASSUME NEW k \in Limbs
      PROVE  ClearFrom(r[k], Parts + k) /\ r[k + 1] = IF a[k] = 0 THEN r[k] ELSE AddRow(r[k], a[k], b, k)
  <2>1. k \in 0 .. Parts - 1 /\ k \in 0 .. Parts
    BY PartsIs DEF Limbs
  <2> QED BY <1>4, <1>6, <2>1
<1> QED BY <1>3, <1>7, <1>8 DEF Rowed

(* What is left of a mantissa above a limb, with places for those below.   *)
Left(a, k) == Tens(Top(Down(a), Parts - k), k * Log10)

LEMMA LeftIs ==
  ASSUME NEW a \in Mantissas, NEW k \in 0 .. Parts
  PROVE  Left(a, k) \in Nat
<1>1. Parts - k \in 0 .. Parts /\ k \in Nat
  BY PartsIs
<1>2. Top(Down(a), Parts - k) \in Nat
  BY <1>1, PartsIs, DownIs, TopNat
<1>3. k * Log10 \in Nat
  BY <1>1, Places
<1> QED BY <1>2, <1>3, TensNat DEF Left

LEMMA LeftEnds ==
  ASSUME NEW a \in Mantissas
  PROVE  Left(a, 0) = Value(a) /\ Left(a, Parts) = 0
<1>1. Left(a, 0) = Value(a)
  <2>1. Parts - 0 = Parts /\ 0 * Log10 = 0
    BY PartsIs, Places
  <2> QED BY <2>1, TensFirst DEF Left, Value
<1>2. Left(a, Parts) = 0
  <2>1. Parts - Parts = 0 /\ Parts * Log10 \in Nat
    BY PartsIs, Places
  <2> QED BY <2>1, TopFirst, TensZero DEF Left
<1> QED BY <1>1, <1>2

LEMMA LeftNext ==
  ASSUME NEW a \in Mantissas, NEW k \in Limbs
  PROVE  /\ Left(a, k + 1) \in Nat /\ Tens(a[k], k * Log10) \in Nat
         /\ Left(a, k) = Left(a, k + 1) + Tens(a[k], k * Log10)
<1>1. PICK j \in 0 .. Parts - 1, i \in Nat :
        j = Parts - (k + 1) /\ j + 1 = Parts - k /\ i = k /\ k + 1 \in 0 .. Parts /\ Parts - (j + 1) = k
  <2>1. Parts - (k + 1) \in 0 .. Parts - 1 /\ k \in Nat /\ k + 1 \in 0 .. Parts
        /\ (Parts - (k + 1)) + 1 = Parts - k /\ Parts - ((Parts - (k + 1)) + 1) = k
    BY PartsIs DEF Limbs
  <2> QED BY <2>1
<1>2. PICK t : t = Down(a)
  OBVIOUS
<1>3. IsLimbs(t, Parts) /\ t[j + 1] = a[k]
  <2>1. j + 1 \in 1 .. Parts
    BY PartsIs
  <2> QED BY <1>1, <1>2, <2>1, DownIs
<1>4. PICK x \in Nat, y \in Nat, z \in Nat :
        x = Top(t, j + 1) /\ y = Top(t, j) /\ z = a[k] /\ x = Base * y + z
  <2>1. Top(t, j + 1) = Base * Top(t, j) + t[j + 1] /\ Top(t, j) \in Nat /\ Top(t, j + 1) \in Nat
    BY <1>3, PartsIs, TopNext
  <2>2. a[k] \in Nat
    BY LimbIs, BaseIs
  <2> QED BY <1>3, <2>1, <2>2
<1>5. PICK p \in Nat : p = i * Log10 /\ (i + 1) * Log10 = p + Log10
  BY Places
<1>6. Log10 \in Nat /\ 0 + Log10 = Log10
  BY BaseIs
<1>7. Tens(y, Log10) = Base * y
  <2>1. Tens(y, 0 + Log10) = Base * Tens(y, 0)
    BY TensLimb
  <2> QED BY <1>6, <2>1, TensFirst
<1>8. PICK w \in Nat : w = Base * y /\ x = w + z
  BY <1>4, BaseIs, NatTimes
<1>9. Tens(x, p) = Tens(w, p) + Tens(z, p)
  BY <1>8, TensSum
<1>10. Tens(w, p) = Tens(y, p + Log10)
  <2>1. Tens(Tens(y, Log10), p) = Tens(y, Log10 + p)
    BY <1>6, TensTwice
  <2>2. Log10 + p = p + Log10
    BY <1>6
  <2> QED BY <1>7, <1>8, <2>1, <2>2
<1>11. Left(a, k + 1) = Tens(y, p + Log10)
  BY <1>1, <1>2, <1>4, <1>5 DEF Left
<1>12. Left(a, k) = Tens(x, p)
  BY <1>1, <1>2, <1>4, <1>5 DEF Left
<1>13. Tens(z, p) \in Nat /\ Left(a, k + 1) \in Nat
  BY <1>1, LeftIs, TensNat
<1> QED BY <1>1, <1>4, <1>5, <1>9, <1>10, <1>11, <1>12, <1>13

LEMMA Distributes ==
  ASSUME NEW x \in Nat, NEW y \in Nat, NEW v \in Nat
  PROVE  (x + y) * v = x * v + y * v
  OBVIOUS

(* The limbs of a product are worth the product.                           *)
LEMMA ProductValue ==
  ASSUME NEW a \in Mantissas, NEW b \in Mantissas
  PROVE  Product(a, b) \in Wides /\ WideValue(Product(a, b)) = Value(a) * Value(b)
<1>1. PICK r : Rowed(r, a, b) /\ Product(a, b) = r[Parts]
  BY RowsAre, RowsRowed
<1>2. PICK v \in Nat : v = Value(b)
  BY ValueBelow
<1>3. PICK vv \in Nat : vv = Value(a) * v
  BY ValueBelow, NatTimes
<1>4. r[0] = NoWide /\ \A k \in 0 .. Parts : r[k] \in Wides
  BY <1>1 DEF Rowed
<1>5. \A m \in Wides : WideValue(m) \in Nat
  <2> TAKE m \in Wides
  <2>1. IsLimbs(Spread(m), Wide) /\ Wide \in 0 .. Wide
    BY SpreadIs, WideIs
  <2> QED BY <2>1, WideIs, TopNat DEF WideValue
<1>6. ASSUME NEW k \in 0 .. Parts - 1, WideValue(r[k]) + Left(a, k) * v = vv
      PROVE  WideValue(r[k + 1]) + Left(a, k + 1) * v = vv
  <2>1. k \in Limbs /\ k \in 0 .. Parts /\ k \in Nat
    BY PartsIs DEF Limbs
  <2>2. PICK m \in Wides : m = r[k] /\ ClearFrom(m, Parts + k)
    BY <1>1, <1>4, <2>1 DEF Rowed
  <2>3. PICK x \in 0 .. Base - 1, xx \in Nat : x = a[k] /\ xx = x
    BY <2>1, LimbIs, BaseIs
  <2>4. PICK p \in Nat : p = k * Log10
    BY <2>1, Places
  <2>5. PICK y \in Nat, z \in Nat : y = Left(a, k + 1) /\ z = Tens(xx, p) /\ Left(a, k) = y + z
    BY <2>1, <2>3, <2>4, LeftNext
  <2>6. (y + z) * v = y * v + z * v
    BY Distributes
  <2>7. z * v = xx * Tens(v, p)
    BY <2>5, TensProduct
  <2>8. PICK yv \in Nat, zv \in Nat, wm \in Nat : yv = y * v /\ zv = z * v /\ wm = WideValue(m)
    BY <1>5, NatTimes
  <2>9. wm + (yv + zv) = vv
    BY <1>6, <2>2, <2>5, <2>6, <2>8
  <2>10. WideValue(r[k + 1]) = wm + zv
    <3>1. CASE a[k] = 0
      <4>1. r[k + 1] = m
        BY <1>1, <2>1, <2>2, <3>1 DEF Rowed
      <4>2. xx * Tens(v, p) = 0
        <5>1. xx = 0 /\ Tens(v, p) \in Nat
          BY <2>3, <3>1, TensNat
        <5> QED BY <5>1
      <4> QED BY <2>7, <2>8, <4>1, <4>2
    <3>2. CASE a[k] # 0
      <4>1. r[k + 1] = AddRow(m, x, b, k)
        BY <1>1, <2>1, <2>2, <2>3, <3>2 DEF Rowed
      <4>2. WideValue(AddRow(m, x, b, k)) = WideValue(m) + x * Tens(Value(b), k * Log10)
        BY <2>1, <2>2, AddRowIs
      <4> QED BY <1>2, <2>3, <2>4, <2>7, <2>8, <4>1, <4>2
    <3> QED BY <3>1, <3>2
  <2>11. (wm + zv) + yv = vv
    BY <2>9
  <2> QED BY <2>5, <2>8, <2>10, <2>11
<1>7. WideValue(r[0]) + Left(a, 0) * v = vv
  <2>1. Left(a, 0) * v = vv
    BY <1>3, LeftEnds
  <2>2. WideValue(r[0]) = 0
    BY <1>4, NoWideIs
  <2> QED BY <1>3, <2>1, <2>2
<1>8. WideValue(r[Parts]) + Left(a, Parts) * v = vv
  <2> DEFINE S == {k \in 0 .. Parts : WideValue(r[k]) + Left(a, k) * v = vv}
  <2>1. 0 \in S
    BY <1>7, PartsIs
  <2>2. ASSUME NEW k \in 0 .. Parts - 1, k \in S PROVE k + 1 \in S
    <3>1. k + 1 \in 0 .. Parts
      BY PartsIs
    <3> QED BY <1>6, <2>2, <3>1
  <2> HIDE DEF S
  <2>3. \A k \in 0 .. Parts : k \in S
    BY <2>1, <2>2, PartsIs, Inductive
  <2>4. Parts \in 0 .. Parts
    BY PartsIs
  <2> QED BY <2>3, <2>4 DEF S
<1>9. Left(a, Parts) * v = 0
  <2>1. Left(a, Parts) = 0
    BY LeftEnds
  <2> QED BY <2>1
<1>10. Parts \in 0 .. Parts
  BY PartsIs
<1>11. r[Parts] \in Wides /\ WideValue(r[Parts]) \in Nat
  BY <1>4, <1>5, <1>10
<1>12. WideValue(r[Parts]) = vv
  BY <1>8, <1>9, <1>11
<1> QED BY <1>1, <1>2, <1>3, <1>11, <1>12

----------------------------------------------------------------------------
(* Products that fit into a mantissa.                                     *)
LEMMA HalvesAre ==
  ASSUME NEW m \in Wides
  PROVE  From(m, Parts) \in Mantissas /\ From(m, 0) \in Mantissas
<1>1. \A i \in Limbs : Parts + i \in 0 .. 2 * Parts - 1 /\ 0 + i \in 0 .. 2 * Parts - 1
  BY PartsIs DEF Limbs
<1>2. \A i \in Limbs : m[Parts + i] \in 0 .. Base - 1 /\ m[0 + i] \in 0 .. Base - 1
  BY <1>1 DEF Wides
<1> QED BY <1>2 DEF From, Mantissas

(* A product that fits into a mantissa is the lower one of the two.        *)
LEMMA LowerHalf ==
  ASSUME NEW m \in Wides, WideValue(m) < Ten(Positions)
  PROVE  decimal_num_digits(From(m, Parts)) = 0 /\ Value(From(m, 0)) = WideValue(m)
<1>1. PICK h \in Mantissas, l \in Mantissas : h = From(m, Parts) /\ l = From(m, 0)
  BY HalvesAre
<1>2. PICK t : t = Spread(m)
  OBVIOUS
<1>3. IsLimbs(t, Wide) /\ \A j \in 1 .. Wide : t[j] = m[Wide - j]
  BY <1>2, SpreadIs
<1>4. PICK W \in Nat, P \in Nat : W = Wide /\ P = Parts /\ W = P + P /\ P > 0 /\ P \in 0 .. W /\ Limbs = 0 .. P - 1
  BY WideIs, PartsIs DEF Limbs
<1>5. \A j \in 1 .. P : Down(h)[j] = t[j]
  <2> TAKE j \in 1 .. P
  <2>1. j \in 1 .. W /\ P - j \in Limbs /\ P + (P - j) = W - j
    BY <1>4
  <2>2. Down(h)[j] = h[P - j]
    BY <1>4, DownIs
  <2>3. h[P - j] = m[P + (P - j)]
    BY <1>1, <1>4, <2>1 DEF From
  <2> QED BY <1>3, <1>4, <2>1, <2>2, <2>3
<1>6. Top(t, P) = Value(h)
  BY <1>4, <1>5, AgreeTops DEF Value
<1>7. PICK v \in Nat, w \in Nat, p \in Nat :
        v = Value(h) /\ w = WideValue(m) /\ p = Positions /\ p = P * Log10 /\ Tens(v, p) <= w /\ w < Ten(p)
  <2>1. Value(h) \in Nat
    BY ValueBelow
  <2>2. WideValue(m) \in Nat
    <3>1. Wide \in Nat /\ Wide \in 0 .. Wide
      BY WideIs
    <3> QED BY <1>2, <1>3, <3>1, TopNat DEF WideValue
  <2>3. Positions \in Nat /\ Positions = P * Log10
    BY <1>4, PositionsIs
  <2>4. Tens(Top(t, P), P * Log10) <= Top(t, W)
    BY <1>3, <1>4, TopRest
  <2> QED BY <1>2, <1>4, <1>6, <2>1, <2>2, <2>3, <2>4 DEF WideValue
<1>8. v = 0
  <2> SUFFICES ASSUME v # 0 PROVE FALSE
    OBVIOUS
  <2>1. 1 <= v /\ 1 \in Int
    BY <1>7
  <2>2. Tens(1, p) <= Tens(v, p)
    BY <2>1, <1>7, TensAtMost
  <2>3. Ten(p) = Tens(1, p) /\ Ten(p) \in Nat
    BY <1>7, TenIs
  <2>4. Tens(v, p) \in Nat
    BY <1>7, TensNat
  <2> QED BY <1>7, <2>2, <2>3, <2>4
<1>9. decimal_num_digits(h) = 0
  <2>1. decimal_num_digits(h) <= 0
    <3>1. Value(h) < Ten(0) /\ 0 \in Nat
      BY <1>7, <1>8, TenFew
    <3> QED BY <3>1, NumDigitsAtMost
  <2>2. decimal_num_digits(h) \in 0 .. Positions
    BY NumDigits
  <2> QED BY <2>1, <2>2, PositionsIs
<1>10. \A i \in Limbs : h[i] = 0
  <2> SUFFICES ASSUME NEW i \in Limbs, Highest(h, i), decimal_num_digits(h) = i * Log10 + DigitsOf(h[i]) PROVE FALSE
    BY HighestIs
  <2>1. h[i] \in 0 .. Base - 1 /\ h[i] # 0
    BY LimbIs DEF Highest
  <2>2. DigitsOf(h[i]) \in Nat /\ DigitsOf(h[i]) > 0
    BY <2>1, DigitsOfIs, BaseIs
  <2>3. i * Log10 \in Nat
    BY <1>4, Places
  <2> QED BY <1>9, <2>2, <2>3
<1>11. \A j \in 1 .. P : t[j] = 0
  <2> TAKE j \in 1 .. P
  <2>1. P - j \in Limbs
    BY <1>4
  <2>2. Down(h)[j] = h[P - j]
    BY <1>4, DownIs
  <2> QED BY <1>5, <1>10, <2>1, <2>2
<1>12. PICK s : s = [j \in 1 .. W |-> IF j <= P THEN Down(l)[j] ELSE 0]
  OBVIOUS
<1>13. IsLimbs(s, W)
  <2>1. 0 \in 0 .. Base - 1
    BY BaseIs
  <2>2. \A j \in 1 .. W : j <= P => Down(l)[j] \in 0 .. Base - 1
    BY <1>4, DownIs DEF IsLimbs
  <2> QED BY <1>12, <2>1, <2>2 DEF IsLimbs
<1>14. \A j \in P + 1 .. W : t[j] = s[j - P]
  <2> TAKE j \in P + 1 .. W
  <2>1. j \in 1 .. W /\ j - P \in 1 .. W /\ j - P <= P /\ P - (j - P) \in Limbs /\ 0 + (P - (j - P)) = W - j
        /\ j - P \in 1 .. P
    BY <1>4
  <2>2. s[j - P] = Down(l)[j - P]
    BY <1>12, <2>1
  <2>3. Down(l)[j - P] = l[P - (j - P)]
    BY <1>4, <2>1, DownIs
  <2>4. l[P - (j - P)] = m[W - j]
    BY <1>1, <2>1 DEF From
  <2> QED BY <1>3, <1>4, <2>1, <2>2, <2>3, <2>4
<1>15. Top(t, W) = Top(s, W - P)
  BY <1>3, <1>4, <1>11, <1>13, <1>14, ZerosBefore
<1>16. Top(s, P) = Value(l)
  <2>1. \A j \in 1 .. P : s[j] = Down(l)[j]
    <3> TAKE j \in 1 .. P
    <3>1. j \in 1 .. W /\ j <= P
      BY <1>4
    <3> QED BY <1>12, <3>1
  <2> QED BY <1>4, <2>1, AgreeTops DEF Value
<1>17. W - P = P
  BY <1>4
<1> QED BY <1>1, <1>2, <1>4, <1>9, <1>15, <1>16, <1>17 DEF WideValue

LEMMA LessProduct ==
  ASSUME NEW X \in Nat, NEW Y \in Nat, NEW x \in Nat, NEW y \in Nat, x < X, y < Y
  PROVE  x * y \in Nat /\ x * y < X * Y
<1>1. x * y \in Nat /\ X * y \in Nat /\ x * y <= X * y
  BY LessTimes
<1>2. PICK z \in Nat : z = Y - 1 /\ y \in 0 .. z /\ Y = z + 1
  <2>1. Y - 1 \in Nat /\ y \in 0 .. Y - 1 /\ Y = (Y - 1) + 1
    OBVIOUS
  <2> QED BY <2>1
<1>3. y * X <= z * X /\ y * X \in Nat /\ z * X \in Nat
  BY <1>2, LessTimes, NatTimes
<1>4. X * Y = z * X + X /\ X * y = y * X
  BY <1>2
<1> QED BY <1>1, <1>3, <1>4

LEMMA TenProduct ==
  ASSUME NEW k \in Nat, NEW n \in Nat
  PROVE  Ten(k) * Ten(n) = Ten(k + n)
<1>1. PICK w \in Nat : w = Ten(k) /\ w = Tens(1, k)
  BY TenIs
<1>2. w * Tens(1, n) = Tens(w, n) * 1
  BY TensProduct
<1>3. Tens(w, n) = Tens(1, k + n) /\ Tens(w, n) \in Nat
  <2>1. 1 \in Int /\ w \in Nat
    OBVIOUS
  <2>2. Tens(Tens(1, k), n) = Tens(1, k + n)
    BY <2>1, TensTwice
  <2> QED BY <1>1, <2>1, <2>2, TensNat
<1>4. Ten(n) = Tens(1, n) /\ Ten(k + n) = Tens(1, k + n)
  BY TenIs
<1> QED BY <1>1, <1>2, <1>3, <1>4

(* Operands whose digits fit into one mantissa together.                   *)
LEMMA ProductFits ==
  ASSUME NEW a, NEW b, Sized(a), Sized(b), a.n + b.n <= Positions
  PROVE  Value(a.m) * Value(b.m) < Ten(Positions)
<1>1. PICK x \in Nat, y \in Nat, k \in Nat, n \in Nat :
        x = Value(a.m) /\ y = Value(b.m) /\ k = a.n /\ n = b.n /\ x < Ten(k) /\ y < Ten(n)
  <2>1. a.n \in Nat /\ b.n \in Nat
    BY DEF Sized
  <2> QED BY <2>1, SizedIs
<1>2. x * y < Ten(k) * Ten(n) /\ x * y \in Nat
  BY <1>1, TenIs, LessProduct
<1>3. Ten(k) * Ten(n) = Ten(k + n)
  BY TenProduct
<1>4. Ten(k + n) <= Ten(Positions) /\ Ten(k + n) \in Nat /\ Ten(Positions) \in Nat
  <2>1. k + n \in Nat /\ k + n <= Positions /\ Positions \in Nat
    BY <1>1, PositionsIs
  <2> QED BY <2>1, TenGrows, TenIs
<1> QED BY <1>1, <1>2, <1>3, <1>4

(* What decimal_mul gives where the product fits.                          *)
Exact(a, b, d) ==
  /\ Made(d) /\ Value(d.m) = Value(a.m) * Value(b.m)
  /\ Value(d.m) # 0 => d.sign = a.sign * b.sign /\ d.e = a.e + b.e

LEMMA ProductIs ==
  ASSUME NEW a, NEW b, Sized(a), Sized(b), NEW old, NEW R, R = decimal_mul(a, b, old), R.ret = "ok",
         Value(a.m) * Value(b.m) < Ten(Positions)
  PROVE  Exact(a, b, R.d)
<1>1. PICK x \in Mantissas, y \in Mantissas : x = a.m /\ y = b.m
  BY SizedIs
<1>2. PICK m \in Wides : m = Product(a.m, b.m) /\ WideValue(m) = Value(x) * Value(y)
  BY <1>1, ProductValue
<1>3. decimal_num_digits(From(m, Parts)) = 0 /\ Value(From(m, 0)) = WideValue(m)
  BY <1>1, <1>2, LowerHalf
<1>4. PICK l \in Mantissas : l = From(m, 0)
  BY HalvesAre
<1>5. PICK n \in 0 .. Positions : n = decimal_num_digits(l)
  BY NumDigits
<1>6. ~ (n > Positions)
  BY PositionsIs
<1>7. a.e \in Int /\ b.e \in Int
  BY SizedIs
<1>8. PICK e \in Int : e = a.e + b.e /\ a.e + b.e + 0 = e
  BY <1>7
<1>9. PICK s \in {1, -1} : s = IF a.sign = b.sign \/ a.n = 0 THEN 1 ELSE -1
  OBVIOUS
<1>10. R = IF e \notin MinExponent .. MaxExponent THEN Error(old) ELSE Number(s, e, n, l)
  BY <1>2, <1>3, <1>4, <1>5, <1>6, <1>8, <1>9 DEF decimal_mul
<1>11. e \in MinExponent .. MaxExponent /\ R.d = [sign |-> s, e |-> e, n |-> n, m |-> l]
  <2>1. Error(old).ret # "ok"
    BY DEF Error
  <2> QED BY <1>10, <2>1 DEF Number
<1>12. Made(R.d)
  BY <1>5, <1>11, MadeIs
<1>13. R.d.m = l /\ R.d.sign = s /\ R.d.e = e
  BY <1>11
<1>14. Value(R.d.m) = Value(a.m) * Value(b.m)
  BY <1>1, <1>2, <1>3, <1>4, <1>13
<1>15. ASSUME Value(R.d.m) # 0 PROVE s = a.sign * b.sign
  <2>1. a.n # 0
    <3> SUFFICES ASSUME a.n = 0 PROVE FALSE
      OBVIOUS
    <3>1. Value(a.m) \in Nat /\ Value(a.m) < 1
      BY SizedIs, TenFew
    <3>2. Value(a.m) = 0
      BY <3>1
    <3>3. Value(b.m) \in Nat
      BY SizedIs
    <3> QED BY <1>14, <1>15, <3>2, <3>3
  <2>2. a.sign \in {1, -1} /\ b.sign \in {1, -1}
    BY SizedIs
  <2> QED BY <1>9, <2>1, <2>2
<1> QED BY <1>8, <1>12, <1>13, <1>14, <1>15 DEF Exact

----------------------------------------------------------------------------
(* Quotients by one limb.  Division, and the highest limb.                *)
LEMMA DividesBy ==
  ASSUME NEW w \in Nat, NEW d \in Nat, d > 0
  PROVE  w \div d \in Nat /\ w % d \in Nat /\ w % d < d /\ w = d * (w \div d) + (w % d)
  OBVIOUS

LEMMA QuotientOnce ==
  ASSUME NEW d \in Nat, NEW q \in Nat, NEW r \in Nat, NEW u \in Nat, NEW v \in Nat,
         r < d, v < d, d * q + r = d * u + v
  PROVE  q = u
<1>1. ASSUME NEW x \in Nat, NEW y \in Nat, NEW z \in Nat, NEW w \in Nat, z < d, w < d,
             d * x + z = d * y + w
      PROVE  ~ (x < y)
  <2> SUFFICES ASSUME x < y PROVE FALSE
    OBVIOUS
  <2>1. PICK g \in Nat : g = y - (x + 1) /\ y = x + 1 + g
    <3>1. y - (x + 1) \in Nat /\ y = x + 1 + (y - (x + 1))
      OBVIOUS
    <3> QED BY <3>1
  <2>2. d * y = d * x + d + d * g /\ d * x \in Nat /\ d * g \in Nat
    BY <2>1
  <2> QED BY <1>1, <2>2
<1>2. ~ (q < u)
  BY <1>1
<1>3. ~ (u < q)
  BY <1>1
<1> QED BY <1>2, <1>3

LEMMA TimesSum ==
  ASSUME NEW d \in Nat, NEW x \in Nat, NEW y \in Nat
  PROVE  /\ d * (Base * x + y) = Base * (d * x) + d * y
         /\ d * (10 * x + y) = 10 * (d * x) + d * y
  BY BaseIs

(* One limb of a quotient.                                                 *)
LEMMA QuotientLimb ==
  ASSUME NEW d \in 1 .. Base - 1, NEW r \in 0 .. d - 1, NEW y \in 0 .. Base - 1,
         NEW w, w = r * Base + y
  PROVE  /\ w \in Nat /\ w \div d \in 0 .. Base - 1 /\ w % d \in 0 .. d - 1
         /\ w = d * (w \div d) + (w % d)
<1>1. PICK e \in Nat, rr \in Nat, yy \in Nat, rb \in Nat :
        e = d /\ e > 0 /\ rr = r /\ rr < e /\ yy = y /\ yy < Base /\ rb = rr * Base
  <2>1. d \in Nat /\ d > 0 /\ r \in Nat /\ r < d /\ y \in Nat /\ y < Base
    BY BaseIs
  <2> QED BY <2>1, BaseIs, NatTimes
<1>2. w \in Nat /\ w = rb + yy
  BY <1>1
<1>3. PICK q \in Nat, g \in Nat : q = w \div e /\ g = w % e /\ g < e /\ w = e * q + g
  <2>1. w \in Nat /\ e \in Nat /\ e > 0
    BY <1>1, <1>2
  <2>2. w \div e \in Nat /\ w % e \in Nat /\ w % e < e /\ w = e * (w \div e) + (w % e)
    BY ONLY <2>1, DividesBy
  <2> QED BY <2>2
<1>4. q < Base
  <2> SUFFICES ASSUME ~ (q < Base) PROVE FALSE
    OBVIOUS
  <2>1. PICK h \in Nat : q = Base + h
    <3>1. q - Base \in Nat /\ q = Base + (q - Base)
      BY BaseIs
    <3> QED BY <3>1
  <2>2. PICK k \in Nat : e = (rr + 1) + k
    <3>1. e - (rr + 1) \in Nat /\ e = (rr + 1) + (e - (rr + 1))
      BY <1>1
    <3> QED BY <3>1
  <2>3. e * q = e * Base + e * h /\ e * h \in Nat /\ e * Base = rr * Base + Base + k * Base /\ k * Base \in Nat
    BY <2>1, <2>2, BaseIs
  <2> QED BY <1>1, <1>2, <1>3, <2>3, BaseIs
<1> QED BY <1>1, <1>2, <1>3, <1>4, BaseIs

(* The limb a count of digits stands for.                                  *)
LEMMA HighLimbIs ==
  ASSUME NEW a, Sized(a), a.n = decimal_num_digits(a.m), a.n > 0
  PROVE  Highest(a.m, HighLimb(a))
<1>1. PICK n \in Nat : n = a.n /\ n > 0
  BY SizedIs, PositionsIs
<1>2. PICK i \in Limbs : Highest(a.m, i) /\ n = i * Log10 + DigitsOf(a.m[i])
  <2>1. a.m \in Mantissas /\ decimal_num_digits(a.m) # 0
    BY <1>1, SizedIs
  <2> QED BY <1>1, <2>1, HighestIs
<1>3. PICK g \in 1 .. Log10, k \in Nat : g = DigitsOf(a.m[i]) /\ k = i /\ n = k * Log10 + g
  <2>1. a.m \in Mantissas
    BY SizedIs
  <2>2. a.m[i] \in 0 .. Base - 1 /\ a.m[i] # 0
    BY <1>2, <2>1, LimbIs DEF Highest
  <2>3. a.m[i] > 0
    BY <2>2, BaseIs
  <2>4. DigitsOf(a.m[i]) \in 0 .. Log10 /\ DigitsOf(a.m[i]) > 0
    BY <2>2, <2>3, DigitsOfIs
  <2>5. DigitsOf(a.m[i]) \in 1 .. Log10
    BY <2>4, BaseIs
  <2>6. i \in Nat
    BY PartsIs DEF Limbs
  <2> QED BY <1>2, <2>5, <2>6
<1>4. (n - 1) \div Log10 = k
  <2>1. CASE Log10 = 1
    BY <1>3, <2>1
  <2>2. CASE Log10 = 2
    BY <1>3, <2>2
  <2>3. CASE Log10 = 3
    BY <1>3, <2>3
  <2>4. CASE Log10 = 4
    BY <1>3, <2>4
  <2> QED BY <2>1, <2>2, <2>3, <2>4, BaseIs
<1>5. HighLimb(a) = i
  BY <1>1, <1>3, <1>4 DEF HighLimb
<1> QED BY <1>2, <1>5

(* The value of a mantissa with the lowest limb only.                      *)
LEMMA OneLimb ==
  ASSUME NEW m \in Mantissas, Highest(m, 0)
  PROVE  Value(m) = m[0] /\ m[0] \in 1 .. Base - 1
<1>1. PICK P \in Nat : P = Parts - 1 /\ P + 1 = Parts /\ P \in 0 .. Parts /\ P \in 0 .. Parts - 1
  BY PartsIs
<1>9. PICK t : t = Down(m)
  OBVIOUS
<1>2. IsLimbs(t, Parts) /\ \A j \in 1 .. Parts : t[j] = m[Parts - j]
  BY <1>9, DownIs
<1>3. \A j \in 1 .. P : t[j] = 0
  <2> TAKE j \in 1 .. P
  <2>1. j \in 1 .. Parts /\ Parts - j \in Limbs /\ Parts - j > 0
    BY <1>1, PartsIs DEF Limbs
  <2> QED BY <1>2, <2>1 DEF Highest
<1>4. Top(t, P) = 0
  <2>1. IsLimbs(t, P) /\ P \in 0 .. P
    <3>1. \A j \in 1 .. P : j \in 1 .. Parts
      BY <1>1
    <3> QED BY <1>2, <3>1 DEF IsLimbs
  <2> QED BY <1>3, <2>1, TopOfZeros
<1>5. Top(t, P + 1) = Base * 0 + t[P + 1]
  BY <1>1, <1>2, <1>4, PartsIs, TopNext
<1>6. t[Parts] = m[0] /\ 0 \in Limbs
  <2>1. Parts \in 1 .. Parts /\ Parts - Parts = 0 /\ 0 \in Limbs
    BY PartsIs DEF Limbs
  <2> QED BY <1>2, <2>1
<1>7. m[0] \in 0 .. Base - 1 /\ m[0] # 0
  BY <1>6, LimbIs DEF Highest
<1>8. m[0] \in 1 .. Base - 1
  BY <1>7, BaseIs
<1> QED BY <1>1, <1>5, <1>6, <1>8, <1>9, BaseIs DEF Value

----------------------------------------------------------------------------
(* Division limb by limb.                                                 *)
(* Limbs t divided by d, from the highest: the limbs s of the quotient and *)
(* what is left of the dividend.                                           *)
Divided(t, s, r, d, N) ==
  /\ r \in [0 .. N -> 0 .. d - 1] /\ t[1] = r[0]
  /\ \A k \in 1 .. N : /\ s[k] = (r[k - 1] * Base + t[k + 1]) \div d
                       /\ r[k] = (r[k - 1] * Base + t[k + 1]) % d

LEMMA DividedIs ==
  ASSUME NEW N \in Nat, NEW t, NEW s, NEW r, NEW d \in 1 .. Base - 1, IsLimbs(t, N + 1),
         Divided(t, s, r, d, N)
  PROVE  IsLimbs(s, N) /\ Top(s, N) \in Nat /\ r[N] \in Nat /\ r[N] < d /\ Top(t, N + 1) = d * Top(s, N) + r[N]
<1>1. d \in Nat /\ d > 0
  BY BaseIs
<1>2. \A k \in 0 .. N : r[k] \in 0 .. d - 1 /\ r[k] \in Nat /\ r[k] < d
  BY <1>1 DEF Divided
<1>3. \A k \in 1 .. N : /\ r[k - 1] \in 0 .. d - 1 /\ t[k + 1] \in 0 .. Base - 1
                        /\ s[k] \in 0 .. Base - 1
                        /\ r[k - 1] * Base + t[k + 1] = d * s[k] + r[k]
  <2> TAKE k \in 1 .. N
  <2>1. PICK x \in 0 .. d - 1, y \in 0 .. Base - 1 : x = r[k - 1] /\ y = t[k + 1]
    <3>1. k - 1 \in 0 .. N /\ k + 1 \in 1 .. N + 1
      OBVIOUS
    <3> QED BY <1>2, <3>1 DEF IsLimbs
  <2>2. PICK w : w = x * Base + y
    OBVIOUS
  <2>3. s[k] = w \div d /\ r[k] = w % d
    BY <2>1, <2>2 DEF Divided
  <2>4. /\ w \in Nat /\ w \div d \in 0 .. Base - 1 /\ w % d \in 0 .. d - 1
        /\ w = d * (w \div d) + (w % d)
    BY <2>2, QuotientLimb
  <2> QED BY <2>1, <2>2, <2>3, <2>4
<1>4. IsLimbs(s, N)
  BY <1>3 DEF IsLimbs
<1>5. Top(t, 0 + 1) = d * Top(s, 0) + r[0]
  <2>1. Top(t, 0 + 1) = Base * Top(t, 0) + t[0 + 1]
    BY TopNext
  <2>2. r[0] \in Nat /\ t[0 + 1] = r[0]
    BY <1>2 DEF Divided
  <2> QED BY <1>1, <2>1, <2>2, TopFirst, BaseIs
<1>6. ASSUME NEW k \in 0 .. N - 1, Top(t, k + 1) = d * Top(s, k) + r[k]
      PROVE  Top(t, (k + 1) + 1) = d * Top(s, k + 1) + r[k + 1]
  <2>1. k + 1 \in 0 .. N /\ k + 1 \in 1 .. N /\ k \in 0 .. N /\ (k + 1) - 1 = k
    OBVIOUS
  <2>2. Top(t, (k + 1) + 1) = Base * Top(t, k + 1) + t[(k + 1) + 1] /\ Top(t, k + 1) \in Nat
    BY <2>1, TopNext
  <2>3. Top(s, k + 1) = Base * Top(s, k) + s[k + 1] /\ Top(s, k) \in Nat
    BY <1>4, TopNext
  <2>4. r[k] * Base + t[(k + 1) + 1] = d * s[k + 1] + r[k + 1]
    BY <1>3, <2>1
  <2>5. PICK v \in Nat, x \in Nat, y \in Nat, z \in Nat, g \in Nat, h \in Nat :
          /\ v = Top(t, k + 1) /\ x = Top(s, k) /\ y = s[k + 1] /\ z = t[(k + 1) + 1]
          /\ g = r[k] /\ h = r[k + 1]
    <3>1. s[k + 1] \in Nat /\ t[(k + 1) + 1] \in Nat
      BY <1>3, <2>1, BaseIs
    <3>2. r[k] \in Nat /\ r[k + 1] \in Nat
      BY <1>2, <2>1
    <3> QED BY <2>2, <2>3, <3>1, <3>2
  <2>6. PICK dx \in Nat, dy \in Nat : dx = d * x /\ dy = d * y
    BY <1>1, NatTimes
  <2>7. d * (Base * x + y) = Base * dx + dy
    BY <1>1, <2>6, TimesSum
  <2>8. v = dx + g /\ g * Base + z = dy + h
    BY <1>6, <2>4, <2>5, <2>6
  <2>9. Base * v + z = (Base * dx + dy) + h
    <3> HIDE <1>6
    <3> QED BY <2>8, BaseIs
  <2> QED BY <2>2, <2>3, <2>5, <2>7, <2>9
<1>7. Top(t, N + 1) = d * Top(s, N) + r[N]
  <2> DEFINE S == {k \in 0 .. N : Top(t, k + 1) = d * Top(s, k) + r[k]}
  <2>1. 0 \in S
    BY <1>5
  <2>2. ASSUME NEW k \in 0 .. N - 1, k \in S PROVE k + 1 \in S
    <3>1. k + 1 \in 0 .. N
      OBVIOUS
    <3> QED BY <1>6, <2>2, <3>1
  <2> HIDE DEF S
  <2>3. \A k \in 0 .. N : k \in S
    BY <2>1, <2>2, Inductive
  <2> QED BY <2>3 DEF S
<1>8. Top(s, N) \in Nat
  BY <1>4, TopNat
<1> QED BY <1>2, <1>4, <1>7, <1>8

(* The limbs of a mantissa from its highest one, with p limbs of 0 before  *)
(* it and limbs of 0 behind it.                                            *)
DividendLimbs(a, m, p) == [j \in 1 .. Parts + 1 |-> Limb(a, m + p + 1 - j)]

LEMMA DividendIs ==
  ASSUME NEW a \in Mantissas, NEW m \in Limbs, Highest(a, m), NEW p \in {0, 1}
  PROVE  /\ IsLimbs(DividendLimbs(a, m, p), Parts + 1) /\ Parts - m - p \in Nat
         /\ Top(DividendLimbs(a, m, p), Parts + 1) = Tens(Value(a), (Parts - m - p) * Log10)
<1>1. PICK N \in Nat, K \in Nat, z \in Nat :
        /\ N = Parts + 1 /\ K = m + p + 1 /\ z = Parts - m - p /\ K + z = N /\ K \in 0 .. N /\ z \in 0 .. N
        /\ N - z = K /\ m \in Nat /\ K > m /\ N - 1 = Parts /\ 1 \in 0 .. N
  <2>1. /\ Parts + 1 \in Nat /\ m + p + 1 \in Nat /\ Parts - m - p \in Nat
        /\ (m + p + 1) + (Parts - m - p) = Parts + 1 /\ m + p + 1 > m
    BY PartsIs DEF Limbs
  <2>2. m \in Nat
    BY PartsIs DEF Limbs
  <2> QED BY <2>1, <2>2, PartsIs
<1>2. PICK t : t = DividendLimbs(a, m, p) /\ \A j \in 1 .. N : t[j] = Limb(a, K - j)
  <2> SUFFICES ASSUME NEW j \in 1 .. N PROVE DividendLimbs(a, m, p)[j] = Limb(a, K - j)
    OBVIOUS
  <2>1. j \in 1 .. Parts + 1 /\ m + p + 1 - j = K - j
    BY <1>1
  <2> QED BY <2>1 DEF DividendLimbs
<1>3. PICK h \in Nat, P \in Nat : h = m /\ P = Parts /\ h < K /\ K + z = N /\ P + 1 = N /\ h < P
  <2>1. m < Parts
    BY <1>1 DEF Limbs
  <2> QED BY <1>1, <2>1, PartsIs
<1>4. PICK w : w = [j \in 1 .. N |-> Limb(a, N - j)]
  OBVIOUS
<1>5. \A i \in Int : Limb(a, i) \in 0 .. Base - 1 /\ (i < 0 \/ i > m => Limb(a, i) = 0)
  <2> TAKE i \in Int
  <2>1. CASE i \in Limbs
    <3>1. Limb(a, i) = a[i] /\ ~ (i < 0)
      BY <2>1, LimbOf DEF Limbs
    <3> QED BY <2>1, <3>1, LimbOf DEF Highest
  <2>2. CASE i \notin Limbs
    BY <2>2, LimbOf
  <2> QED BY <2>1, <2>2
<1>6. IsLimbs(t, N) /\ IsLimbs(w, N)
  <2>1. \A j \in 1 .. N : K - j \in Int /\ N - j \in Int
    BY <1>1
  <2> QED BY <1>2, <1>4, <1>5, <2>1 DEF IsLimbs
<1>7. Top(t, N) = Tens(Top(t, K), z * Log10)
  <2>1. \A j \in K + 1 .. N : t[j] = 0
    <3> TAKE j \in K + 1 .. N
    <3>1. j \in 1 .. N /\ K - j \in Int /\ K - j < 0
      BY <1>1
    <3> QED BY <1>2, <1>5, <3>1
  <2> QED BY <1>1, <1>6, <2>1, ZerosBehindLimbs
<1>8. Top(w, N) = Top(t, N - z)
  <2>1. \A j \in 1 .. z : w[j] = 0
    <3> TAKE j \in 1 .. z
    <3>1. j \in 1 .. N /\ N - j \in Int /\ N - j > m
      BY <1>3
    <3> QED BY <1>4, <1>5, <3>1
  <2>2. \A j \in z + 1 .. N : w[j] = t[j - z]
    <3> TAKE j \in z + 1 .. N
    <3>1. j \in 1 .. N /\ j - z \in 1 .. N /\ K - (j - z) = N - j
      BY <1>3
    <3> QED BY <1>2, <1>4, <3>1
  <2>3. z \in 0 .. N
    BY <1>1
  <2> QED BY <1>6, <2>1, <2>2, <2>3, ZerosBefore
<1>9. PICK s : s = [j \in 1 .. N |-> IF j <= Parts THEN Down(a)[j] ELSE 0]
  OBVIOUS
<1>10. \A j \in 1 .. N : j <= Parts => s[j] = a[Parts - j] /\ a[Parts - j] \in 0 .. Base - 1 /\ Parts - j \in Limbs
  <2> TAKE j \in 1 .. N
  <2> HAVE j <= Parts
  <2>1. j \in 1 .. Parts /\ Parts - j \in Limbs
    BY <1>1, PartsIs DEF Limbs
  <2> QED BY <1>9, <2>1, DownIs, LimbIs
<1>11. IsLimbs(s, N)
  <2>1. 0 \in 0 .. Base - 1
    BY BaseIs
  <2> QED BY <1>9, <1>10, <2>1 DEF IsLimbs
<1>12. Top(w, N) = Top(s, N - 1)
  <2>3. PICK o \in Nat : o = 1
    OBVIOUS
  <2>1. \A j \in 1 .. o : w[j] = 0
    <3> TAKE j \in 1 .. o
    <3>2. j = 1
      BY <2>3
    <3>1. j \in 1 .. N /\ N - j \in Int /\ N - j > m
      BY <1>3, <3>2
    <3> QED BY <1>4, <1>5, <3>1
  <2>2. \A j \in o + 1 .. N : w[j] = s[j - o]
    <3> TAKE j \in o + 1 .. N
    <3>1. j \in 1 .. N /\ j - o \in 1 .. N /\ j - o <= Parts /\ Parts - (j - o) = N - j
      BY <1>3, <2>3
    <3>2. s[j - o] = a[N - j] /\ N - j \in Limbs /\ N - j \in Int
      BY <1>3, <1>10, <3>1
    <3> QED BY <1>4, <3>1, <3>2, LimbOf
  <2>4. o \in 0 .. N
    BY <1>1, <2>3
  <2>5. Top(w, N) = Top(s, N - o)
    BY <1>6, <1>11, <2>1, <2>2, <2>4, ZerosBefore
  <2> QED BY <2>3, <2>5
<1>13. Top(s, Parts) = Value(a)
  <2>1. \A j \in 1 .. Parts : s[j] = Down(a)[j]
    BY <1>1, <1>9, PartsIs
  <2> QED BY <2>1, PartsIs, AgreeTops DEF Value
<1> QED BY <1>1, <1>2, <1>6, <1>7, <1>8, <1>12, <1>13

----------------------------------------------------------------------------
(* What is left of the dividend.                                          *)
(* What is left of the dividend after each limb.                           *)
Rests(r, x, d, m, p) ==
  r = [k \in 0 .. Parts |->
         IF k = 0 THEN (IF p = 0 THEN x[m] ELSE 0)
         ELSE (r[k - 1] * Base + Limb(x, m - k + p)) % d]

Prefix(x, d, m, p) ==
  /\ x \in Mantissas /\ d \in 1 .. Base - 1 /\ m \in Limbs /\ Highest(x, m)
  /\ p = IF x[m] < d THEN 0 ELSE 1

LEMMA FirstRest ==
  ASSUME NEW x, NEW d, NEW m, NEW p, Prefix(x, d, m, p)
  PROVE  (IF p = 0 THEN x[m] ELSE 0) \in 0 .. d - 1
<1>1. x[m] \in 0 .. Base - 1
  BY LimbIs DEF Prefix
<1>2. x[m] \in Nat /\ d \in Nat /\ d > 0
  BY <1>1, BaseIs DEF Prefix
<1>3. CASE x[m] < d
  BY <1>2, <1>3 DEF Prefix
<1>4. CASE ~ (x[m] < d)
  BY <1>2, <1>4 DEF Prefix
<1> QED BY <1>3, <1>4

LEMMA NextRest ==
  ASSUME NEW x, NEW d, NEW m, NEW p, Prefix(x, d, m, p), NEW k \in 1 .. Parts, NEW v \in 0 .. d - 1
  PROVE  (v * Base + Limb(x, m - k + p)) % d \in 0 .. d - 1
<1>1. m - k + p \in Int
  BY PartsIs DEF Prefix, Limbs
<1>2. PICK y \in 0 .. Base - 1 : y = Limb(x, m - k + p)
  BY <1>1, LimbOf DEF Prefix
<1>4. PICK w : w = v * Base + y
  OBVIOUS
<1>3. w % d \in 0 .. d - 1
  BY <1>4, QuotientLimb DEF Prefix
<1> QED BY <1>2, <1>3, <1>4

LEMMA RestsExist ==
  ASSUME NEW x, NEW d, NEW m, NEW p, Prefix(x, d, m, p)
  PROVE  \E r : Rests(r, x, d, m, p)
<1> DEFINE F == [k \in 1 .. Parts |-> [v \in 0 .. d - 1 |-> (v * Base + Limb(x, m - k + p)) % d]]
<1>1. PICK y \in 0 .. d - 1 : y = IF p = 0 THEN x[m] ELSE 0
  BY FirstRest
<1>2. Steps(F, Parts, 0 .. d - 1)
  BY NextRest DEF Steps
<1>3. \A k \in 1 .. Parts, v \in 0 .. d - 1 : F[k][v] = (v * Base + Limb(x, m - k + p)) % d
  OBVIOUS
<1> HIDE DEF F
<1>4. PICK r : Follows(r, y, F, Parts, 0 .. d - 1)
  BY <1>2, PartsIs, CourseOfSteps
<1>5. r = [k \in 0 .. Parts |-> r[k]] /\ r[0] = y
  BY <1>4 DEF Follows
<1>6. ASSUME NEW k \in 0 .. Parts
      PROVE  r[k] = IF k = 0 THEN (IF p = 0 THEN x[m] ELSE 0)
                    ELSE (r[k - 1] * Base + Limb(x, m - k + p)) % d
  <2>1. CASE k = 0
    BY <1>1, <1>5, <2>1
  <2>2. CASE k # 0
    <3>1. k \in 1 .. Parts /\ k - 1 \in 0 .. Parts
      BY <2>2, PartsIs
    <3>2. r[k] = F[k][r[k - 1]] /\ r[k - 1] \in 0 .. d - 1
      BY <1>4, <3>1 DEF Follows
    <3> QED BY <1>3, <2>2, <3>1, <3>2
  <2> QED BY <2>1, <2>2
<1>7. PICK t : t = [k \in 0 .. Parts |-> IF k = 0 THEN (IF p = 0 THEN x[m] ELSE 0)
                                        ELSE (r[k - 1] * Base + Limb(x, m - k + p)) % d]
  OBVIOUS
<1>8. r = t
  BY <1>5, <1>6, <1>7
<1> QED BY <1>7, <1>8 DEF Rests

LEMMA RestsAre ==
  ASSUME NEW x, NEW d, NEW m, NEW p, Prefix(x, d, m, p), NEW r, Rests(r, x, d, m, p)
  PROVE  /\ r \in [0 .. Parts -> 0 .. d - 1]
         /\ r[0] = IF p = 0 THEN x[m] ELSE 0
         /\ \A k \in 1 .. Parts : r[k] = (r[k - 1] * Base + Limb(x, m - k + p)) % d
<1>1. r = [k \in 0 .. Parts |-> r[k]]
  BY DEF Rests
<1>2. 0 \in 0 .. Parts /\ r[0] = IF p = 0 THEN x[m] ELSE 0
  <2>1. 0 \in 0 .. Parts
    BY PartsIs
  <2> QED BY <2>1 DEF Rests
<1>3. \A k \in 1 .. Parts : r[k] = (r[k - 1] * Base + Limb(x, m - k + p)) % d
  <2> TAKE k \in 1 .. Parts
  <2>1. k \in 0 .. Parts /\ k # 0
    BY PartsIs
  <2> QED BY <2>1 DEF Rests
<1>4. \A k \in 0 .. Parts : r[k] \in 0 .. d - 1
  <2> DEFINE S == {k \in 0 .. Parts : r[k] \in 0 .. d - 1}
  <2>1. 0 \in S
    BY <1>2, FirstRest
  <2>2. ASSUME NEW k \in 0 .. Parts - 1, k \in S PROVE k + 1 \in S
    <3>1. PICK j \in 1 .. Parts : j = k + 1 /\ j - 1 = k /\ j \in 0 .. Parts
      <4>1. k + 1 \in 1 .. Parts /\ (k + 1) - 1 = k /\ k + 1 \in 0 .. Parts
        BY PartsIs
      <4> QED BY <4>1
    <3>2. r[j] = (r[j - 1] * Base + Limb(x, m - j + p)) % d /\ r[j - 1] \in 0 .. d - 1
      BY <1>3, <2>2, <3>1
    <3>3. r[j] \in 0 .. d - 1
      BY <3>2, NextRest
    <3> QED BY <3>1, <3>3
  <2> HIDE DEF S
  <2>3. \A k \in 0 .. Parts : k \in S
    BY <2>1, <2>2, PartsIs, Inductive
  <2> QED BY <2>3 DEF S
<1> QED BY <1>1, <1>2, <1>3, <1>4

LEMMA ShortQuotientIs ==
  ASSUME NEW a, NEW d, NEW m, m = HighLimb(a), NEW p, Prefix(a.m, d, m, p)
  PROVE  \E r, q : /\ Rests(r, a.m, d, m, p)
                   /\ ShortQuotient(a, d) = [p |-> p, ok |-> TRUE, m |-> q]
                   /\ q = [i \in Limbs |-> (r[Parts - i - 1] * Base + Limb(a.m, m - (Parts - i) + p)) \div d]
<1> DEFINE l == HighLimb(a)
           o == IF a.m[l] < d THEN 0 ELSE 1
           u == CHOOSE r : Rests(r, a.m, d, l, o)
<1>1. l = m /\ o = p
  BY DEF Prefix
<1>2. \E r : Rests(r, a.m, d, l, o)
  <2> HIDE DEF l, o
  <2> QED BY <1>1, RestsExist
<1>3. Rests(u, a.m, d, l, o)
  BY <1>2, Zenon
<1>4. ShortQuotient(a, d) =
        [p |-> o, ok |-> TRUE,
         m |-> [i \in Limbs |-> (u[Parts - i - 1] * Base + Limb(a.m, l - (Parts - i) + o)) \div d]]
  BY Zenon DEF ShortQuotient, Rests
<1> HIDE DEF u, o, l
<1> QED BY <1>1, <1>3, <1>4

----------------------------------------------------------------------------
(* A quotient by one limb.                                                *)
(* A quotient by one limb, as a division of the dividend with limbs of 0   *)
(* behind it.                                                              *)
Quotes(a, d, m, Q, z, rest) ==
  /\ Q.ok = TRUE /\ Q.p \in {0, 1} /\ z = Parts - m - Q.p
  /\ Q.m \in Mantissas /\ Q.m[Parts - 1] \in 1 .. Base - 1
  /\ rest < d /\ Tens(Value(a), z * Log10) = d * Value(Q.m) + rest

LEMMA ShortQuotientValue ==
  ASSUME NEW a, Sized(a), a.n = decimal_num_digits(a.m), a.n > 0, NEW d \in 1 .. Base - 1,
         NEW m, m = HighLimb(a), NEW Q, Q = ShortQuotient(a, d)
  PROVE  \E z \in Nat, rest \in Nat : Quotes(a.m, d, m, Q, z, rest)
<1>1. PICK x \in Mantissas : x = a.m /\ Highest(x, m)
  BY SizedIs, HighLimbIs
<1>2. PICK p \in {0, 1} : p = IF x[m] < d THEN 0 ELSE 1
  OBVIOUS
<1>3. m \in Limbs /\ Prefix(x, d, m, p)
  BY <1>1, <1>2 DEF Prefix, Highest
<1>4. PICK r, q : /\ Rests(r, x, d, m, p) /\ Q = [p |-> p, ok |-> TRUE, m |-> q]
                  /\ q = [i \in Limbs |-> (r[Parts - i - 1] * Base + Limb(x, m - (Parts - i) + p)) \div d]
  BY <1>1, <1>3, ShortQuotientIs
<1>5. /\ r \in [0 .. Parts -> 0 .. d - 1]
      /\ r[0] = IF p = 0 THEN x[m] ELSE 0
      /\ \A k \in 1 .. Parts : r[k] = (r[k - 1] * Base + Limb(x, m - k + p)) % d
  BY <1>3, <1>4, RestsAre
<1>20. PICK t : t = DividendLimbs(x, m, p)
  OBVIOUS
<1>6. PICK z \in Nat : /\ z = Parts - m - p /\ IsLimbs(t, Parts + 1)
                     /\ Top(t, Parts + 1) = Tens(Value(x), z * Log10)
  BY <1>1, <1>3, <1>20, DividendIs
<1>7. \A j \in 1 .. Parts + 1 : t[j] = Limb(x, m + p + 1 - j)
  BY <1>20 DEF DividendLimbs
<1>8. PICK h \in Nat, P \in Nat : h = m /\ P = Parts /\ P > 0 /\ Limbs = 0 .. P - 1
  BY <1>3, PartsIs DEF Limbs
<1>9. t[1] = r[0]
  <2>1. t[1] = Limb(x, h + p)
    <3>1. 1 \in 1 .. Parts + 1 /\ m + p + 1 - 1 = h + p
      BY <1>8
    <3> QED BY <1>7, <3>1
  <2>2. CASE p = 0
    <3>1. h + p = h /\ h \in Int
      BY <2>2
    <3>2. Limb(x, h) = x[m]
      BY <1>3, <1>8, <3>1, LimbOf
    <3> QED BY <1>5, <2>1, <2>2, <3>1, <3>2
  <2>3. CASE p = 1
    <3>1. h + 1 \in Int /\ h + p = h + 1 /\ h + 1 > m
      BY <1>8, <2>3
    <3>2. CASE h + 1 \in Limbs
      BY <1>1, <1>5, <2>1, <2>3, <3>1, <3>2, LimbOf DEF Highest
    <3>3. CASE h + 1 \notin Limbs
      BY <1>5, <2>1, <2>3, <3>1, <3>3, LimbOf
    <3> QED BY <3>2, <3>3
  <2> QED BY <2>2, <2>3
<1>10. \A k \in 1 .. Parts : t[k + 1] = Limb(x, m - k + p)
  <2> TAKE k \in 1 .. Parts
  <2>1. k + 1 \in 1 .. Parts + 1 /\ m + p + 1 - (k + 1) = m - k + p
    BY <1>8
  <2> QED BY <1>7, <2>1
<1>11. PICK s : s = [j \in 1 .. Parts |-> q[Parts - j]]
  OBVIOUS
<1>12. \A k \in 1 .. Parts : s[k] = (r[k - 1] * Base + t[k + 1]) \div d
  <2> TAKE k \in 1 .. Parts
  <2>1. PICK i \in Limbs : i = Parts - k /\ Parts - i - 1 = k - 1 /\ Parts - i = k
    <3>1. Parts - k \in Limbs /\ Parts - (Parts - k) - 1 = k - 1 /\ Parts - (Parts - k) = k
      BY <1>8
    <3> QED BY <3>1
  <2>2. q[i] = (r[Parts - i - 1] * Base + Limb(x, m - (Parts - i) + p)) \div d
    BY <1>4
  <2> QED BY <1>10, <1>11, <2>1, <2>2
<1>13. Divided(t, s, r, d, Parts)
  BY <1>5, <1>9, <1>10, <1>12 DEF Divided
<1>14. /\ IsLimbs(s, Parts) /\ Top(s, Parts) \in Nat /\ r[Parts] \in Nat /\ r[Parts] < d
       /\ Top(t, Parts + 1) = d * Top(s, Parts) + r[Parts]
  BY <1>6, <1>13, PartsIs, DividedIs
<1>15. q \in Mantissas
  <2>1. \A i \in Limbs : q[i] \in 0 .. Base - 1
    <3> TAKE i \in Limbs
    <3>1. Parts - i \in 1 .. Parts /\ Parts - (Parts - i) = i
      BY <1>8
    <3> QED BY <1>11, <1>14, <3>1 DEF IsLimbs
  <2> QED BY <1>4, <2>1 DEF Mantissas
<1>16. Value(q) = Top(s, Parts)
  <2>1. s = Down(q)
    BY <1>11 DEF Down
  <2> QED BY <2>1 DEF Value
<1>17. q[Parts - 1] \in 1 .. Base - 1
  <2>1. 1 \in 1 .. Parts /\ 1 - 1 = 0 /\ 1 + 1 \in 1 .. Parts + 1 /\ m + p + 1 - (1 + 1) = m + p - 1
    BY <1>8
  <2>2. s[1] = q[Parts - 1] /\ s[1] \in 0 .. Base - 1
    BY <1>11, <1>14, <2>1 DEF IsLimbs
  <2>3. PICK v \in 0 .. d - 1, y \in 0 .. Base - 1 : v = r[0] /\ y = t[1 + 1] /\ y = Limb(x, m + p - 1)
    <3>1. r[0] \in 0 .. d - 1
      BY <1>5, <1>8, SMTT(60)
    <3> QED BY <1>6, <1>7, <2>1, <3>1 DEF IsLimbs
  <2>4. PICK w : w = v * Base + y
    OBVIOUS
  <2>5. s[1] = w \div d
    BY <1>12, <2>1, <2>3, <2>4
  <2>6. w \in Nat /\ w % d \in 0 .. d - 1 /\ w = d * (w \div d) + (w % d)
    BY <2>4, QuotientLimb
  <2>7. PICK e \in Nat, xm \in Nat : e = d /\ e > 0 /\ e < Base /\ xm = x[m] /\ xm > 0
    <3>1. x[m] \in 0 .. Base - 1 /\ x[m] # 0
      BY <1>1, <1>3, LimbIs DEF Highest
    <3> QED BY <3>1, BaseIs
  <2>8. w >= e
    <3>1. CASE p = 0
      <4>1. v = xm /\ v > 0
        BY <1>5, <2>3, <2>7, <3>1
      <4>2. v * Base >= Base
        BY <2>7, <4>1, BaseIs
      <4> QED BY <2>3, <2>4, <2>7, <4>2, BaseIs
    <3>2. CASE p = 1
      <4>1. ~ (x[m] < d)
        BY <1>2, <3>2
      <4>2. v = 0 /\ m + p - 1 = h /\ h \in Int
        BY <1>5, <1>8, <2>3, <3>2
      <4>3. y = x[m]
        BY <1>3, <1>8, <2>3, <4>2, LimbOf
      <4>4. v * Base = 0
        BY <4>2, BaseIs
      <4> QED BY <2>3, <2>4, <2>7, <4>1, <4>3, <4>4, BaseIs
    <3> QED BY <3>1, <3>2
  <2>9. s[1] # 0
    <3> SUFFICES ASSUME s[1] = 0 PROVE FALSE
      OBVIOUS
    <3>1. w = w % d
      BY <2>5, <2>6, <2>7
    <3> QED BY <2>6, <2>7, <2>8, <3>1
  <2> QED BY <2>2, <2>9, BaseIs
<1>18. Q.ok = TRUE /\ Q.p = p /\ Q.m = q
  BY <1>4
<1>19. Quotes(x, d, m, Q, z, r[Parts])
  BY <1>6, <1>14, <1>15, <1>16, <1>17, <1>18 DEF Quotes
<1> QED BY <1>1, <1>6, <1>14, <1>19

----------------------------------------------------------------------------
(* The quotient, digit by digit.                                          *)
(* Division digit by digit: what is left, and the quotient.                *)
LeftOver(r, a, b, n) == r = [k \in 0 .. n |-> IF k = 0 THEN a % b ELSE (10 * r[k - 1]) % b]
DigitByDigit(q, r, a, b, n) ==
  q = [k \in 0 .. n |-> IF k = 0 THEN a \div b ELSE 10 * q[k - 1] + (10 * r[k - 1]) \div b]

LEMMA LeftOverExists ==
  ASSUME NEW a \in Nat, NEW b \in Nat, b > 0, NEW n \in Nat
  PROVE  \E r : LeftOver(r, a, b, n)
<1> DEFINE F == [k \in 1 .. n |-> [v \in Nat |-> (10 * v) % b]]
<1>1. \A v \in Nat : (10 * v) % b \in Nat
  BY DividesBy
<1>2. Steps(F, n, Nat)
  BY <1>1 DEF Steps
<1>3. \A k \in 1 .. n, v \in Nat : F[k][v] = (10 * v) % b
  OBVIOUS
<1> HIDE DEF F
<1>4. PICK y \in Nat : y = a % b
  BY DividesBy
<1>5. PICK r : Follows(r, y, F, n, Nat)
  BY <1>2, CourseOfSteps
<1>6. r = [k \in 0 .. n |-> r[k]] /\ r[0] = y
  BY <1>5 DEF Follows
<1>7. ASSUME NEW k \in 0 .. n PROVE r[k] = IF k = 0 THEN a % b ELSE (10 * r[k - 1]) % b
  <2>1. CASE k = 0
    BY <1>4, <1>6, <2>1
  <2>2. CASE k # 0
    <3>1. k \in 1 .. n /\ k - 1 \in 0 .. n
      BY <2>2
    <3>2. r[k] = F[k][r[k - 1]] /\ r[k - 1] \in Nat
      BY <1>5, <3>1 DEF Follows
    <3> QED BY <1>3, <2>2, <3>1, <3>2
  <2> QED BY <2>1, <2>2
<1>8. PICK t : t = [k \in 0 .. n |-> IF k = 0 THEN a % b ELSE (10 * r[k - 1]) % b]
  OBVIOUS
<1>9. r = t
  BY <1>6, <1>7, <1>8
<1> QED BY <1>8, <1>9 DEF LeftOver

LEMMA LeftOverIs ==
  ASSUME NEW a \in Nat, NEW b \in Nat, b > 0, NEW n \in Nat, NEW r, LeftOver(r, a, b, n)
  PROVE  /\ r[0] = a % b
         /\ \A k \in 0 .. n : r[k] \in Nat /\ r[k] < b
         /\ \A k \in 0 .. n - 1 : r[k + 1] = (10 * r[k]) % b
<1>1. r[0] = a % b
  BY DEF LeftOver
<1>2. \A k \in 0 .. n - 1 : r[k + 1] = (10 * r[k]) % b
  <2> TAKE k \in 0 .. n - 1
  <2>1. PICK j \in 0 .. n : j = k + 1 /\ j # 0 /\ j - 1 = k
    <3>1. k + 1 \in 0 .. n /\ k + 1 # 0 /\ (k + 1) - 1 = k
      OBVIOUS
    <3> QED BY <3>1
  <2>2. r[j] = (10 * r[j - 1]) % b
    BY <2>1 DEF LeftOver
  <2> QED BY <2>1, <2>2
<1>3. \A k \in 0 .. n : r[k] \in Nat /\ r[k] < b
  <2> DEFINE S == {k \in 0 .. n : r[k] \in Nat /\ r[k] < b}
  <2>1. 0 \in S
    BY <1>1, DividesBy
  <2>2. ASSUME NEW k \in 0 .. n - 1, k \in S PROVE k + 1 \in S
    <3>1. k + 1 \in 0 .. n
      OBVIOUS
    <3>2. PICK v \in Nat, w \in Nat : v = r[k] /\ w = 10 * v
      BY <2>2
    <3>3. w % b \in Nat /\ w % b < b
      BY DividesBy
    <3> QED BY <1>2, <3>1, <3>2, <3>3
  <2> HIDE DEF S
  <2>3. \A k \in 0 .. n : k \in S
    BY <2>1, <2>2, Inductive
  <2> QED BY <2>3 DEF S
<1> QED BY <1>1, <1>2, <1>3

LEMMA DigitByDigitExists ==
  ASSUME NEW a \in Nat, NEW b \in Nat, b > 0, NEW n \in Nat, NEW r, LeftOver(r, a, b, n)
  PROVE  \E q : DigitByDigit(q, r, a, b, n)
<1> DEFINE F == [k \in 1 .. n |-> [v \in Nat |-> 10 * v + (10 * r[k - 1]) \div b]]
<1>1. \A k \in 1 .. n : (10 * r[k - 1]) \div b \in Nat
  <2> TAKE k \in 1 .. n
  <2>1. k - 1 \in 0 .. n
    OBVIOUS
  <2>2. PICK v \in Nat, w \in Nat : v = r[k - 1] /\ w = 10 * v
    BY <2>1, LeftOverIs
  <2> QED BY <2>2, DividesBy
<1>2. Steps(F, n, Nat)
  BY <1>1 DEF Steps
<1>3. \A k \in 1 .. n, v \in Nat : F[k][v] = 10 * v + (10 * r[k - 1]) \div b
  OBVIOUS
<1> HIDE DEF F
<1>4. PICK y \in Nat : y = a \div b
  BY DividesBy
<1>5. PICK q : Follows(q, y, F, n, Nat)
  BY <1>2, CourseOfSteps
<1>6. q = [k \in 0 .. n |-> q[k]] /\ q[0] = y
  BY <1>5 DEF Follows
<1>7. ASSUME NEW k \in 0 .. n PROVE q[k] = IF k = 0 THEN a \div b ELSE 10 * q[k - 1] + (10 * r[k - 1]) \div b
  <2>1. CASE k = 0
    BY <1>4, <1>6, <2>1
  <2>2. CASE k # 0
    <3>1. k \in 1 .. n /\ k - 1 \in 0 .. n
      BY <2>2
    <3>2. q[k] = F[k][q[k - 1]] /\ q[k - 1] \in Nat
      BY <1>5, <3>1 DEF Follows
    <3> QED BY <1>3, <2>2, <3>1, <3>2
  <2> QED BY <2>1, <2>2
<1>8. PICK t : t = [k \in 0 .. n |-> IF k = 0 THEN a \div b ELSE 10 * q[k - 1] + (10 * r[k - 1]) \div b]
  OBVIOUS
<1>9. q = t
  BY <1>6, <1>7, <1>8
<1> QED BY <1>8, <1>9 DEF DigitByDigit

LEMMA DigitByDigitIs ==
  ASSUME NEW a \in Nat, NEW b \in Nat, b > 0, NEW n \in Nat, NEW r, LeftOver(r, a, b, n),
         NEW q, DigitByDigit(q, r, a, b, n)
  PROVE  q[n] \in Nat /\ r[n] \in Nat /\ r[n] < b /\ Tens(a, n) = b * q[n] + r[n]
<1>4. /\ r[0] = a % b
      /\ \A k \in 0 .. n : r[k] \in Nat /\ r[k] < b
      /\ \A k \in 0 .. n - 1 : r[k + 1] = (10 * r[k]) % b
  BY LeftOverIs
<1>1. q[0] = a \div b
  BY DEF DigitByDigit
<1>2. \A k \in 0 .. n - 1 : q[k + 1] = 10 * q[k] + (10 * r[k]) \div b
  <2> TAKE k \in 0 .. n - 1
  <2>1. PICK j \in 0 .. n : j = k + 1 /\ j # 0 /\ j - 1 = k
    <3>1. k + 1 \in 0 .. n /\ k + 1 # 0 /\ (k + 1) - 1 = k
      OBVIOUS
    <3> QED BY <3>1
  <2>2. q[j] = 10 * q[j - 1] + (10 * r[j - 1]) \div b
    BY <2>1 DEF DigitByDigit
  <2> QED BY <2>1, <2>2
<1>3. \A k \in 0 .. n : q[k] \in Nat /\ Tens(a, k) = b * q[k] + r[k]
  <2> DEFINE S == {k \in 0 .. n : q[k] \in Nat /\ Tens(a, k) = b * q[k] + r[k]}
  <2>1. 0 \in S
    <3>1. a \div b \in Nat /\ a = b * (a \div b) + (a % b)
      BY DividesBy
    <3>2. Tens(a, 0) = a
      BY TensFirst
    <3>3. 0 \in 0 .. n
      OBVIOUS
    <3> QED BY <1>1, <1>4, <3>1, <3>2, <3>3
  <2>2. ASSUME NEW k \in 0 .. n - 1, k \in S PROVE k + 1 \in S
    <3>1. k + 1 \in 0 .. n /\ k \in Nat /\ k \in 0 .. n
      OBVIOUS
    <3>2. PICK v \in Nat, w \in Nat, y \in Nat : v = r[k] /\ w = 10 * v /\ y = q[k]
      <4>1. r[k] \in Nat
        BY <1>4, <3>1
      <4>2. q[k] \in Nat
        BY <2>2
      <4>3. PICK v \in Nat : v = r[k]
        BY <4>1
      <4>4. 10 * v \in Nat
        OBVIOUS
      <4> QED BY <4>2, <4>3, <4>4
    <3>3. PICK g \in Nat, h \in Nat : g = w \div b /\ h = w % b /\ w = b * g + h
      BY DividesBy
    <3>4. q[k + 1] = 10 * y + g /\ r[k + 1] = h
      BY <1>2, <1>4, <3>2, <3>3
    <3>5. PICK by \in Nat, bg \in Nat : by = b * y /\ bg = b * g
      BY NatTimes
    <3>6. b * (10 * y + g) = 10 * by + bg
      BY <3>5, TimesSum
    <3>7. Tens(a, k) = by + v
      BY <2>2, <3>2, <3>5
    <3>8. Tens(a, k + 1) = 10 * (by + v)
      BY <3>1, <3>7, TensNext
    <3>9. 10 * (by + v) = (10 * by + bg) + h
      <4>1. 10 * v = bg + h
        BY <3>2, <3>3, <3>5
      <4> HIDE <2>2
      <4> QED BY ONLY <4>1, v \in Nat, by \in Nat, bg \in Nat, h \in Nat
    <3> QED BY <3>1, <3>4, <3>6, <3>8, <3>9
  <2> HIDE DEF S
  <2>3. \A k \in 0 .. n : k \in S
    BY <2>1, <2>2, Inductive
  <2> QED BY <2>3 DEF S
<1> QED BY <1>3, <1>4

LEMMA QuotientIs ==
  ASSUME NEW a \in Nat, NEW b \in Nat, b > 0, NEW n \in Nat
  PROVE  \E rest \in Nat : rest < b /\ Quotient(a, b, n) \in Nat /\ Tens(a, n) = b * Quotient(a, b, n) + rest
<1> DEFINE l == Max({n, 0})
           r == CHOOSE f : LeftOver(f, a, b, l)
           q == CHOOSE f : DigitByDigit(f, r, a, b, l)
<1>1. l = n
  BY HigherReach
<1>2. LeftOver(r, a, b, l)
  <2>1. \E f : LeftOver(f, a, b, l)
    <3> HIDE DEF l
    <3> QED BY <1>1, LeftOverExists
  <2> QED BY <2>1, Zenon
<1>3. DigitByDigit(q, r, a, b, l)
  <2>1. \E f : DigitByDigit(f, r, a, b, l)
    <3> HIDE DEF l, r
    <3> QED BY <1>1, <1>2, DigitByDigitExists
  <2> QED BY <2>1, Zenon
<1>4. Quotient(a, b, n) = IF n >= 0 THEN q[n] ELSE q[0] \div 10 ^ (-n)
  BY Zenon DEF Quotient, LeftOver, DigitByDigit
<1> HIDE DEF q, r, l
<1>5. Quotient(a, b, n) = q[n]
  BY <1>4
<1>6. q[n] \in Nat /\ r[n] \in Nat /\ r[n] < b /\ Tens(a, n) = b * q[n] + r[n]
  BY <1>1, <1>2, <1>3, DigitByDigitIs
<1> QED BY <1>5, <1>6

----------------------------------------------------------------------------
(* The theorems about products and quotients.                             *)
(* A mantissa with a limb in the highest place counts its digits like this.*)
LEMMA FullMantissa ==
  ASSUME NEW m \in Mantissas, m[Parts - 1] \in 1 .. Base - 1
  PROVE  decimal_num_digits(m) = Positions - Log10 + DigitsOf(m[Parts - 1])
<1>1. PICK h \in Nat : h = Parts - 1 /\ h + 1 = Parts /\ h \in Limbs /\ \A i \in Limbs : i <= h /\ i \in Nat
  <2>1. Parts - 1 \in Nat /\ (Parts - 1) + 1 = Parts /\ Parts - 1 \in Limbs /\ \A i \in Limbs : i <= Parts - 1 /\ i \in Nat
    BY PartsIs DEF Limbs
  <2> QED BY <2>1
<1>2. m[h] # 0
  BY <1>1
<1>3. PICK i \in Limbs : Highest(m, i) /\ decimal_num_digits(m) = i * Log10 + DigitsOf(m[i])
  BY <1>1, <1>2, HighestIs
<1>4. i = h
  <2>1. ~ (h > i)
    BY <1>1, <1>2, <1>3 DEF Highest
  <2> QED BY <1>1, <2>1
<1>5. h * Log10 = Positions - Log10
  <2>1. h * Log10 \in Nat /\ (h + 1) * Log10 = h * Log10 + Log10
    BY Places
  <2> QED BY <1>1, <2>1, PositionsIs, BaseIs
<1> QED BY <1>1, <1>3, <1>4, <1>5

(* What decimal_div gives by a divisor of one limb.                        *)
Cut(a, b, d) ==
  /\ Made(d) /\ d.m[Parts - 1] > 0 /\ d.sign = a.sign * b.sign
  /\ Value(d.m) = Quotient(Value(a.m), Value(b.m), a.e - b.e - d.e)

LEMMA ShortDivisionIs ==
  ASSUME NEW a, NEW b, Sized(a), Sized(b), a.n = decimal_num_digits(a.m), b.n = decimal_num_digits(b.m),
         a.n > 0, HighLimb(b) = 0, NEW stale, NEW old,
         NEW R, R = decimal_div(a, b, stale, old), R.ret = "ok"
  PROVE  Cut(a, b, R.d)
<1>1. Error(old).ret # "ok" /\ Crash(old).ret # "ok"
  BY DEF Error, Crash
<1>2. b.n > 0
  <2>1. b.n # 0
    BY <1>1 DEF decimal_div
  <2>2. b.n \in 0 .. Positions
    BY SizedIs
  <2> QED BY <2>1, <2>2, PositionsIs
<1>3. PICK d \in 1 .. Base - 1 : d = b.m[0] /\ d = Value(b.m)
  <2>1. b.m \in Mantissas /\ Highest(b.m, 0)
    BY <1>2, SizedIs, HighLimbIs
  <2> QED BY <2>1, OneLimb
<1>4. PICK m : m = HighLimb(a)
  OBVIOUS
<1>5. PICK Q : Q = ShortQuotient(a, d)
  OBVIOUS
<1>6. PICK z \in Nat, rest \in Nat : Quotes(a.m, d, m, Q, z, rest)
  BY <1>4, <1>5, ShortQuotientValue
<1>7. m \in Limbs
  BY <1>4, HighLimbIs DEF Highest
<1>8. PICK n \in Nat : n = z * Log10
  BY Places
<1>9. (Parts - m + 0 - Q.p) = z
  <2>1. PICK p \in {0, 1} : p = Q.p
    BY <1>6 DEF Quotes
  <2>2. z = Parts - m - p
    BY <1>6, <2>1 DEF Quotes
  <2> QED BY <1>7, <2>1, <2>2, PartsIs DEF Limbs
<1>10. a.e \in Int /\ b.e \in Int
  BY SizedIs
<1>11. PICK e \in Int : e = a.e - b.e - n
  BY <1>10
<1>12. PICK s \in {1, -1} : s = IF a.sign = b.sign THEN 1 ELSE -1
  OBVIOUS
<1>13. PICK g : g = Positions - Log10 + DigitsOf(Q.m[Parts - 1])
  OBVIOUS
<1>14. R = IF Leading(b) = 0 \/ ~ Q.ok THEN Crash(old)
           ELSE IF e \notin MinExponent .. MaxExponent THEN Error(old)
           ELSE Number(s, e, g, Q.m)
  <2>1. a.n # 0 /\ b.n # 0
    <3>1. a.n \in Nat /\ b.n \in Nat
      BY SizedIs, PositionsIs
    <3> QED BY <1>2, <3>1
  <2>2. a.e - b.e - (Parts - HighLimb(a) + HighLimb(b) - Q.p) * Log10 = e
    <3>1. Parts - HighLimb(a) + HighLimb(b) - Q.p = z
      BY <1>4, <1>9
    <3> QED BY <1>8, <1>11, <3>1
  <2> QED BY <1>3, <1>5, <1>12, <1>13, <2>1, <2>2 DEF decimal_div
<1>15. e \in MinExponent .. MaxExponent /\ R = Number(s, e, g, Q.m)
  BY <1>1, <1>14
<1>16. PICK q \in Mantissas : q = Q.m /\ q[Parts - 1] \in 1 .. Base - 1 /\ g = decimal_num_digits(q)
  BY <1>6, <1>13, FullMantissa DEF Quotes
<1>17. PICK D : D = R.d /\ D = [sign |-> s, e |-> e, n |-> g, m |-> q]
  BY <1>15, <1>16 DEF Number
<1>18. Made(D)
  BY <1>15, <1>16, <1>17, MadeIs
<1>19. D.m = q /\ D.sign = s /\ D.e = e
  BY <1>17
<1>20. D.sign = a.sign * b.sign
  <2>1. a.sign \in {1, -1} /\ b.sign \in {1, -1}
    BY SizedIs
  <2> QED BY <1>12, <1>19, <2>1
<1>21. D.m[Parts - 1] > 0
  BY <1>16, <1>19, BaseIs
<1>22. a.e - b.e - D.e = n
  BY <1>10, <1>11, <1>19
<1>23. PICK va \in Nat, dd \in Nat : va = Value(a.m) /\ dd = d /\ dd > 0
  BY SizedIs, BaseIs
<1>24. PICK v \in Nat : v = Value(q) /\ Tens(va, n) = dd * v + rest /\ rest < dd
  <2>1. Value(q) \in Nat
    BY ValueBelow
  <2> QED BY <1>6, <1>8, <1>16, <1>23, <2>1 DEF Quotes
<1>25. PICK w \in Nat, r \in Nat : w = Quotient(va, dd, n) /\ Tens(va, n) = dd * w + r /\ r < dd
  <2>1. PICK r \in Nat : r < dd /\ Quotient(va, dd, n) \in Nat /\ Tens(va, n) = dd * Quotient(va, dd, n) + r
    <3>1. va \in Nat /\ dd \in Nat /\ dd > 0 /\ n \in Nat
      BY <1>23
    <3> QED BY ONLY <3>1, QuotientIs, Zenon
  <2> QED BY <2>1
<1>26. v = w
  BY <1>23, <1>24, <1>25, QuotientOnce
<1> QED BY <1>3, <1>17, <1>18, <1>19, <1>20, <1>21, <1>22, <1>23, <1>24, <1>25, <1>26 DEF Cut

(* Where a product and a quotient come from.                               *)
ProductsMade ==
  op = "mul" => \E old : ret = decimal_mul(d1, d2, old).ret /\ d3 = decimal_mul(d1, d2, old).d
QuotientsMade ==
  op = "div" => \E stale, old : /\ ret = decimal_div(d1, d2, stale, old).ret
                                /\ d3 = decimal_div(d1, d2, stale, old).d
ResultsMade == ProductsMade /\ QuotientsMade

LEMMA ResultsMadeAlways == DecimalSpec => []ResultsMade
<1>1. DecimalInit => ResultsMade
  BY DEF DecimalInit, ResultsMade, ProductsMade, QuotientsMade
<1>2. ResultsMade /\ [DecimalNext]_decimalVars => ResultsMade'
  <2> SUFFICES ASSUME ResultsMade, [DecimalNext]_decimalVars PROVE ResultsMade'
    OBVIOUS
  <2>1. CASE Enter
    BY <2>1 DEF Enter, ResultsMade, ProductsMade, QuotientsMade
  <2>2. CASE Reuse
    BY <2>2 DEF Reuse, ResultsMade, ProductsMade, QuotientsMade
  <2>3. CASE Add
    BY <2>3 DEF Add, Computes, ResultsMade, ProductsMade, QuotientsMade
  <2>4. CASE Sub
    BY <2>4 DEF Sub, Computes, ResultsMade, ProductsMade, QuotientsMade
  <2>5. CASE Mul
    BY <2>5 DEF Mul, Computes, ResultsMade, ProductsMade, QuotientsMade
  <2>6. CASE Div
    BY <2>6 DEF Div, Computes, ResultsMade, ProductsMade, QuotientsMade
  <2>7. CASE Cmp
    BY <2>7 DEF Cmp, ResultsMade, ProductsMade, QuotientsMade
  <2>8. CASE UNCHANGED decimalVars
    BY <2>8 DEF decimalVars, ResultsMade, ProductsMade, QuotientsMade
  <2> QED BY <2>1, <2>2, <2>3, <2>4, <2>5, <2>6, <2>7, <2>8 DEF DecimalNext
<1> QED BY <1>1, <1>2, PTL DEF DecimalSpec

LEMMA MadeNormal ==
  ASSUME NEW d, Made(d)
  PROVE  Normal(d)
  BY DEF Made, Sized, Normal

LEMMA ProductMade ==
  ASSUME ProductsMade, Succeeded("mul"), Sized(d1), Sized(d2), Value(d1.m) * Value(d2.m) < Ten(Positions)
  PROVE  Exact(d1, d2, d3)
<1>1. PICK old : ret = decimal_mul(d1, d2, old).ret /\ d3 = decimal_mul(d1, d2, old).d
  BY DEF ProductsMade, Succeeded
<1>2. PICK R : R = decimal_mul(d1, d2, old) /\ R.ret = "ok" /\ R.d = d3
  BY <1>1 DEF Succeeded
<1> QED BY <1>2, ProductIs

LEMMA QuotientMade ==
  ASSUME QuotientsMade, Succeeded("div"), Sized(d1), Sized(d2), Normal(d1), Normal(d2), HighLimb(d2) = 0
  PROVE  IF d1.n > 0 THEN Cut(d1, d2, d3) ELSE Made(d3)
<1>1. PICK stale, old : ret = decimal_div(d1, d2, stale, old).ret /\ d3 = decimal_div(d1, d2, stale, old).d
  BY DEF QuotientsMade, Succeeded
<1>2. PICK R : R = decimal_div(d1, d2, stale, old) /\ R.ret = "ok" /\ R.d = d3
  BY <1>1 DEF Succeeded
<1>3. d1.n = decimal_num_digits(d1.m) /\ d2.n = decimal_num_digits(d2.m)
  BY DEF Normal
<1>4. CASE d1.n > 0
  BY <1>2, <1>3, <1>4, ShortDivisionIs
<1>5. CASE ~ (d1.n > 0)
  <2>1. d1.n = 0
    BY <1>5, SizedIs, PositionsIs
  <2>2. Error(old).ret # "ok"
    BY DEF Error
  <2>3. R = Number(1, 0, 0, NoLimbs)
    BY <1>2, <2>1, <2>2 DEF decimal_div
  <2>4. d3 = [sign |-> 1, e |-> 0, n |-> 0, m |-> NoLimbs]
    BY <1>2, <2>3 DEF Number
  <2>5. Made(d3)
    BY <2>4, NoLimbsIs, ExponentsIs, MadeIs
  <2> QED BY <1>5, <2>5
<1> QED BY <1>4, <1>5

(* Products that fit into a mantissa are exact, and quotients by a divisor *)
(* of one limb are the exact ones, cut off behind a full mantissa.         *)
THEOREM ProductsAndShortQuotients ==
  DecimalSpec => [](/\ Sized(d1) /\ Sized(d2)
                    /\ Succeeded("div") => HighLimb(d2) = 0
                    => ProductAndQuotient)
<1> DEFINE Short == /\ Sized(d1) /\ Sized(d2)
                    /\ Succeeded("div") => HighLimb(d2) = 0
<1>1. ResultsMade => (Short => ProductAndQuotient)
  <2> SUFFICES ASSUME ResultsMade, Short PROVE ProductAndQuotient
    OBVIOUS
  <2>1. Whole(d1) = Value(d1.m) /\ Whole(d2) = Value(d2.m) /\ Whole(d3) = Value(d3.m)
    BY WholeIsValue
  <2>2. ProductExact
    <3> SUFFICES ASSUME Succeeded("mul"), Value(d1.m) * Value(d2.m) < Ten(Positions)
                 PROVE  /\ Value(d3.m) = Value(d1.m) * Value(d2.m)
                        /\ Value(d1.m) * Value(d2.m) # 0 => d3.sign = d1.sign * d2.sign /\ d3.e = d1.e + d2.e
      BY <2>1 DEF ProductExact
    <3>1. Exact(d1, d2, d3)
      BY ProductMade DEF ResultsMade
    <3> QED BY <3>1 DEF Exact
  <2>3. QuotientTruncated
    <3> SUFFICES ASSUME Succeeded("div"), d1.n > 0, Divides
                 PROVE  /\ Value(d3.m) = Quotient(Value(d1.m), Value(d2.m), d1.e - d2.e - d3.e)
                        /\ d3.m[Parts - 1] > 0 /\ d3.sign = d1.sign * d2.sign
      BY <2>1 DEF QuotientTruncated
    <3>1. Normal(d1) /\ Normal(d2)
      BY DEF Divides
    <3>2. Cut(d1, d2, d3)
      BY <3>1, QuotientMade DEF ResultsMade
    <3> QED BY <3>2 DEF Cut
  <2> QED BY <2>2, <2>3 DEF ProductAndQuotient
<1> QED BY <1>1, ResultsMadeAlways, PTL

(* The results of sums, of products that fit and of quotients by one limb  *)
(* count the digits that they have: they can be operands again.            *)
THEOREM StaysNormalByOneLimb ==
  DecimalSpec => [](/\ Sized(d1) /\ Sized(d2)
                    /\ Succeeded("div") => HighLimb(d2) = 0
                    => StaysNormal)
<1> DEFINE Short == /\ Sized(d1) /\ Sized(d2)
                    /\ Succeeded("div") => HighLimb(d2) = 0
           Stay == /\ Sized(d1) /\ Sized(d2)
                   /\ Succeeded("add") \/ Succeeded("sub")
                   => Sized(d3) /\ (Normal(d1) /\ Normal(d2) => Normal(d3))
<1>1. ResultsMade /\ Stay => (Short => StaysNormal)
  <2> SUFFICES ASSUME ResultsMade, Stay, Short, Normal(d1), Normal(d2),
                      \/ Succeeded("add") \/ Succeeded("sub")
                      \/ Succeeded("div") /\ Divides
                      \/ Succeeded("mul") /\ d1.n + d2.n <= Positions
               PROVE  Normal(d3)
    BY DEF StaysNormal
  <2>1. CASE Succeeded("add") \/ Succeeded("sub")
    BY <2>1
  <2>2. CASE Succeeded("div")
    <3>1. IF d1.n > 0 THEN Cut(d1, d2, d3) ELSE Made(d3)
      BY <2>2, QuotientMade DEF ResultsMade
    <3>2. Made(d3)
      BY <3>1 DEF Cut
    <3> QED BY <3>2, MadeNormal
  <2>3. CASE Succeeded("mul") /\ d1.n + d2.n <= Positions
    <3>1. Value(d1.m) * Value(d2.m) < Ten(Positions)
      BY <2>3, ProductFits
    <3>2. Exact(d1, d2, d3)
      BY <2>3, <3>1, ProductMade DEF ResultsMade
    <3> QED BY <3>2, MadeNormal DEF Exact
  <2> QED BY <2>1, <2>2, <2>3
<1>2. DecimalSpec => []Stay
  BY SumsStaySized
<1> QED BY <1>1, <1>2, ResultsMadeAlways, PTL

----------------------------------------------------------------------------
(* The text of a number: its characters are read one by one.               *)
Characters ==
  {"0", "1", "2", "3", "4", "5", "6", "7", "8", "9"} \cup {".", "-", " ", "e", "+", "?"}

LEMMA FigureOf ==
  ASSUME NEW f \in 0 .. 9
  PROVE  /\ Figure(f) \in Characters /\ FigureValue(Figure(f)) = f
         /\ Figure(f) \notin {".", "-", " ", "e", "+", "?"}
<1>1. Figure(f) \in {"0", "1", "2", "3", "4", "5", "6", "7", "8", "9"}
  BY DEF Figure, Figures
<1>2. \A v \in 0 .. 9 : Figure(v) = Figure(f) => v = f
  BY DEF Figure, Figures
<1>3. FigureValue(Figure(f)) = CHOOSE v \in 0 .. 9 : Figure(v) = Figure(f)
  BY DEF FigureValue
<1> HIDE DEF Figure
<1>4. \A v : v \in 0 .. 9 /\ Figure(v) = Figure(f) <=> v = f
  BY <1>2
<1>5. Figure(f) \in Characters
  BY <1>1 DEF Characters
<1>6. Figure(f) \notin {".", "-", " ", "e", "+", "?"}
  BY <1>1
<1> QED BY <1>3, <1>4, <1>5, <1>6

LEMMA CharactersAre ==
  /\ "." \in Characters /\ "-" \in Characters /\ " " \in Characters
  /\ "e" \in Characters /\ "+" \in Characters /\ "0" \in Characters
  BY DEF Characters

(* With character c behind it what was a becomes b.                        *)
Skipped == {".", "-", " "}
ReadsOne(c, a, b) ==
  \/ c \in Skipped /\ b = a
  \/ \E f \in 0 .. 9 : c = Figure(f) /\ b = 10 * a + f

(* Text s read behind what is worth u is worth v.                          *)
Read(x, s, u, v) ==
  /\ x \in [0 .. Len(s) -> Nat] /\ x[0] = u /\ x[Len(s)] = v
  /\ \A k \in 1 .. Len(s) : ReadsOne(s[k], x[k - 1], x[k])
Reads(s, u, v) == s \in Seq(Characters) /\ \E x : Read(x, s, u, v)

LEMMA ReadsNumbers ==
  ASSUME NEW s, NEW u, NEW v, Reads(s, u, v)
  PROVE  s \in Seq(Characters) /\ u \in Nat /\ v \in Nat /\ \A k \in 1 .. Len(s) : s[k] # "e" /\ s[k] # "?"
<1>1. PICK x : Read(x, s, u, v)
  BY DEF Reads
<1>2. s \in Seq(Characters) /\ Len(s) \in Nat
  BY DEF Reads
<1>3. 0 \in 0 .. Len(s) /\ Len(s) \in 0 .. Len(s)
  BY <1>2
<1>4. x[0] \in Nat /\ x[Len(s)] \in Nat
  BY <1>1, <1>3 DEF Read
<1>5. ASSUME NEW k \in 1 .. Len(s) PROVE s[k] # "e" /\ s[k] # "?"
  <2>1. ReadsOne(s[k], x[k - 1], x[k])
    BY <1>1 DEF Read
  <2> QED BY <2>1, FigureOf DEF ReadsOne, Skipped
<1> QED BY <1>1, <1>2, <1>4, <1>5 DEF Read

LEMMA ReadsNothing ==
  ASSUME NEW u \in Nat
  PROVE  Reads(<<>>, u, u)
<1>1. PICK x : x = [k \in 0 .. 0 |-> u]
  OBVIOUS
<1>2. PICK s : s = <<>>
  OBVIOUS
<1>3. s \in Seq(Characters) /\ Len(s) = 0
  BY <1>2
<1>4. x \in [0 .. 0 -> Nat] /\ x[0] = u
  BY <1>1
<1>5. Read(x, s, u, u)
  BY <1>3, <1>4 DEF Read
<1> QED BY <1>2, <1>3, <1>5 DEF Reads

LEMMA ReadsCharacter ==
  ASSUME NEW u \in Nat, NEW v \in Nat, NEW c \in Characters, ReadsOne(c, u, v)
  PROVE  Reads(<<c>>, u, v)
<1>1. PICK x : x = [k \in 0 .. 1 |-> IF k = 0 THEN u ELSE v]
  OBVIOUS
<1>2. PICK s : s = <<c>>
  OBVIOUS
<1>3. s \in Seq(Characters) /\ Len(s) = 1 /\ s[1] = c
  BY <1>2
<1>4. x \in [0 .. 1 -> Nat] /\ x[0] = u /\ x[1] = v
  BY <1>1
<1>5. \A k \in 1 .. 1 : ReadsOne(s[k], x[k - 1], x[k])
  <2> SUFFICES ASSUME NEW k \in 1 .. 1 PROVE ReadsOne(s[k], x[k - 1], x[k])
    OBVIOUS
  <2>1. k = 1 /\ k - 1 = 0
    OBVIOUS
  <2> QED BY <1>3, <1>4, <2>1
<1>6. Read(x, s, u, v)
  BY <1>3, <1>4, <1>5 DEF Read
<1> QED BY <1>2, <1>3, <1>6 DEF Reads

LEMMA ReadsSkipped ==
  ASSUME NEW u \in Nat, NEW c \in Skipped
  PROVE  Reads(<<c>>, u, u)
<1>1. c \in Characters
  BY CharactersAre DEF Skipped
<1>2. ReadsOne(c, u, u)
  BY DEF ReadsOne
<1> QED BY <1>1, <1>2, ReadsCharacter

(* One text behind the other.                                              *)
LEMMA ReadsBoth ==
  ASSUME NEW s, NEW t, NEW u, NEW v, NEW w, Reads(s, u, v), Reads(t, v, w)
  PROVE  Reads(s \o t, u, w)
<1>1. PICK x : Read(x, s, u, v)
  BY DEF Reads
<1>2. PICK y : Read(y, t, v, w)
  BY DEF Reads
<1>3. s \in Seq(Characters) /\ t \in Seq(Characters)
  BY DEF Reads
<1>4. PICK m \in Nat, n \in Nat : m = Len(s) /\ n = Len(t)
  BY <1>3
<1>5. PICK r : r = s \o t
  OBVIOUS
<1>6. /\ r \in Seq(Characters) /\ Len(r) = m + n
      /\ \A k \in 1 .. m : r[k] = s[k]
      /\ \A k \in 1 .. n : r[m + k] = t[k]
  BY <1>3, <1>4, <1>5
<1>7. PICK z : z = [k \in 0 .. m + n |-> IF k <= m THEN x[k] ELSE y[k - m]]
  OBVIOUS
<1>8. /\ x \in [0 .. m -> Nat] /\ x[0] = u /\ x[m] = v
      /\ \A k \in 1 .. m : ReadsOne(s[k], x[k - 1], x[k])
  BY <1>1, <1>4 DEF Read
<1>9. /\ y \in [0 .. n -> Nat] /\ y[0] = v /\ y[n] = w
      /\ \A k \in 1 .. n : ReadsOne(t[k], y[k - 1], y[k])
  BY <1>2, <1>4 DEF Read
<1>10. \A k \in 0 .. m : z[k] = x[k]
  BY <1>7
<1>11. \A k \in 0 .. n : z[m + k] = y[k]
  <2> SUFFICES ASSUME NEW k \in 0 .. n PROVE z[m + k] = y[k]
    OBVIOUS
  <2>1. CASE k = 0
    <3>1. m + k = m /\ m \in 0 .. m
      BY <2>1
    <3> QED BY <1>8, <1>9, <1>10, <2>1, <3>1
  <2>2. CASE k # 0
    <3>1. m + k \in 0 .. m + n /\ ~ m + k <= m /\ (m + k) - m = k
      BY <2>2
    <3> QED BY <1>7, <3>1
  <2> QED BY <2>1, <2>2
<1>12. z \in [0 .. m + n -> Nat]
  <2>1. ASSUME NEW k \in 0 .. m + n PROVE (IF k <= m THEN x[k] ELSE y[k - m]) \in Nat
    <3>1. k <= m => k \in 0 .. m
      OBVIOUS
    <3>2. ~ k <= m => k - m \in 0 .. n
      OBVIOUS
    <3> QED BY <1>8, <1>9, <3>1, <3>2
  <2> QED BY <1>7, <2>1
<1>13. z[0] = u /\ z[m + n] = w
  <2>1. 0 \in 0 .. m /\ n \in 0 .. n
    OBVIOUS
  <2> QED BY <1>8, <1>9, <1>10, <1>11, <2>1
<1>14. ASSUME NEW k \in 1 .. m + n PROVE ReadsOne(r[k], z[k - 1], z[k])
  <2>1. CASE k <= m
    <3>1. k \in 1 .. m /\ k \in 0 .. m /\ k - 1 \in 0 .. m
      BY <2>1
    <3>2. r[k] = s[k] /\ z[k - 1] = x[k - 1] /\ z[k] = x[k]
      BY <1>6, <1>10, <3>1
    <3> QED BY <1>8, <3>1, <3>2
  <2>2. CASE ~ k <= m
    <3>1. PICK j \in 1 .. n : j = k - m
      BY <2>2
    <3>2. k = m + j /\ k - 1 = m + (j - 1) /\ j \in 0 .. n /\ j - 1 \in 0 .. n
      BY <3>1
    <3>3. r[k] = t[j] /\ z[k - 1] = y[j - 1] /\ z[k] = y[j]
      BY <1>6, <1>11, <3>1, <3>2
    <3> QED BY <1>9, <3>1, <3>3
  <2> QED BY <2>1, <2>2
<1>15. Read(z, r, u, w)
  BY <1>6, <1>12, <1>13, <1>14 DEF Read
<1> QED BY <1>5, <1>6, <1>15 DEF Reads

LEMMA ReadsZeros ==
  ASSUME NEW k \in Nat
  PROVE  Reads(Repeat("0", k), 0, 0) /\ Len(Repeat("0", k)) = k
<1>1. PICK s : s = Repeat("0", k)
  OBVIOUS
<1>2. s \in Seq(Characters) /\ Len(s) = k /\ \A i \in 1 .. k : s[i] = "0"
  <2>1. PICK c \in Characters : c = "0"
    BY CharactersAre
  <2>2. s = [i \in 1 .. k |-> c]
    BY <1>1, <2>1 DEF Repeat
  <2> QED BY <2>1, <2>2
<1>3. PICK x : x = [i \in 0 .. k |-> 0]
  OBVIOUS
<1>4. x \in [0 .. k -> Nat] /\ \A i \in 0 .. k : x[i] = 0
  BY <1>3
<1>5. ReadsOne("0", 0, 0)
  <2>1. 0 \in 0 .. 9 /\ "0" = Figure(0) /\ 0 = 10 * 0 + 0
    BY DEF Figure, Figures
  <2> QED BY <2>1 DEF ReadsOne
<1>6. \A i \in 1 .. k : ReadsOne(s[i], x[i - 1], x[i])
  <2> SUFFICES ASSUME NEW i \in 1 .. k PROVE ReadsOne(s[i], x[i - 1], x[i])
    OBVIOUS
  <2>1. i \in 0 .. k /\ i - 1 \in 0 .. k
    OBVIOUS
  <2>2. s[i] = "0" /\ x[i - 1] = 0 /\ x[i] = 0
    BY <1>2, <1>4, <2>1
  <2> QED BY <1>5, <2>2
<1>7. 0 \in 0 .. k /\ k \in 0 .. k
  OBVIOUS
<1>8. Read(x, s, 0, 0)
  BY <1>2, <1>4, <1>6, <1>7 DEF Read
<1> QED BY <1>1, <1>2, <1>8 DEF Reads

(* What is read of a piece of the text that was printed.                   *)
Reading(r, first, last) ==
  r = [k \in first - 1 .. last |->
         IF k < first THEN 0
         ELSE IF printed[k] \in {".", "-", " "} THEN r[k - 1]
         ELSE 10 * r[k - 1] + FigureValue(printed[k])]

LEMMA ReadDigitsIs ==
  ASSUME NEW s, NEW v, Reads(s, 0, v), NEW i \in Nat, \A k \in 1 .. Len(s) : printed[i + k] = s[k]
  PROVE  ReadDigits(i + 1, i + Len(s)) = v
<1>1. PICK x : Read(x, s, 0, v)
  BY DEF Reads
<1>2. PICK n \in Nat : n = Len(s)
  BY DEF Reads
<1>3. PICK first \in Nat, last \in Nat : first = i + 1 /\ last = i + n
  OBVIOUS
<1>4. /\ x \in [0 .. n -> Nat] /\ x[0] = 0 /\ x[n] = v
      /\ \A k \in 1 .. n : ReadsOne(s[k], x[k - 1], x[k])
  BY <1>1, <1>2 DEF Read
<1>5. PICK y : y = [k \in first - 1 .. last |-> x[k - i]]
  OBVIOUS
<1>6. \A k \in first - 1 .. last : y[k] = x[k - i] /\ k - i \in 0 .. n
  BY <1>3, <1>5
<1>7. ASSUME NEW k \in first - 1 .. last
      PROVE  y[k] = IF k < first THEN 0
                    ELSE IF printed[k] \in {".", "-", " "} THEN y[k - 1]
                    ELSE 10 * y[k - 1] + FigureValue(printed[k])
  <2>1. CASE k < first
    <3>1. k - i = 0
      BY <1>3, <2>1
    <3> QED BY <1>4, <1>6, <2>1, <3>1
  <2>2. CASE ~ k < first
    <3>1. PICK j \in 1 .. n : j = k - i
      BY <1>3, <2>2
    <3>2. k = i + j /\ k - 1 \in first - 1 .. last /\ (k - 1) - i = j - 1
      BY <1>3, <2>2, <3>1
    <3>3. printed[k] = s[j] /\ y[k] = x[j] /\ y[k - 1] = x[j - 1]
      BY <1>2, <1>6, <3>1, <3>2
    <3>4. ReadsOne(s[j], x[j - 1], x[j])
      BY <1>4, <3>1
    <3>5. CASE s[j] \in Skipped /\ x[j] = x[j - 1]
      BY <2>2, <3>3, <3>5 DEF Skipped
    <3>6. CASE \E f \in 0 .. 9 : s[j] = Figure(f) /\ x[j] = 10 * x[j - 1] + f
      <4>1. PICK f \in 0 .. 9 : s[j] = Figure(f) /\ x[j] = 10 * x[j - 1] + f
        BY <3>6
      <4>2. s[j] \notin {".", "-", " "} /\ FigureValue(s[j]) = f
        BY <4>1, FigureOf
      <4> QED BY <2>2, <3>3, <4>1, <4>2
    <3> QED BY <3>4, <3>5, <3>6 DEF ReadsOne
  <2> QED BY <2>1, <2>2
<1>8. Reading(y, first, last)
  <2>1. y = [k \in first - 1 .. last |-> y[k]]
    BY <1>5
  <2> QED BY <1>7, <2>1 DEF Reading
<1> DEFINE u == CHOOSE r : Reading(r, first, last)
<1>9. Reading(u, first, last)
  BY <1>8
<1>10. ReadDigits(first, last) = u[last]
  BY Zenon DEF ReadDigits, Reading
<1> HIDE DEF u
<1>11. PICK r : r = u
  OBVIOUS
<1>12. \A k \in first - 1 .. last :
         r[k] = IF k < first THEN 0
                ELSE IF printed[k] \in {".", "-", " "} THEN r[k - 1]
                ELSE 10 * r[k - 1] + FigureValue(printed[k])
  BY <1>9, <1>11 DEF Reading
<1> DEFINE S == {k \in 0 .. n : r[i + k] = y[i + k]}
<1>13. 0 \in S
  <2>1. PICK j \in first - 1 .. last : j = i + 0 /\ j < first
    BY <1>3
  <2>2. r[j] = 0 /\ y[j] = 0
    BY <1>7, <1>12, <2>1
  <2> QED BY <2>1, <2>2
<1>14. ASSUME NEW k \in 0 .. n - 1, k \in S PROVE k + 1 \in S
  <2>1. PICK j \in first .. last : j = i + (k + 1)
    BY <1>3
  <2>2. j - 1 = i + k /\ j \in first - 1 .. last /\ ~ j < first /\ k + 1 \in 0 .. n
    BY <1>3, <2>1
  <2>3. r[j - 1] = y[j - 1]
    BY <1>14, <2>2
  <2>4. r[j] = y[j]
    BY <1>7, <1>12, <2>2, <2>3
  <2> QED BY <2>1, <2>2, <2>4
<1> HIDE DEF S
<1>15. n \in S
  <2>1. \A k \in 0 .. n : k \in S
    BY <1>13, <1>14, Inductive
  <2> QED BY <2>1
<1>16. r[last] = y[last]
  BY <1>3, <1>15 DEF S
<1>17. y[last] = v
  <2>1. last \in first - 1 .. last /\ last - i = n
    BY <1>3
  <2> QED BY <1>4, <1>6, <2>1
<1> QED BY <1>2, <1>3, <1>10, <1>11, <1>16, <1>17

----------------------------------------------------------------------------
(* x without its last p digits.                                            *)
Above(x, p, q) == q \in Nat /\ \E w \in Nat : w < Ten(p) /\ x = Tens(q, p) + w

LEMMA AboveIs ==
  ASSUME NEW x \in Nat, NEW p \in Nat, NEW q \in Nat
  PROVE  Above(x, p, q) <=> Tens(q, p) <= x /\ x < Tens(q + 1, p)
<1>1. PICK y \in Nat, t \in Nat : y = Tens(q, p) /\ t = Ten(p)
  BY TensNat, TenIs
<1>2. Tens(q + 1, p) = y + t
  BY <1>1, TensSum, TenIs
<1>3. Above(x, p, q) <=> \E w \in Nat : w < t /\ x = y + w
  BY <1>1 DEF Above
<1>4. (\E w \in Nat : w < t /\ x = y + w) <=> y <= x /\ x < y + t
  <2>1. ASSUME y <= x, x < y + t PROVE \E w \in Nat : w < t /\ x = y + w
    <3>1. x - y \in Nat /\ x - y < t /\ x = y + (x - y)
      BY <2>1
    <3> QED BY <3>1
  <2> QED BY <2>1
<1> QED BY <1>1, <1>2, <1>3, <1>4

LEMMA AboveOnce ==
  ASSUME NEW x \in Nat, NEW p \in Nat, NEW q, NEW u, Above(x, p, q), Above(x, p, u)
  PROVE  q = u
<1>1. q \in Nat /\ u \in Nat
  BY DEF Above
<1>2. /\ Tens(q, p) <= x /\ x < Tens(q + 1, p)
      /\ Tens(u, p) <= x /\ x < Tens(u + 1, p)
  BY <1>1, AboveIs
<1>3. /\ Tens(q, p) \in Nat /\ Tens(q + 1, p) \in Nat
      /\ Tens(u, p) \in Nat /\ Tens(u + 1, p) \in Nat
  <2>1. q + 1 \in Nat /\ u + 1 \in Nat
    BY <1>1
  <2> QED BY <1>1, <2>1, TensNat
<1>4. ~ q < u
  <2> SUFFICES ASSUME q < u PROVE FALSE
    OBVIOUS
  <2>1. q + 1 \in Int /\ u \in Int /\ q + 1 <= u
    BY <1>1
  <2>2. Tens(q + 1, p) <= Tens(u, p)
    BY <2>1, TensAtMost
  <2> QED BY <1>2, <1>3, <2>2
<1>5. ~ u < q
  <2> SUFFICES ASSUME u < q PROVE FALSE
    OBVIOUS
  <2>1. u + 1 \in Int /\ q \in Int /\ u + 1 <= q
    BY <1>1
  <2>2. Tens(u + 1, p) <= Tens(q, p)
    BY <2>1, TensAtMost
  <2> QED BY <1>2, <1>3, <2>2
<1> QED BY <1>1, <1>4, <1>5

(* r digits less of what is left.                                          *)
LEMMA AboveMore ==
  ASSUME NEW x \in Nat, NEW p \in Nat, NEW t, Above(x, p, t), NEW r \in Nat, NEW q, Above(t, r, q)
  PROVE  Above(x, p + r, q)
<1>1. t \in Nat /\ q \in Nat
  BY DEF Above
<1>2. Tens(t, p) <= x /\ x < Tens(t + 1, p) /\ Tens(q, r) <= t /\ t < Tens(q + 1, r)
  BY <1>1, AboveIs
<1>3. PICK y \in Nat, z \in Nat : y = Tens(q, r) /\ z = Tens(q + 1, r)
  <2>1. q + 1 \in Nat
    BY <1>1
  <2> QED BY <1>1, <2>1, TensNat
<1>4. Tens(y, p) <= Tens(t, p) /\ Tens(t + 1, p) <= Tens(z, p)
  <2>1. y \in Int /\ t \in Int /\ t + 1 \in Int /\ z \in Int /\ y <= t /\ t + 1 <= z
    BY <1>1, <1>2, <1>3
  <2> QED BY <2>1, TensAtMost
<1>5. Tens(y, p) = Tens(q, r + p) /\ Tens(z, p) = Tens(q + 1, r + p)
  BY <1>1, <1>3, TensTwice
<1>6. PICK a \in Nat, b \in Nat, c \in Nat, d \in Nat :
        a = Tens(y, p) /\ b = Tens(t, p) /\ c = Tens(t + 1, p) /\ d = Tens(z, p)
  <2>1. t + 1 \in Nat
    BY <1>1
  <2> QED BY <1>1, <1>3, <2>1, TensNat
<1>7. a <= x /\ x < d
  BY <1>2, <1>4, <1>6
<1>8. r + p = p + r /\ p + r \in Nat
  OBVIOUS
<1> QED BY <1>1, <1>5, <1>6, <1>7, <1>8, AboveIs

LEMMA AboveTenth ==
  ASSUME NEW x \in Nat, NEW p \in Nat, NEW q, Above(x, p, q)
  PROVE  Above(x, p + 1, q \div 10) /\ q \div 10 \in Nat
<1>1. q \in Nat
  BY DEF Above
<1>2. PICK u \in Nat : u = q \div 10 /\ 10 * u <= q /\ q < 10 * (u + 1)
  BY <1>1
<1>3. Tens(u, 1) = 10 * u /\ Tens(u + 1, 1) = 10 * (u + 1)
  BY TensFew
<1>4. Above(q, 1, u)
  BY <1>1, <1>2, <1>3, AboveIs
<1> QED BY <1>2, <1>4, AboveMore

(* A digit of a limb is one of the mantissa.                               *)
LEMMA DigitOfLimb ==
  ASSUME NEW s, NEW u, Unit(s, u), NEW h \in Nat, NEW y \in 0 .. Base - 1, NEW t \in Nat, t = Base * h + y
  PROVE  /\ t \div s \in Nat /\ s * (t \div s) <= t /\ t < s * (t \div s + 1)
         /\ (t \div s) % 10 = (y \div s) % 10
<1>1. CASE Base = 10 /\ s = 1 BY <1>1
<1>2. CASE Base = 100 /\ s = 1 BY <1>2
<1>3. CASE Base = 100 /\ s = 10 BY <1>3
<1>4. CASE Base = 1000 /\ s = 1 BY <1>4
<1>5. CASE Base = 1000 /\ s = 10 BY <1>5
<1>6. CASE Base = 1000 /\ s = 100 BY <1>6
<1>7. CASE Base = 10000 /\ s = 1 BY <1>7
<1>8. CASE Base = 10000 /\ s = 10 BY <1>8
<1>9. CASE Base = 10000 /\ s = 100 BY <1>9
<1>10. CASE Base = 10000 /\ s = 1000 BY <1>10
<1> QED BY <1>1, <1>2, <1>3, <1>4, <1>5, <1>6, <1>7, <1>8, <1>9, <1>10 DEF Unit

LEMMA DigitAbove ==
  ASSUME NEW m \in Mantissas, NEW p \in 0 .. Positions - 1
  PROVE  \E q : Above(Value(m), p, q) /\ q % 10 = (m[p \div Log10] \div 10 ^ (p % Log10)) % 10
<1>1. p \in 0 .. Positions /\ p < Positions
  BY PositionsIs
<1>2. PICK i \in 0 .. Parts, r \in 0 .. Log10 - 1 :
        i = p \div Log10 /\ r = p % Log10 /\ p = i * Log10 + r
  BY <1>1, Shifted
<1>3. i < Parts
  <2>1. CASE i = Parts
    <3>1. Parts * Log10 + r < Parts * Log10
      BY <1>1, <1>2, <2>1, PositionsIs
    <3>2. Parts * Log10 \in Nat /\ r \in Nat
      BY PositionsIs, BaseIs
    <3> QED BY <3>1, <3>2
  <2> QED BY <2>1, PartsIs
<1>4. PICK k \in 1 .. Parts : k = Parts - i
  BY <1>3, PartsIs
<1>5. /\ k \in 0 .. Parts /\ k - 1 \in 0 .. Parts - 1 /\ (k - 1) + 1 = k /\ Parts - k = i
      /\ k + i = Parts /\ i \in Nat /\ Parts \in Nat
  BY <1>4, PartsIs
<1>6. IsLimbs(Down(m), Parts) /\ Down(m)[k] = m[i]
  BY <1>5, DownIs
<1>7. PICK t \in Nat, h \in Nat, y \in 0 .. Base - 1 :
        t = Top(Down(m), k) /\ y = m[i] /\ t = Base * h + y
  <2>1. PICK l \in 0 .. Parts - 1 : l = k - 1 /\ l + 1 = k
    BY <1>5
  <2>2. /\ Top(Down(m), l + 1) = Base * Top(Down(m), l) + Down(m)[l + 1]
        /\ Down(m)[l + 1] \in 0 .. Base - 1 /\ Top(Down(m), l) \in Nat /\ Top(Down(m), l + 1) \in Nat
    BY <1>5, <1>6, TopNext
  <2> QED BY <1>6, <2>1, <2>2
<1>8. PICK v \in Nat : v = Value(m)
  BY ValueBelow
<1>9. Above(v, i * Log10, t)
  <2>1. Tens(t, i * Log10) <= v /\ v < Tens(t + 1, i * Log10)
    BY <1>5, <1>6, <1>7, <1>8, TopRest DEF Value
  <2> QED BY <1>5, <2>1, Places, AboveIs
<1>10. PICK s, u : s = 10 ^ r /\ Unit(s, u) /\ \A w \in Int : Tens(w, r) = s * w
  BY UnitIs
<1>11. PICK q \in Nat : /\ q = t \div s /\ s * q <= t /\ t < s * (q + 1)
                        /\ q % 10 = (y \div s) % 10
  BY <1>7, <1>10, DigitOfLimb
<1>12. Above(t, r, q)
  <2>1. Tens(q, r) = s * q /\ Tens(q + 1, r) = s * (q + 1) /\ r \in Nat
    BY <1>10, BaseIs
  <2> QED BY <1>11, <2>1, AboveIs
<1>13. Above(v, i * Log10 + r, q)
  <2>1. i * Log10 \in Nat /\ r \in Nat
    BY <1>5, Places, BaseIs
  <2> QED BY <1>9, <1>12, <2>1, AboveMore
<1> QED BY <1>2, <1>7, <1>8, <1>10, <1>11, <1>13

(* The digits of a number, from the highest one.                           *)
Counted(d) == d.m \in Mantissas /\ d.n = decimal_num_digits(d.m) /\ d.n > 0

LEMMA CountedIs ==
  ASSUME NEW d, Counted(d)
  PROVE  d.n \in 1 .. Positions /\ IsDigits(d.n, Value(d.m)) /\ Value(d.m) \in Nat
<1>1. d.n \in 0 .. Positions /\ IsDigits(d.n, Value(d.m)) /\ d.n > 0
  BY NumDigits DEF Counted
<1>2. Value(d.m) \in Nat
  BY ValueBelow DEF Counted
<1> QED BY <1>1, <1>2, PositionsIs

LEMMA NthDigitIs ==
  ASSUME NEW d, Counted(d), NEW k \in Nat
  PROVE  NthDigit(d, k) = IF d.n - 1 - k < 0 THEN 0
                          ELSE (d.m[(d.n - 1 - k) \div Log10] \div 10 ^ ((d.n - 1 - k) % Log10)) % 10
<1>1. PICK n \in 1 .. Positions : n = d.n
  BY CountedIs
<1>2. PICK i \in Limbs : Highest(d.m, i) /\ n = i * Log10 + DigitsOf(d.m[i])
  <2>1. d.m \in Mantissas /\ n = decimal_num_digits(d.m)
    BY <1>1 DEF Counted
  <2> QED BY <1>1, <2>1, HighestIs
<1>3. PICK g \in 1 .. Log10 : g = DigitsOf(d.m[i])
  <2>1. d.m[i] \in 0 .. Base - 1 /\ d.m[i] # 0
    BY <1>2, LimbIs DEF Highest, Counted
  <2>2. DigitsOf(d.m[i]) \in 0 .. Log10 /\ DigitsOf(d.m[i]) > 0
    BY <2>1, DigitsOfIs, BaseIs
  <2> QED BY <2>2, BaseIs
<1>4. PICK h \in Nat : h = i
  BY <1>2 DEF Limbs
<1>5. PICK q \in Nat : q = h * Log10 /\ n = q + g
  BY <1>2, <1>3, <1>4, Places
<1>6. (n - 1) \div Log10 = h
  <2>1. CASE Log10 = 1 BY <1>3, <1>5, <2>1
  <2>2. CASE Log10 = 2 BY <1>3, <1>5, <2>2
  <2>3. CASE Log10 = 3 BY <1>3, <1>5, <2>3
  <2>4. CASE Log10 = 4 BY <1>3, <1>5, <2>4
  <2> QED BY <2>1, <2>2, <2>3, <2>4, BaseIs
<1>7. Max({g, 1}) = g
  <2>1. \A x \in {g, 1} : x <= g
    BY <1>3
  <2>2. \A x \in {g, 1} : (\A y \in {g, 1} : x >= y) => x = g
    BY <1>3
  <2>3. Max({g, 1}) = CHOOSE x \in {g, 1} : \A y \in {g, 1} : x >= y
    BY DEF Max
  <2>4. g \in {g, 1} /\ \A y \in {g, 1} : g >= y
    BY <1>3, <2>1
  <2> QED BY <2>2, <2>3, <2>4
<1>8. h * Log10 + Max({DigitsOf(d.m[h]), 1}) - 1 - k = n - 1 - k
  BY <1>3, <1>4, <1>5, <1>7
<1> QED BY <1>1, <1>6, <1>8 DEF NthDigit

(* v is the number of the first k digits.                                  *)
First(d, k, v) ==
  \/ k <= d.n /\ Above(Value(d.m), d.n - k, v)
  \/ k > d.n /\ v = Tens(Value(d.m), k - d.n)

LEMMA FirstOnce ==
  ASSUME NEW d, Counted(d), NEW k \in Nat, NEW u, NEW v, First(d, k, u), First(d, k, v)
  PROVE  u = v /\ u \in Nat
<1>1. PICK n \in Nat, x \in Nat : n = d.n /\ x = Value(d.m)
  BY CountedIs
<1>2. CASE k <= n
  <2>1. n - k \in Nat /\ Above(x, n - k, u) /\ Above(x, n - k, v)
    BY <1>1, <1>2 DEF First
  <2> QED BY <2>1, AboveOnce DEF Above
<1>3. CASE k > n
  <2>1. k - n \in Nat /\ u = Tens(x, k - n) /\ v = Tens(x, k - n)
    BY <1>1, <1>3 DEF First
  <2> QED BY <2>1, TensNat
<1> QED BY <1>2, <1>3

LEMMA FirstNone ==
  ASSUME NEW d, Counted(d)
  PROVE  First(d, 0, 0)
<1>1. PICK n \in Nat, x \in Nat : n = d.n /\ x = Value(d.m) /\ x < Ten(n)
  BY CountedIs DEF IsDigits
<1>2. Above(x, n, 0)
  BY <1>1, TensZero DEF Above
<1>3. n - 0 = n /\ 0 <= n
  BY <1>1
<1> QED BY <1>1, <1>2, <1>3 DEF First

LEMMA FirstNext ==
  ASSUME NEW d, Counted(d), NEW k \in Nat, NEW v, First(d, k, v)
  PROVE  NthDigit(d, k) \in 0 .. 9 /\ First(d, k + 1, 10 * v + NthDigit(d, k))
<1>1. PICK n \in 1 .. Positions, x \in Nat : n = d.n /\ x = Value(d.m)
  BY CountedIs
<1>2. v \in Nat
  BY FirstOnce
<1>3. CASE k < n
  <2>1. PICK p \in 0 .. Positions - 1 : p = n - 1 - k /\ n - k = p + 1 /\ n - (k + 1) = p
    BY <1>1, <1>3, PositionsIs
  <2>2. PICK f : f = NthDigit(d, k)
    OBVIOUS
  <2>3. f = (d.m[p \div Log10] \div 10 ^ (p % Log10)) % 10
    <3>1. d.n - 1 - k = p /\ ~ d.n - 1 - k < 0
      BY <1>1, <2>1
    <3>2. NthDigit(d, k) = (d.m[(d.n - 1 - k) \div Log10] \div 10 ^ ((d.n - 1 - k) % Log10)) % 10
      BY <3>1, NthDigitIs
    <3> QED BY <2>2, <3>1, <3>2
  <2>4. PICK q : Above(x, p, q) /\ q % 10 = f
    BY <1>1, <2>3, DigitAbove DEF Counted
  <2>5. p \in Nat /\ q \in Nat
    BY <2>1, <2>4 DEF Above
  <2>6. Above(x, p + 1, q \div 10)
    BY <2>4, <2>5, AboveTenth
  <2>7. Above(x, p + 1, v)
    BY <1>1, <1>3, <2>1 DEF First
  <2>8. v = q \div 10
    BY <2>5, <2>6, <2>7, AboveOnce
  <2>9. q = 10 * v + f /\ f \in 0 .. 9
    BY <2>4, <2>5, <2>8
  <2>10. k + 1 <= n
    BY <1>1, <1>3
  <2> QED BY <1>1, <2>1, <2>2, <2>4, <2>9, <2>10 DEF First
<1>4. CASE ~ k < n
  <2>1. NthDigit(d, k) = 0
    <3>1. n - 1 - k < 0
      BY <1>1, <1>4
    <3> QED BY <1>1, <3>1, NthDigitIs
  <2>2. PICK l \in Nat : l = k - n
    BY <1>1, <1>4
  <2>3. v = Tens(x, l)
    <3>1. CASE k = n
      <4>1. Above(x, 0, v)
        BY <1>1, <3>1 DEF First
      <4>2. Above(x, 0, x)
        BY TensFew, TenFew DEF Above
      <4>3. v = x /\ l = 0
        BY <2>2, <3>1, <4>1, <4>2, AboveOnce
      <4> QED BY <4>3, TensFew
    <3>2. CASE k # n
      BY <1>1, <1>4, <2>2, <3>2 DEF First
    <3> QED BY <3>1, <3>2
  <2>4. Tens(x, l + 1) = 10 * v + 0
    <3>1. Tens(x, l + 1) = 10 * Tens(x, l)
      BY TensNext
    <3> QED BY <1>2, <2>3, <3>1
  <2>5. k + 1 > n /\ (k + 1) - n = l + 1
    BY <1>1, <1>4, <2>2
  <2> QED BY <1>1, <2>1, <2>4, <2>5 DEF First
<1> QED BY <1>3, <1>4

LEMMA FirstExists ==
  ASSUME NEW d, Counted(d), NEW k \in Nat
  PROVE  \E v : First(d, k, v)
<1> DEFINE S == {j \in Nat : \E v : First(d, j, v)}
<1>1. 0 \in S
  BY FirstNone
<1>2. ASSUME NEW j \in Nat, j \in S PROVE j + 1 \in S
  <2>1. PICK v : First(d, j, v)
    BY <1>2
  <2>2. First(d, j + 1, 10 * v + NthDigit(d, j))
    BY <2>1, FirstNext
  <2> QED BY <2>2
<1> HIDE DEF S
<1>3. k \in S
  BY <1>1, <1>2, InductiveNat
<1> QED BY <1>3 DEF S

(* They are read as their number.                                          *)
LEMMA DigitsAreRead ==
  ASSUME NEW d, Counted(d), NEW k \in Nat, NEW n \in Nat, NEW u, First(d, k, u)
  PROVE  \E v : First(d, k + n, v) /\ Reads(DigitsFrom(d, k, n), u, v)
<1>1. PICK s : s = DigitsFrom(d, k, n)
  OBVIOUS
<1>2. s = [i \in 1 .. n |-> Figure(NthDigit(d, k + i - 1))]
  BY <1>1 DEF DigitsFrom
<1>3. PICK x : x = [i \in 0 .. n |-> CHOOSE v : First(d, k + i, v)]
  OBVIOUS
<1>4. ASSUME NEW i \in 0 .. n PROVE First(d, k + i, x[i]) /\ x[i] \in Nat
  <2>1. PICK j \in Nat : j = k + i
    OBVIOUS
  <2>2. \E v : First(d, j, v)
    BY FirstExists
  <2>3. First(d, j, CHOOSE v : First(d, j, v))
    BY <2>2
  <2>4. First(d, j, x[i])
    BY <1>3, <2>1, <2>3
  <2> QED BY <2>1, <2>4, FirstOnce
<1>5. x \in [0 .. n -> Nat]
  BY <1>3, <1>4
<1>6. x[0] = u
  <2>1. 0 \in 0 .. n /\ k + 0 = k
    OBVIOUS
  <2>2. First(d, k, x[0])
    BY <1>4, <2>1
  <2> QED BY <2>2, FirstOnce
<1>7. ASSUME NEW i \in 1 .. n
      PROVE  NthDigit(d, k + i - 1) \in 0 .. 9 /\ x[i] = 10 * x[i - 1] + NthDigit(d, k + i - 1)
  <2>1. PICK j \in Nat : j = k + i - 1 /\ j = k + (i - 1) /\ j + 1 = k + i
    OBVIOUS
  <2>2. i \in 0 .. n /\ i - 1 \in 0 .. n
    OBVIOUS
  <2>3. First(d, j, x[i - 1]) /\ First(d, j + 1, x[i])
    BY <1>4, <2>1, <2>2
  <2>4. NthDigit(d, j) \in 0 .. 9 /\ First(d, j + 1, 10 * x[i - 1] + NthDigit(d, j))
    BY <2>3, FirstNext
  <2>5. x[i] = 10 * x[i - 1] + NthDigit(d, j)
    <3>1. j + 1 \in Nat
      OBVIOUS
    <3> QED BY <2>3, <2>4, <3>1, FirstOnce
  <2> QED BY <2>1, <2>4, <2>5
<1>8. s \in Seq(Characters) /\ Len(s) = n
  <2>1. \A i \in 1 .. n : Figure(NthDigit(d, k + i - 1)) \in Characters
    BY <1>7, FigureOf
  <2> QED BY <1>2, <2>1
<1>9. ASSUME NEW i \in 1 .. n PROVE ReadsOne(s[i], x[i - 1], x[i])
  <2>1. s[i] = Figure(NthDigit(d, k + i - 1))
    BY <1>2
  <2> QED BY <1>7, <2>1 DEF ReadsOne
<1>10. Read(x, s, u, x[n])
  BY <1>5, <1>6, <1>8, <1>9 DEF Read
<1>11. n \in 0 .. n
  OBVIOUS
<1> QED BY <1>1, <1>4, <1>8, <1>10, <1>11 DEF Reads

----------------------------------------------------------------------------
(* Small integers as text.                                                 *)
Powers(j) == CASE j = 0 -> 1 [] j = 1 -> 10 [] j = 2 -> 100 [] j = 3 -> 1000
               [] j = 4 -> 10000 [] j = 5 -> 100000

LEMMA PowersAre ==
  ASSUME NEW j \in 0 .. 5
  PROVE  10 ^ j = Powers(j)
<1>1. /\ 10 ^ 0 = 1 /\ 10 ^ 1 = 10 /\ 10 ^ 2 = 100
      /\ 10 ^ 3 = 1000 /\ 10 ^ 4 = 10000 /\ 10 ^ 5 = 100000
  OBVIOUS
<1>2. CASE j = 0 BY <1>1, <1>2 DEF Powers
<1>3. CASE j = 1 BY <1>1, <1>3 DEF Powers
<1>4. CASE j = 2 BY <1>1, <1>4 DEF Powers
<1>5. CASE j = 3 BY <1>1, <1>5 DEF Powers
<1>6. CASE j = 4 BY <1>1, <1>6 DEF Powers
<1>7. CASE j = 5 BY <1>1, <1>7 DEF Powers
<1> QED BY <1>2, <1>3, <1>4, <1>5, <1>6, <1>7

LEMMA LastDigit ==
  ASSUME NEW v \in Nat
  PROVE  /\ v \div 1 = 10 * (v \div 10) + ((v \div 1) % 10)
         /\ v \div 10 = 10 * (v \div 100) + ((v \div 10) % 10)
         /\ v \div 100 = 10 * (v \div 1000) + ((v \div 100) % 10)
         /\ v \div 1000 = 10 * (v \div 10000) + ((v \div 1000) % 10)
         /\ v \div 10000 = 10 * (v \div 100000) + ((v \div 10000) % 10)
<1>1. v \div 1 = 10 * (v \div 10) + ((v \div 1) % 10)
  OBVIOUS
<1>2. v \div 10 = 10 * (v \div 100) + ((v \div 10) % 10)
  OBVIOUS
<1>3. v \div 100 = 10 * (v \div 1000) + ((v \div 100) % 10)
  OBVIOUS
<1>4. v \div 1000 = 10 * (v \div 10000) + ((v \div 1000) % 10)
  OBVIOUS
<1>5. v \div 10000 = 10 * (v \div 100000) + ((v \div 10000) % 10)
  OBVIOUS
<1> QED BY <1>1, <1>2, <1>3, <1>4, <1>5

LEMMA NextDigit ==
  ASSUME NEW v \in Nat, NEW j \in 0 .. 4
  PROVE  /\ v \div Powers(j) \in Nat /\ v \div Powers(j + 1) \in Nat
         /\ (v \div Powers(j)) % 10 \in 0 .. 9
         /\ v \div Powers(j) = 10 * (v \div Powers(j + 1)) + ((v \div Powers(j)) % 10)
<1>1. CASE j = 0
  <2>1. Powers(j) = 1 /\ Powers(j + 1) = 10
    BY <1>1 DEF Powers
  <2> QED BY <2>1, LastDigit
<1>2. CASE j = 1
  <2>1. Powers(j) = 10 /\ Powers(j + 1) = 100
    BY <1>2 DEF Powers
  <2> QED BY <2>1, LastDigit
<1>3. CASE j = 2
  <2>1. Powers(j) = 100 /\ Powers(j + 1) = 1000
    BY <1>3 DEF Powers
  <2> QED BY <2>1, LastDigit
<1>4. CASE j = 3
  <2>1. Powers(j) = 1000 /\ Powers(j + 1) = 10000
    BY <1>4 DEF Powers
  <2> QED BY <2>1, LastDigit
<1>5. CASE j = 4
  <2>1. Powers(j) = 10000 /\ Powers(j + 1) = 100000
    BY <1>5 DEF Powers
  <2> QED BY <2>1, LastDigit
<1> QED BY <1>1, <1>2, <1>3, <1>4, <1>5

LEMMA PaddedIsRead ==
  ASSUME NEW v \in Nat, NEW n \in 1 .. 5, v < Powers(n)
  PROVE  Reads(strop_fmt_uint64_padded(v, n), 0, v)
<1>1. PICK s : s = strop_fmt_uint64_padded(v, n)
  OBVIOUS
<1>2. s = [i \in 1 .. n |-> Figure((v \div 10 ^ (n - i)) % 10)]
  BY <1>1 DEF strop_fmt_uint64_padded
<1>3. ASSUME NEW i \in 1 .. n PROVE s[i] = Figure((v \div Powers(n - i)) % 10)
  <2>1. PICK j \in 0 .. 5 : j = n - i
    OBVIOUS
  <2>2. 10 ^ (n - i) = Powers(n - i)
    BY <2>1, PowersAre
  <2> QED BY <1>2, <2>2
<1>4. PICK x : x = [i \in 0 .. n |-> v \div Powers(n - i)]
  OBVIOUS
<1>5. \A i \in 0 .. n : x[i] = v \div Powers(n - i)
  BY <1>4
<1>6. ASSUME NEW i \in 1 .. n
      PROVE  /\ x[i] \in Nat /\ x[i - 1] \in Nat /\ (v \div Powers(n - i)) % 10 \in 0 .. 9
             /\ x[i] = 10 * x[i - 1] + ((v \div Powers(n - i)) % 10)
  <2>1. PICK j \in 0 .. 4 : j = n - i /\ n - (i - 1) = j + 1
    OBVIOUS
  <2>2. i \in 0 .. n /\ i - 1 \in 0 .. n
    OBVIOUS
  <2>3. x[i] = v \div Powers(j) /\ x[i - 1] = v \div Powers(j + 1)
    BY <1>5, <2>1, <2>2
  <2> QED BY <2>1, <2>3, NextDigit
<1>7. x \in [0 .. n -> Nat]
  <2>1. ASSUME NEW i \in 0 .. n PROVE x[i] \in Nat
    <3>1. CASE i = 0
      <4>1. PICK k : k = 1
        OBVIOUS
      <4>2. k \in 1 .. n /\ k - 1 = i
        BY <3>1, <4>1
      <4> QED BY <1>6, <4>2
    <3>2. CASE i # 0
      BY <1>6, <3>2
    <3> QED BY <3>1, <3>2
  <2> QED BY <1>4, <1>5, <2>1
<1>8. x[0] = 0 /\ x[n] = v
  <2>1. n \in 0 .. n /\ 0 \in 0 .. n /\ n - n = 0 /\ n - 0 = n /\ Powers(0) = 1
    BY DEF Powers
  <2>2. Powers(n) \in {10, 100, 1000, 10000, 100000}
    BY DEF Powers
  <2>3. v \div Powers(n) = 0
    BY <2>2
  <2>4. v \div 1 = v
    OBVIOUS
  <2> QED BY <1>5, <2>1, <2>3, <2>4
<1>9. s \in Seq(Characters) /\ Len(s) = n
  <2>1. \A i \in 1 .. n : s[i] \in Characters
    BY <1>3, <1>6, FigureOf
  <2> QED BY <1>2, <2>1
<1>10. ASSUME NEW i \in 1 .. n PROVE ReadsOne(s[i], x[i - 1], x[i])
  BY <1>3, <1>6 DEF ReadsOne
<1>11. Read(x, s, 0, v)
  BY <1>7, <1>8, <1>9, <1>10 DEF Read
<1> QED BY <1>1, <1>9, <1>11 DEF Reads

LEMMA LargePowers ==
  /\ 10 ^ 5 = 100000 /\ 10 ^ 6 = 1000000 /\ 10 ^ 7 = 10000000
  /\ 10 ^ 8 = 100000000 /\ 10 ^ 9 = 1000000000
<1>1. 10 ^ 5 = 100000
  OBVIOUS
<1>2. 10 ^ 6 = 1000000
  OBVIOUS
<1>3. 10 ^ 7 = 10000000
  OBVIOUS
<1>4. 10 ^ 8 = 100000000
  OBVIOUS
<1>5. 10 ^ 9 = 1000000000
  OBVIOUS
<1> QED BY <1>1, <1>2, <1>3, <1>4, <1>5

LEMMA IntegerIsRead ==
  ASSUME NEW v \in Nat, v < 100000
  PROVE  Reads(strop_fmt_uint64(v), 0, v)
<1> DEFINE Fits(n) == v \div 10 ^ (n - 1) < 10 /\ (n > 1 => v \div 10 ^ (n - 1) > 0)
<1>1. /\ Fits(1) <=> v < 10
      /\ Fits(2) <=> 10 <= v /\ v < 100
      /\ Fits(3) <=> 100 <= v /\ v < 1000
      /\ Fits(4) <=> 1000 <= v /\ v < 10000
      /\ Fits(5) <=> 10000 <= v
  <2>1. /\ 10 ^ 0 = 1 /\ 10 ^ 1 = 10 /\ 10 ^ 2 = 100
        /\ 10 ^ 3 = 1000 /\ 10 ^ 4 = 10000
    OBVIOUS
  <2>2. Fits(1) <=> v < 10
    BY <2>1
  <2>3. Fits(2) <=> 10 <= v /\ v < 100
    BY <2>1
  <2>4. Fits(3) <=> 100 <= v /\ v < 1000
    BY <2>1
  <2>5. Fits(4) <=> 1000 <= v /\ v < 10000
    BY <2>1
  <2>6. Fits(5) <=> 10000 <= v
    BY <2>1
  <2> QED BY <2>2, <2>3, <2>4, <2>5, <2>6
<1>2. /\ Fits(1) <=> v < 10
      /\ Fits(2) <=> 10 <= v /\ v < 100
      /\ Fits(3) <=> 100 <= v /\ v < 1000
      /\ Fits(4) <=> 1000 <= v /\ v < 10000
      /\ Fits(5) <=> 10000 <= v
      /\ ~ Fits(6) /\ ~ Fits(7) /\ ~ Fits(8) /\ ~ Fits(9) /\ ~ Fits(10)
  <2>1. 10 ^ 5 = 100000
    BY LargePowers
  <2>2. 10 ^ 6 = 1000000
    BY LargePowers
  <2>3. 10 ^ 7 = 10000000
    BY LargePowers
  <2>4. 10 ^ 8 = 100000000
    BY LargePowers
  <2>5. 10 ^ 9 = 1000000000
    BY LargePowers
  <2>6. ~ Fits(6)
    BY <2>1
  <2>7. ~ Fits(7)
    BY <2>2
  <2>8. ~ Fits(8)
    BY <2>3
  <2>9. ~ Fits(9)
    BY <2>4
  <2>10. ~ Fits(10)
    BY <2>5
  <2> QED BY <1>1, <2>6, <2>7, <2>8, <2>9, <2>10
<1>3. PICK n : n = CHOOSE l \in 1 .. 10 : Fits(l)
  OBVIOUS
<1>4. strop_fmt_uint64(v) = strop_fmt_uint64_padded(v, n)
  BY <1>3 DEF strop_fmt_uint64
<1> HIDE DEF Fits
<1>5. Fits(1) \/ Fits(2) \/ Fits(3) \/ Fits(4) \/ Fits(5)
  BY <1>2
<1>6. \E l \in 1 .. 10 : Fits(l)
  BY <1>5
<1>7. n \in 1 .. 10 /\ Fits(n)
  BY <1>3, <1>6
<1>8. n \in 1 .. 5 /\ v < Powers(n)
  <2>1. n = 1 \/ n = 2 \/ n = 3 \/ n = 4 \/ n = 5
    BY <1>2, <1>7
  <2>2. /\ Powers(1) = 10 /\ Powers(2) = 100 /\ Powers(3) = 1000
        /\ Powers(4) = 10000 /\ Powers(5) = 100000
    BY DEF Powers
  <2>3. CASE n = 1 BY <1>2, <1>7, <2>2, <2>3
  <2>4. CASE n = 2 BY <1>2, <1>7, <2>2, <2>4
  <2>5. CASE n = 3 BY <1>2, <1>7, <2>2, <2>5
  <2>6. CASE n = 4 BY <1>2, <1>7, <2>2, <2>6
  <2>7. CASE n = 5 BY <1>2, <1>7, <2>2, <2>7
  <2> QED BY <2>1, <2>3, <2>4, <2>5, <2>6, <2>7
<1> QED BY <1>4, <1>8, PaddedIsRead

----------------------------------------------------------------------------
(* The parts of a text.                                                    *)
LEMMA MinIs ==
  ASSUME NEW S, NEW x \in S, S \subseteq Int, \A y \in S : x <= y
  PROVE  Min(S) = x
<1>1. \A z \in S : (\A y \in S : z <= y) => z = x
  OBVIOUS
<1>2. Min(S) = CHOOSE z \in S : \A y \in S : z <= y
  BY DEF Min
<1> QED BY <1>1, <1>2

LEMMA MaxZero ==
  ASSUME NEW x \in Int
  PROVE  Max({x, 0}) = IF x >= 0 THEN x ELSE 0
<1>1. PICK z : z = IF x >= 0 THEN x ELSE 0
  OBVIOUS
<1>2. z \in {x, 0} /\ \A y \in {x, 0} : z >= y
  BY <1>1
<1>3. \A w \in {x, 0} : (\A y \in {x, 0} : w >= y) => w = z
  BY <1>2
<1>4. Max({x, 0}) = CHOOSE w \in {x, 0} : \A y \in {x, 0} : w >= y
  BY DEF Max
<1> QED BY <1>1, <1>2, <1>3, <1>4

LEMMA NoExponentRead ==
  ASSUME NEW v, Reads(printed, 0, v)
  PROVE  ReadExponent = 0 /\ ReadDigits(1, Find("e") - 1) = v /\ printed # <<"?">>
<1>1. PICK n \in Nat : n = Len(printed) /\ DOMAIN printed = 1 .. n
  BY ReadsNumbers
<1>2. {k \in DOMAIN printed : printed[k] = "e"} \cup {n + 1} = {n + 1}
  BY <1>1, ReadsNumbers
<1>3. Min({n + 1}) = n + 1
  <2>1. PICK S : S = {n + 1}
    OBVIOUS
  <2>2. n + 1 \in S /\ S \subseteq Int /\ \A y \in S : n + 1 <= y
    BY <2>1
  <2> QED BY <2>1, <2>2, MinIs
<1>4. Find("e") = n + 1
  BY <1>1, <1>2, <1>3 DEF Find
<1>5. ReadExponent = 0
  BY <1>1, <1>4 DEF ReadExponent
<1>6. \A k \in 1 .. Len(printed) : printed[0 + k] = printed[k]
  BY <1>1
<1>7. ReadDigits(0 + 1, 0 + Len(printed)) = v
  BY <1>6, ReadDigitsIs, SMTT(60)
<1>8. 0 + 1 = 1 /\ 0 + n = (n + 1) - 1
  OBVIOUS
<1>9. printed # <<"?">>
  <2> SUFFICES ASSUME printed = <<"?">> PROVE FALSE
    OBVIOUS
  <2>1. PICK q : q = "?"
    OBVIOUS
  <2>2. printed = <<q>>
    BY <2>1
  <2>3. Len(printed) = 1 /\ printed[1] = q
    BY <2>2
  <2>4. 1 \in 1 .. Len(printed)
    BY <2>3
  <2>5. printed[1] # "?"
    BY <2>4, ReadsNumbers
  <2> QED BY <2>1, <2>3, <2>5
<1> QED BY <1>1, <1>4, <1>5, <1>7, <1>8, <1>9

Joined(y, s, t) ==
  /\ Len(y) = Len(s) + Len(t)
  /\ \A k \in 1 .. Len(s) : y[k] = s[k]
  /\ \A k \in 1 .. Len(t) : y[Len(s) + k] = t[k]

LEMMA JoinedIs ==
  ASSUME NEW S, NEW s \in Seq(S), NEW t \in Seq(S)
  PROVE  Joined(s \o t, s, t) /\ s \o t \in Seq(S)
  BY DEF Joined

LEMMA ExponentRead ==
  ASSUME NEW b, NEW v, Reads(b, 0, v), NEW c \in {"+", "-"}, NEW t, NEW e, Reads(t, 0, e),
         printed = b \o (<<"e", c>> \o t)
  PROVE  /\ ReadExponent = e * (IF c = "-" THEN -1 ELSE 1)
         /\ ReadDigits(1, Find("e") - 1) = v /\ printed # <<"?">>
         /\ Len(b) > 0 => printed[1] = b[1]
<1>1. PICK m \in Nat, n \in Nat : m = Len(b) /\ n = Len(t)
  BY ReadsNumbers
<1>2. b \in Seq(Characters) /\ t \in Seq(Characters)
  BY ReadsNumbers
<1>3. PICK z : z = <<"e", c>>
  OBVIOUS
<1>4. z \in Seq(Characters) /\ Len(z) = 2 /\ z[1] = "e" /\ z[2] = c
  <2>1. c \in Characters /\ "e" \in Characters
    BY CharactersAre
  <2>2. PICK a \in Characters : a = "e"
    BY <2>1
  <2>3. <<a, c>> \in Seq(Characters) /\ Len(<<a, c>>) = 2 /\ <<a, c>>[1] = a /\ <<a, c>>[2] = c
    BY <2>1
  <2> QED BY <1>3, <2>2, <2>3
<1>5. PICK y : y = z \o t
  OBVIOUS
<1>6. /\ y \in Seq(Characters) /\ Len(y) = 2 + n /\ y[1] = "e" /\ y[2] = c
      /\ \A k \in 1 .. n : y[2 + k] = t[k]
  <2>1. /\ y \in Seq(Characters) /\ Len(y) = Len(z) + Len(t)
        /\ \A k \in 1 .. Len(z) : y[k] = z[k]
        /\ \A k \in 1 .. Len(t) : y[Len(z) + k] = t[k]
    <3>1. z \in Seq(Characters) /\ t \in Seq(Characters)
      BY <1>2, <1>4
    <3>2. Joined(z \o t, z, t) /\ z \o t \in Seq(Characters)
      BY <3>1, JoinedIs, Zenon
    <3> QED BY <1>5, <3>2 DEF Joined
  <2>2. 1 \in 1 .. 2 /\ 2 \in 1 .. 2
    OBVIOUS
  <2> QED BY <1>1, <1>4, <2>1, <2>2
<1>7. /\ printed \in Seq(Characters) /\ Len(printed) = m + 2 + n
      /\ \A k \in 1 .. m : printed[k] = b[k]
      /\ \A k \in 1 .. 2 + n : printed[m + k] = y[k]
  BY <1>1, <1>2, <1>3, <1>5, <1>6
<1>8. DOMAIN printed = 1 .. m + 2 + n
  BY <1>7
<1>9. Find("e") = m + 1
  <2>1. PICK S : S = {k \in DOMAIN printed : printed[k] = "e"} \cup {Len(printed) + 1}
    OBVIOUS
  <2>2. m + 1 \in S
    <3>1. 1 \in 1 .. 2 + n
      OBVIOUS
    <3>2. printed[m + 1] = "e"
      BY <1>6, <1>7, <3>1
    <3> QED BY <1>8, <2>1, <3>2
  <2>3. S \subseteq Int
    BY <1>7, <1>8, <2>1
  <2>4. ASSUME NEW k \in S PROVE m + 1 <= k
    <3>1. CASE k \in 1 .. m
      <4>1. printed[k] # "e"
        BY <1>1, <1>7, <3>1, ReadsNumbers
      <4> QED BY <1>7, <2>1, <3>1, <4>1
    <3>2. CASE k \notin 1 .. m
      BY <1>7, <1>8, <2>1, <3>2
    <3> QED BY <3>1, <3>2
  <2>5. Min(S) = m + 1
    BY <2>2, <2>3, <2>4, MinIs
  <2> QED BY <2>1, <2>5 DEF Find
<1>10. ReadDigits(1, m) = v
  <2>1. \A k \in 1 .. Len(b) : printed[0 + k] = b[k]
    BY <1>1, <1>7
  <2>2. ReadDigits(0 + 1, 0 + Len(b)) = v
    BY <2>1, ReadDigitsIs
  <2> QED BY <1>1, <2>2
<1>11. ReadDigits(m + 3, m + 2 + n) = e
  <2>1. PICK i \in Nat : i = m + 2
    OBVIOUS
  <2>2. \A k \in 1 .. Len(t) : printed[i + k] = t[k]
    <3> SUFFICES ASSUME NEW k \in 1 .. n PROVE printed[i + k] = t[k]
      BY <1>1
    <3>1. PICK j \in 1 .. 2 + n : j = 2 + k /\ m + j = i + k
      BY <2>1
    <3> QED BY <1>6, <1>7, <3>1
  <2>3. ReadDigits(i + 1, i + Len(t)) = e
    BY <2>2, ReadDigitsIs
  <2>4. i + 1 = m + 3 /\ i + n = m + 2 + n
    BY <2>1
  <2> QED BY <1>1, <2>3, <2>4
<1>12. printed[(m + 1) + 1] = c
  <2>1. 2 \in 1 .. 2 + n /\ (m + 1) + 1 = m + 2
    OBVIOUS
  <2> QED BY <1>6, <1>7, <2>1
<1>13. (m + 1) + 2 = m + 3 /\ (m + 1) - 1 = m /\ ~ m + 1 > m + 2 + n
  OBVIOUS
<1>14. ReadExponent = e * (IF c = "-" THEN -1 ELSE 1)
  BY <1>7, <1>9, <1>11, <1>12, <1>13 DEF ReadExponent
<1>15. printed # <<"?">>
  <2> SUFFICES ASSUME printed = <<"?">> PROVE FALSE
    OBVIOUS
  <2>1. PICK q : q = "?"
    OBVIOUS
  <2>2. printed = <<q>>
    BY <2>1
  <2>3. Len(<<q>>) = 1
    OBVIOUS
  <2>4. Len(printed) = 1
    BY <2>2, <2>3, Zenon
  <2> QED BY <1>1, <1>7, <2>4
<1>16. Len(b) > 0 => printed[1] = b[1]
  BY <1>1, <1>7
<1> QED BY <1>9, <1>10, <1>13, <1>14, <1>15, <1>16

(* The digits before and behind the separator.                             *)
LEMMA DigitsOfText ==
  ASSUME NEW d, Counted(d), NEW w \in Int, NEW m \in Nat
  PROVE  \E k \in Nat : /\ k = (IF w + m >= 0 THEN w + m ELSE 0)
                        /\ \E v : First(d, k, v) /\ Reads(Digits(d, w, m), 0, v)
<1>1. PICK h \in Nat : h = Max({w, 0}) /\ h = IF w >= 0 THEN w ELSE 0
  BY MaxZero
<1>2. PICK z \in 0 .. m : /\ z = ZerosBehind(w, m) /\ (w >= 0 => z = 0)
                         /\ (w < 0 => z = IF -w <= m THEN -w ELSE m)
  <2>1. CASE w >= 0
    BY <2>1 DEF ZerosBehind
  <2>2. CASE w < 0
    <3>1. PICK y \in Nat : y = -w
      BY <2>2
    <3>2. PICK S : S = {y, m}
      OBVIOUS
    <3>3. PICK x \in 0 .. m : x = IF y <= m THEN y ELSE m
      OBVIOUS
    <3>4. x \in S /\ S \subseteq Int /\ \A a \in S : x <= a
      BY <3>2, <3>3
    <3>5. Min({-w, m}) = x
      BY <3>1, <3>2, <3>4, MinIs
    <3> QED BY <2>2, <3>1, <3>3, <3>5 DEF ZerosBehind
  <2> QED BY <2>1, <2>2
<1>3. PICK x : First(d, h, x) /\ Reads(DigitsFrom(d, 0, h), 0, x)
  <2>1. \E v : First(d, 0 + h, v) /\ Reads(DigitsFrom(d, 0, h), 0, v)
    BY FirstNone, DigitsAreRead
  <2>2. 0 + h = h
    OBVIOUS
  <2> QED BY <2>1, <2>2
<1>4. CASE m = 0
  <2>1. Digits(d, w, m) = DigitsFrom(d, 0, h) \o <<>>
    BY <1>1, <1>4 DEF Digits
  <2>2. x \in Nat
    BY <1>3, ReadsNumbers
  <2>3. Reads(DigitsFrom(d, 0, h) \o <<>>, 0, x)
    BY <1>3, <2>2, ReadsNothing, ReadsBoth
  <2>4. h = IF w + m >= 0 THEN w + m ELSE 0
    BY <1>1, <1>4
  <2> QED BY <1>3, <2>1, <2>3, <2>4
<1>5. CASE m # 0
  <2>1. PICK g \in Nat : g = m - z
    OBVIOUS
  <2>2. PICK v : First(d, h + g, v) /\ Reads(DigitsFrom(d, h, g), x, v)
    BY <1>3, DigitsAreRead
  <2>3. Digits(d, w, m) =
          DigitsFrom(d, 0, h) \o (<<".">> \o Repeat("0", z) \o DigitsFrom(d, h, g))
    BY <1>1, <1>2, <1>5, <2>1 DEF Digits
  <2>4. x \in Nat
    BY <1>3, ReadsNumbers
  <2>5. Reads(Repeat("0", z), x, x)
    <3>1. CASE w >= 0
      <4>1. Repeat("0", z) = <<>>
        BY <1>2, <3>1 DEF Repeat
      <4> QED BY <2>4, <4>1, ReadsNothing
    <3>2. CASE w < 0
      <4>1. h = 0
        BY <1>1, <3>2
      <4>2. x = 0
        BY <1>3, <4>1, FirstNone, FirstOnce
      <4> QED BY <4>2, ReadsZeros
    <3> QED BY <3>1, <3>2
  <2>6. Reads(<<".">>, x, x)
    BY <2>4, ReadsSkipped DEF Skipped
  <2>7. Reads(<<".">> \o Repeat("0", z), x, x)
    BY <2>5, <2>6, ReadsBoth
  <2>8. Reads(<<".">> \o Repeat("0", z) \o DigitsFrom(d, h, g), x, v)
    BY <2>2, <2>7, ReadsBoth
  <2>9. Reads(Digits(d, w, m), 0, v)
    BY <1>3, <2>3, <2>8, ReadsBoth
  <2>10. h + g = IF w + m >= 0 THEN w + m ELSE 0
    BY <1>1, <1>2, <2>1
  <2> QED BY <2>2, <2>9, <2>10
<1> QED BY <1>4, <1>5

(* A number is its first digits and a rest that stands behind them.        *)
LEMMA RestIs ==
  ASSUME NEW d, Counted(d), NEW e \in Int, NEW c \in Int, NEW k \in Nat, NEW v, First(d, k, v),
         k = (IF c >= 0 THEN c ELSE 0), NEW last \in Int, last = e + d.n - c,
         NEW unit, unit = Min({last, e})
  PROVE  Tens(Value(d.m), e - unit) - Tens(v, last - unit) \in 0 .. Ten(last - unit) - 1
<1>1. PICK n \in Nat, x \in Nat : n = d.n /\ x = Value(d.m) /\ x < Ten(n)
  BY CountedIs DEF IsDigits
<1>2. v \in Nat
  BY FirstOnce
<1>3. PICK S : S = {last, e}
  OBVIOUS
<1>4. CASE c <= n
  <2>1. PICK g \in Nat : g = n - c /\ last = e + g
    BY <1>1, <1>4
  <2>2. e \in S /\ S \subseteq Int /\ \A y \in S : e <= y
    BY <1>3, <2>1
  <2>3. unit = e
    BY <1>3, <2>2, MinIs
  <2>4. e - unit = 0 /\ last - unit = g
    BY <2>1, <2>3
  <2>5. PICK t \in Nat : t = Ten(g)
    BY TenIs
  <2>6. x - Tens(v, g) \in 0 .. t - 1
    <3>1. CASE c >= 0
      <4>1. Above(x, g, v)
        BY <1>1, <1>4, <2>1, <3>1 DEF First
      <4>2. PICK w \in Nat : w < t /\ x = Tens(v, g) + w
        BY <2>5, <4>1 DEF Above
      <4>3. PICK y \in Nat : y = Tens(v, g)
        BY <1>2, TensNat
      <4> QED BY <4>2, <4>3
    <3>2. CASE ~ c >= 0
      <4>1. v = 0
        BY <3>2, FirstNone, FirstOnce
      <4>2. Tens(v, g) = 0
        BY <4>1, TensZero
      <4>3. Ten(n) <= Ten(g)
        BY <2>1, <3>2, TenGrows
      <4>4. Ten(n) \in Nat
        BY TenIs
      <4> QED BY <1>1, <2>5, <4>2, <4>3, <4>4
    <3> QED BY <3>1, <3>2
  <2>7. Tens(x, 0) = x
    BY TensFew
  <2> QED BY <1>1, <2>4, <2>5, <2>6, <2>7
<1>5. CASE ~ c <= n
  <2>1. PICK g \in Nat : g = c - n /\ e = last + g /\ g = k - n /\ k > n
    BY <1>1, <1>5
  <2>2. last \in S /\ S \subseteq Int /\ \A y \in S : last <= y
    BY <1>3, <2>1
  <2>3. unit = last
    BY <1>3, <2>2, MinIs
  <2>4. e - unit = g /\ last - unit = 0
    BY <2>1, <2>3
  <2>5. v = Tens(x, g)
    BY <1>1, <2>1 DEF First
  <2>6. Tens(v, 0) = v /\ Ten(0) = 1
    BY <1>2, TensFew, TenFew
  <2> QED BY <1>1, <1>2, <2>4, <2>5, <2>6
<1> QED BY <1>4, <1>5

----------------------------------------------------------------------------
(* What is printed of a number.                                            *)
Shown(last, v) ==
  /\ ReadExponent - asked_for.m = last /\ ReadDigits(1, Find("e") - 1) = v
  /\ Tens(Value(number.m), number.e - Min({last, number.e})) - Tens(v, last - Min({last, number.e}))
       \in 0 .. Ten(last - Min({last, number.e})) - 1
  /\ v \in Nat /\ last \in Int
  /\ v > 0 => (printed[1] = "-" <=> number.sign = -1)
  /\ printed # <<"?">>

Asked(n, m, exp) ==
  /\ n = asked_for.n /\ m = asked_for.m /\ exp = asked_for.exp
  /\ n \in Int /\ -256 < n /\ n < 256 /\ m \in Nat /\ exp \in BOOLEAN

LEMMA FirstOfJoined ==
  ASSUME NEW s \in Seq(Characters), NEW t \in Seq(Characters), Len(s) > 0
  PROVE  /\ s \o t \in Seq(Characters) /\ Len(s \o t) > 0 /\ (s \o t)[1] = s[1]
<1>1. Joined(s \o t, s, t) /\ s \o t \in Seq(Characters)
  BY JoinedIs, Zenon
<1>2. Len(s) \in Nat /\ Len(t) \in Nat
  OBVIOUS
<1>3. 1 \in 1 .. Len(s)
  BY <1>2
<1> QED BY <1>1, <1>2, <1>3 DEF Joined

LEMMA LeastOfTwo ==
  ASSUME NEW x \in Int, NEW y \in Int
  PROVE  Min({x, y}) \in Int /\ x - Min({x, y}) \in Nat /\ y - Min({x, y}) \in Nat
<1>1. PICK S : S = {x, y}
  OBVIOUS
<1>2. PICK z \in S : z = IF x <= y THEN x ELSE y
  BY <1>1
<1>3. S \subseteq Int /\ \A w \in S : z <= w
  BY <1>1, <1>2
<1>4. Min(S) = z
  BY <1>3, MinIs
<1> QED BY <1>1, <1>2, <1>4

LEMMA ZeroReads ==
  Reads(<<"0">>, 0, 0) /\ Reads(<<>>, 0, 0)
<1>1. ReadsOne("0", 0, 0)
  <2>1. 0 \in 0 .. 9 /\ "0" = Figure(0) /\ 0 = 10 * 0 + 0
    BY DEF Figure, Figures
  <2> QED BY <2>1 DEF ReadsOne
<1>2. Reads(<<"0">>, 0, 0)
  BY <1>1, CharactersAre, ReadsCharacter
<1> QED BY <1>2, ReadsNothing

LEMMA ZeroShown ==
  ASSUME NEW n, NEW m, NEW exp, Asked(n, m, exp), number.n = 0, number.m \in Mantissas,
         number.n = decimal_num_digits(number.m), number.e \in Int, printed = ZeroText(n, m, exp)
  PROVE  Shown(-m, 0)
<1>1. n \in Int /\ m \in Nat /\ exp \in BOOLEAN /\ m = asked_for.m
  BY DEF Asked
<1>2. Value(number.m) = 0
  <2>1. IsDigits(0, Value(number.m))
    BY NumDigits
  <2>2. Value(number.m) \in Nat /\ Value(number.m) < 1
    BY <2>1, ValueBelow, TenFew DEF IsDigits
  <2> QED BY <2>2
<1>3. PICK a : a = IF n > 0 THEN <<"0">> ELSE <<>>
  OBVIOUS
<1>4. PICK b : b = IF m > 0 THEN <<".">> \o Repeat("0", m) ELSE <<>>
  OBVIOUS
<1>5. Reads(a, 0, 0)
  BY <1>3, ZeroReads
<1>6. Reads(b, 0, 0)
  <2>1. Reads(<<".">>, 0, 0)
    <3>1. PICK u \in Nat : u = 0
      OBVIOUS
    <3> QED BY <3>1, ReadsSkipped DEF Skipped
  <2>2. Reads(<<".">> \o Repeat("0", m), 0, 0)
    BY <1>1, <2>1, ReadsZeros, ReadsBoth
  <2> QED BY <1>4, <2>2, ZeroReads
<1>7. Reads(a \o b, 0, 0)
  BY <1>5, <1>6, ReadsBoth
<1>8. ReadExponent = 0 /\ ReadDigits(1, Find("e") - 1) = 0 /\ printed # <<"?">>
  <2>1. CASE exp
    <3>1. printed = (a \o b) \o <<"e", "+", "0">>
      BY <1>3, <1>4, <2>1 DEF ZeroText
    <3>2. <<"e", "+", "0">> = <<"e", "+">> \o <<"0">>
      OBVIOUS
    <3>3. PICK c \in {"+", "-"} : c = "+"
      OBVIOUS
    <3>4. printed = (a \o b) \o (<<"e", c>> \o <<"0">>)
      BY <3>1, <3>2, <3>3
    <3>5. /\ ReadExponent = 0 * (IF c = "-" THEN -1 ELSE 1)
          /\ ReadDigits(1, Find("e") - 1) = 0 /\ printed # <<"?">>
      BY <1>7, <3>4, ZeroReads, ExponentRead
    <3> QED BY <3>3, <3>5
  <2>2. CASE ~ exp
    <3>1. printed = (a \o b) \o <<>>
      BY <1>3, <1>4, <2>2 DEF ZeroText
    <3>2. Reads(printed, 0, 0)
      BY <1>7, <3>1, ZeroReads, ReadsBoth
    <3> QED BY <3>2, NoExponentRead
  <2> QED BY <2>1, <2>2
<1>9. PICK u \in Int, g \in Nat, h \in Nat :
        u = Min({-m, number.e}) /\ g = number.e - u /\ h = -m - u
  <2>1. PICK k \in Int, f \in Int : k = -m /\ f = number.e
    BY <1>1
  <2>2. Min({k, f}) \in Int /\ k - Min({k, f}) \in Nat /\ f - Min({k, f}) \in Nat
    BY LeastOfTwo
  <2>3. PICK u \in Int : u = Min({k, f})
    BY <2>2
  <2> QED BY <2>1, <2>2, <2>3
<1>10. Tens(0, g) - Tens(0, h) \in 0 .. Ten(h) - 1
  BY TensZero, TenIs
<1>11. ReadExponent - asked_for.m = -m
  BY <1>1, <1>8
<1> QED BY <1>1, <1>2, <1>8, <1>9, <1>10, <1>11 DEF Shown

LEMMA DigitsShown ==
  ASSUME Counted(number), number.e \in Int, NEW c \in Int, NEW k \in Nat, NEW v,
         First(number, k, v), k = (IF c >= 0 THEN c ELSE 0),
         NEW last \in Int, last = number.e + number.n - c,
         ReadExponent - asked_for.m = last, ReadDigits(1, Find("e") - 1) = v,
         printed # <<"?">>, printed[1] = "-" <=> number.sign = -1
  PROVE  Shown(last, v)
<1>1. PICK unit : unit = Min({last, number.e})
  OBVIOUS
<1>2. Tens(Value(number.m), number.e - unit) - Tens(v, last - unit) \in 0 .. Ten(last - unit) - 1
  BY <1>1, RestIs
<1>3. v \in Nat
  BY FirstOnce
<1> QED BY <1>1, <1>2, <1>3 DEF Shown

(* The sign in front.                                                      *)
LEMMA SignReads ==
  ASSUME NEW s, s = IF number.sign = -1 THEN <<"-">> ELSE <<" ">>
  PROVE  /\ Reads(s, 0, 0) /\ s \in Seq(Characters) /\ Len(s) = 1
         /\ s[1] = "-" <=> number.sign = -1
<1>1. PICK u \in Nat : u = 0
  OBVIOUS
<1>2. Reads(s, 0, 0)
  BY <1>1, ReadsSkipped DEF Skipped
<1>3. s \in Seq(Characters)
  BY <1>2, ReadsNumbers
<1>4. PICK c : c = IF number.sign = -1 THEN "-" ELSE " "
  OBVIOUS
<1>5. s = <<c>>
  BY <1>4
<1>6. Len(s) = 1 /\ s[1] = c
  <2>1. Len(<<c>>) = 1 /\ <<c>>[1] = c
    OBVIOUS
  <2> QED BY <1>5, <2>1, Zenon
<1> QED BY <1>2, <1>3, <1>4, <1>6

LEMMA WithExponentShown ==
  ASSUME NEW n, NEW m, Asked(n, m, TRUE), Counted(number),
         number.e \in Int, -256 < number.e, number.e < 256, Positions < 2 ^ 15,
         printed = DecimalText(n, m, TRUE, number)
  PROVE  \E last, v : Shown(last, v)
<1>1. PICK z : z = IF number.sign = -1 THEN <<"-">> ELSE <<" ">>
  OBVIOUS
<1>2. Reads(z, 0, 0) /\ z \in Seq(Characters) /\ Len(z) = 1 /\ (z[1] = "-" <=> number.sign = -1)
  BY <1>1, SignReads
<1>3. PICK i \in Int, j \in Nat : i = n /\ j = m /\ j = asked_for.m /\ -256 < i /\ i < 256
  BY DEF Asked
<1>4. PICK k \in Nat : /\ k = (IF i + j >= 0 THEN i + j ELSE 0)
                       /\ \E v : First(number, k, v) /\ Reads(Digits(number, i, j), 0, v)
  BY DigitsOfText
<1> PICK v : First(number, k, v) /\ Reads(Digits(number, i, j), 0, v)
  BY <1>4
<1>5. PICK y : y = Digits(number, i, j)
  OBVIOUS
<1>6. PICK b : b = z \o y
  OBVIOUS
<1>7. Reads(b, 0, v)
  BY <1>2, <1>4, <1>5, <1>6, ReadsBoth
<1>8. Len(b) > 0 /\ b[1] = z[1]
  <2>1. y \in Seq(Characters)
    BY <1>5, ReadsNumbers
  <2>2. Len(z) > 0
    BY <1>2
  <2>3. Len(z \o y) > 0 /\ (z \o y)[1] = z[1]
    BY <1>2, <2>1, <2>2, FirstOfJoined
  <2> QED BY <1>6, <2>3
<1>9. PICK e \in Int, g \in Nat : e = number.e /\ g = number.n /\ g < 32768 /\ -256 < e /\ e < 256
  <2>1. number.n \in 1 .. Positions /\ Positions \in Nat /\ 2 ^ 15 = 32768
    BY CountedIs, PositionsIs
  <2> QED BY <2>1
<1>10. PICK q \in Int : q = e + g - i /\ q = Reach(number) - n /\ -100000 < q /\ q < 100000
  <2>1. e + g - i \in Int /\ -100000 < e + g - i /\ e + g - i < 100000
    BY <1>3, <1>9
  <2> QED BY <1>3, <1>9, <2>1 DEF Reach
<1>11. PICK w \in Nat : w = Magnitude(q) /\ w < 100000 /\ w = (IF q < 0 THEN -q ELSE q)
  <2>1. Magnitude(q) = IF q < 0 THEN -q ELSE q
    BY DEF Magnitude
  <2> QED BY <1>10, <2>1
<1>12. PICK c \in {"+", "-"} : c = IF q >= 0 THEN "+" ELSE "-"
  OBVIOUS
<1>13. PICK t : t = strop_fmt_uint64(w)
  OBVIOUS
<1>14. Reads(t, 0, w)
  BY <1>11, <1>13, IntegerIsRead
<1>15. printed = b \o (<<"e", c>> \o t)
  <2>1. number.n # 0
    BY CountedIs, PositionsIs
  <2>2. DecimalText(n, m, TRUE, number)
        = (IF number.sign = -1 THEN <<"-">> ELSE <<" ">>) \o Digits(number, n, m)
          \o Exponent(Reach(number) - n)
    BY <2>1 DEF DecimalText
  <2>3. DecimalText(n, m, TRUE, number) = z \o Digits(number, i, j) \o Exponent(q)
    <3>1. n = i /\ m = j /\ Reach(number) - n = q
      BY <1>3, <1>10
    <3> QED BY <1>1, <2>2, <3>1, Zenon
  <2>4. Exponent(q) = <<"e", IF q >= 0 THEN "+" ELSE "-">> \o strop_fmt_uint64(Magnitude(q))
    BY DEF Exponent
  <2>5. Exponent(q) = <<"e", c>> \o t
    <3>1. Magnitude(q) = w
      BY <1>11
    <3> QED BY <1>12, <1>13, <2>4, <3>1, Zenon
  <2> QED BY <1>5, <1>6, <2>3, <2>5
<1>16. /\ ReadExponent = w * (IF c = "-" THEN -1 ELSE 1)
       /\ ReadDigits(1, Find("e") - 1) = v /\ printed # <<"?">>
       /\ Len(b) > 0 => printed[1] = b[1]
  BY <1>7, <1>14, <1>15, ExponentRead
<1>17. ReadExponent = q
  <2>1. CASE q < 0
    BY <1>11, <1>12, <1>16, <2>1
  <2>2. CASE ~ q < 0
    BY <1>11, <1>12, <1>16, <2>2
  <2> QED BY <2>1, <2>2
<1>18. PICK last \in Int, x \in Int : x = i + j /\ last = q - j /\ last = e + g - x
  BY <1>10
<1>19. ReadExponent - asked_for.m = last /\ last = number.e + number.n - x
  BY <1>3, <1>9, <1>17, <1>18
<1>20. printed[1] = "-" <=> number.sign = -1
  BY <1>2, <1>8, <1>16
<1>21. First(number, k, v) /\ k = (IF x >= 0 THEN x ELSE 0)
  BY <1>4, <1>18
<1> QED BY <1>16, <1>19, <1>20, <1>21, DigitsShown, ZenonT(60)

LEMMA WithoutExponentShown ==
  ASSUME NEW n, NEW m, Asked(n, m, FALSE), Counted(number), number.e \in Int,
         n >= Reach(number), printed = DecimalText(n, m, FALSE, number)
  PROVE  \E last, v : Shown(last, v)
<1>1. PICK z : z = IF number.sign = -1 THEN <<"-">> ELSE <<" ">>
  OBVIOUS
<1>2. Reads(z, 0, 0) /\ z \in Seq(Characters) /\ Len(z) = 1 /\ (z[1] = "-" <=> number.sign = -1)
  BY <1>1, SignReads
<1>3. PICK j \in Nat : j = m /\ j = asked_for.m
  BY DEF Asked
<1>4. PICK e \in Int, g \in Nat : e = number.e /\ g = number.n /\ g > 0
  <2>1. number.n \in 1 .. Positions /\ Positions \in Nat
    BY CountedIs, PositionsIs
  <2> QED BY <2>1
<1>5. PICK i \in Int : i = e + g /\ i = Reach(number)
  BY <1>4 DEF Reach
<1>6. PICK l : l = IF n > 0 /\ Reach(number) <= 0 THEN <<"0">> ELSE <<>>
  OBVIOUS
<1>7. Reads(l, 0, 0)
  BY <1>6, ZeroReads
<1>8. PICK k \in Nat : /\ k = (IF i + j >= 0 THEN i + j ELSE 0)
                       /\ \E v : First(number, k, v) /\ Reads(Digits(number, i, j), 0, v)
  BY DigitsOfText
<1> PICK v : First(number, k, v) /\ Reads(Digits(number, i, j), 0, v)
  BY <1>8
<1>9. PICK y : y = Digits(number, i, j)
  OBVIOUS
<1>10. PICK a : a = z \o l
  OBVIOUS
<1>11. Reads(a, 0, 0)
  BY <1>2, <1>7, <1>10, ReadsBoth
<1>12. a \in Seq(Characters) /\ Len(a) > 0 /\ a[1] = z[1]
  <2>1. l \in Seq(Characters)
    BY <1>7, ReadsNumbers
  <2> QED BY <1>2, <1>10, <2>1, FirstOfJoined
<1>13. printed = a \o y
  <2>1. number.n # 0
    BY CountedIs, PositionsIs
  <2>2. DecimalText(n, m, FALSE, number)
        = (IF number.sign = -1 THEN <<"-">> ELSE <<" ">>)
          \o (IF n > 0 /\ Reach(number) <= 0 THEN <<"0">> ELSE <<>>)
          \o Digits(number, Reach(number), m)
    BY <2>1 DEF DecimalText
  <2>3. DecimalText(n, m, FALSE, number) = z \o l \o Digits(number, i, j)
    BY <1>1, <1>3, <1>5, <1>6, <2>2
  <2> QED BY <1>9, <1>10, <2>3
<1>14. Reads(a \o y, 0, v)
  BY <1>8, <1>9, <1>11, ReadsBoth
<1>15. Reads(printed, 0, v)
  BY <1>13, <1>14
<1>16. ReadExponent = 0 /\ ReadDigits(1, Find("e") - 1) = v /\ printed # <<"?">>
  BY <1>15, NoExponentRead
<1>17. printed[1] = "-" <=> number.sign = -1
  <2>1. y \in Seq(Characters)
    BY <1>9, ReadsNumbers
  <2>2. (a \o y)[1] = a[1]
    BY <1>12, <2>1, FirstOfJoined
  <2> QED BY <1>2, <1>12, <1>13, <2>2
<1>18. PICK last \in Int, x \in Int : x = i + j /\ last = -j /\ last = e + g - x
  BY <1>5
<1>19. ReadExponent - asked_for.m = last /\ last = number.e + number.n - x
  BY <1>3, <1>4, <1>16, <1>18
<1>20. First(number, k, v) /\ k = (IF x >= 0 THEN x ELSE 0)
  BY <1>8, <1>18
<1> QED BY <1>16, <1>17, <1>19, <1>20, DigitsShown

LEMMA ShownIsPrinted ==
  ASSUME NEW last, NEW v, Shown(last, v), number.e \in Int
  PROVE  NumberAsPrinted
<1>1. PICK unit : unit = Min({last, number.e})
  OBVIOUS
<1>2. PICK x : x = Tens(v, last - unit)
  OBVIOUS
<1>3. /\ ReadExponent - asked_for.m = last /\ ReadDigits(1, Find("e") - 1) = v
      /\ printed # <<"?">>
  BY DEF Shown
<1>4. Tens(Whole(number), number.e - unit) - x \in 0 .. Ten(last - unit) - 1
  BY <1>1, <1>2, WholeIsValue DEF Shown
<1>5. last - unit \in Nat
  <2>1. PICK k \in Int, f \in Int : k = last /\ f = number.e
    BY DEF Shown
  <2>2. k - Min({k, f}) \in Nat
    BY LeastOfTwo
  <2> QED BY <1>1, <2>1, <2>2
<1>6. x > 0 => (printed[1] = "-" <=> number.sign = -1)
  <2>1. CASE v = 0
    <3>1. x = 0
      BY <1>2, <1>5, <2>1, TensZero
    <3> QED BY <3>1
  <2>2. CASE v # 0
    BY <2>2 DEF Shown
  <2> QED BY <2>1, <2>2
<1> QED BY <1>1, <1>2, <1>3, <1>4, <1>6 DEF NumberAsPrinted

LEMMA TextShown ==
  ASSUME NEW n, NEW m, NEW exp, Asked(n, m, exp), number.m \in Mantissas, Normal(number),
         printed = DecimalText(n, m, exp, number)
  PROVE  NumberAsPrinted
<1>1. /\ number.n = decimal_num_digits(number.m) /\ number.n \in Nat /\ Positions < 2 ^ 15
      /\ number.e \in Int /\ -256 < number.e /\ number.e < 256
  <2>1. /\ number.n = decimal_num_digits(number.m) /\ number.e \in MinExponent .. MaxExponent
    BY DEF Normal
  <2>2. number.n \in Nat
    BY <2>1, NumDigits
  <2>3. -128 <= MinExponent /\ MaxExponent <= 127 /\ Positions < 2 ^ 15
    BY StropDecimalAssumption
  <2>4. MinExponent \in Int /\ MaxExponent \in Int
    BY DecimalAssumption
  <2> QED BY <2>1, <2>2, <2>3, <2>4
<1>2. n = asked_for.n /\ exp = asked_for.exp /\ exp \in BOOLEAN
  BY DEF Asked
<1>3. CASE number.n = 0
  <2>1. printed = ZeroText(n, m, exp)
    BY <1>3 DEF DecimalText
  <2>2. Shown(-m, 0)
    BY <1>1, <1>3, <2>1, ZeroShown
  <2> QED BY <1>1, <2>2, ShownIsPrinted
<1>4. CASE number.n # 0
  <2>1. Counted(number)
    BY <1>1, <1>4 DEF Counted
  <2>2. CASE exp
    <3>1. Asked(n, m, TRUE) /\ printed = DecimalText(n, m, TRUE, number)
      BY <1>2, <2>2
    <3> QED BY <1>1, <2>1, <3>1, WithExponentShown, ShownIsPrinted
  <2>3. CASE ~ exp /\ n >= Reach(number)
    <3>1. Asked(n, m, FALSE) /\ printed = DecimalText(n, m, FALSE, number)
      BY <1>2, <2>3
    <3> QED BY <1>1, <2>1, <2>3, <3>1, WithoutExponentShown, ShownIsPrinted
  <2>4. CASE ~ exp /\ ~ n >= Reach(number)
    <3>1. printed = <<"?">>
      BY <1>4, <2>4 DEF DecimalText
    <3>2. asked_for.n < Reach(number)
      <4>1. n \in Int /\ Reach(number) \in Int
        BY <1>1 DEF Asked, Reach
      <4> QED BY <1>2, <2>4, <4>1
    <3> QED BY <1>2, <2>4, <3>1, <3>2 DEF NumberAsPrinted
  <2> QED BY <2>2, <2>3, <2>4
<1> QED BY <1>3, <1>4

(* What stands in the buffer is the text asked for.                        *)
Prints ==
  print_ret = 0 =>
    /\ number.m \in Mantissas
    /\ Asked(asked_for.n, asked_for.m, asked_for.exp)
    /\ printed = DecimalText(asked_for.n, asked_for.m, asked_for.exp, number)

LEMMA FormatCounts ==
  ASSUME NEW f \in Formats
  PROVE  Precision(f) \in 0 .. 255 /\ Scale(f) \in 0 .. 255
<1>1. PICK n \in Nat : n = Len(f) /\ DOMAIN f = 1 .. n /\ n < 256
  BY StropDecimalAssumption
<1>2. IsFiniteSet(1 .. n) /\ Cardinality(1 .. n) = n
  BY FS_Interval
<1>3. ASSUME NEW S, S \subseteq 1 .. n PROVE Cardinality(S) \in 0 .. 255
  <2>1. IsFiniteSet(S) /\ Cardinality(S) <= n
    <3>1. S \in SUBSET (1 .. n)
      BY <1>3
    <3>2. IsFiniteSet(S) /\ Cardinality(S) <= Cardinality(1 .. n)
      BY <1>2, <3>1, FS_Subset, Zenon
    <3> QED BY <1>2, <3>2, Zenon
  <2>2. Cardinality(S) \in Nat
    BY <2>1, FS_CardinalityType
  <2>3. PICK c \in Nat : c = Cardinality(S)
    BY <2>2
  <2>4. c <= n /\ n < 256
    BY <1>1, <2>1, <2>3
  <2>5. c \in 0 .. 255
    BY <2>4
  <2> QED BY <2>3, <2>5
<1>4. {k \in DOMAIN f : f[k] = "d"} \subseteq 1 .. n
  BY <1>1
<1>5. {k \in DOMAIN f : f[k] = "d" /\ \E j \in 1 .. k : f[j] = "s"} \subseteq 1 .. n
  BY <1>1
<1> QED BY <1>3, <1>4, <1>5 DEF Precision, Scale

LEMMA PrintKeeps ==
  ASSUME NEW precision \in 0 .. 255, NEW scale \in 0 .. 255, NEW exp \in BOOLEAN,
         NEW d \in Numbers, strop_fmt_decimal_pse(precision, scale, exp, d)
  PROVE  Prints'
<1> SUFFICES ASSUME print_ret' = 0
             PROVE  /\ number.m' \in Mantissas
                    /\ Asked(asked_for.n, asked_for.m, asked_for.exp)'
                    /\ printed' = DecimalText(asked_for.n, asked_for.m, asked_for.exp, number)'
  BY DEF Prints
<1>1. PICK n \in Int, m \in Nat : n = precision - scale /\ m = scale /\ -256 < n /\ n < 256
  OBVIOUS
<1>2. /\ number' = d /\ asked_for' = [n |-> n, m |-> m, exp |-> exp]
      /\ printed' = DecimalText(n, m, exp, d)
  BY <1>1 DEF strop_fmt_decimal_pse
<1>3. asked_for.n' = n /\ asked_for.m' = m /\ asked_for.exp' = exp
  BY <1>2
<1>4. d.m \in Mantissas
  BY StropDecimalAssumption DEF Mantissas
<1>5. Asked(asked_for.n, asked_for.m, asked_for.exp)'
  BY <1>1, <1>3 DEF Asked
<1>6. DecimalText(asked_for.n, asked_for.m, asked_for.exp, number)' = DecimalText(n, m, exp, d)
  BY <1>2, <1>3
<1> QED BY <1>2, <1>4, <1>5, <1>6

(* The text of a number is the number, cut off behind the digits asked     *)
(* for, whatever the sizes of limb and mantissa and however many digits    *)
(* the format has (strop.c:426-600).                                       *)
THEOREM NumbersArePrinted == StropDecimalSpec => []NumberAsPrinted
<1>1. StropDecimalInit => Prints
  BY DEF StropDecimalInit, Prints
<1>2. Prints /\ [StropDecimalNext]_stropDecimalVars => Prints'
  <2> SUFFICES ASSUME Prints, [StropDecimalNext]_stropDecimalVars PROVE Prints'
    OBVIOUS
  <2>1. CASE UNCHANGED stropDecimalVars
    BY <2>1, ZenonT(60) DEF stropDecimalVars, Prints, Asked, DecimalText
  <2>2. ASSUME NEW d \in Numbers, NEW f \in Formats, strop_fmt_decimal(f, d) PROVE Prints'
    <3>1. CASE strop_fmt_decimal_pse(Precision(f), Scale(f), f # <<>> /\ f[Len(f)] = "e", d)
      <4>1. PICK exp \in BOOLEAN : exp = (f # <<>> /\ f[Len(f)] = "e")
        OBVIOUS
      <4>2. strop_fmt_decimal_pse(Precision(f), Scale(f), exp, d)
        BY <3>1, <4>1
      <4> QED BY <4>2, FormatCounts, PrintKeeps, ZenonT(60)
    <3>2. CASE print_ret' = 1
      BY <3>2 DEF Prints
    <3> QED BY <2>2, <3>1, <3>2 DEF strop_fmt_decimal
  <2>3. ASSUME NEW d \in Numbers, NEW c \in Columns,
               IF c.precision > 0 THEN strop_fmt_decimal_pse(c.precision, c.scale, FALSE, d)
               ELSE strop_fmt_decimal_pse(1, 6, TRUE, d)
        PROVE  Prints'
    <3>1. c.precision \in 0 .. 255 /\ c.scale \in 0 .. 255
      BY StropDecimalAssumption
    <3>2. 1 \in 0 .. 255 /\ 6 \in 0 .. 255
      BY SMTT(60)
    <3>3. CASE c.precision > 0
      BY <2>3, <3>1, <3>3, PrintKeeps, ZenonT(60)
    <3>4. CASE ~ c.precision > 0
      BY <2>3, <3>2, <3>4, PrintKeeps, ZenonT(60)
    <3> QED BY <3>3, <3>4
  <2> QED BY <2>1, <2>2, <2>3 DEF StropDecimalNext
<1>3. Prints => NumberAsPrinted
  <2> SUFFICES ASSUME Prints, print_ret = 0, Normal(number) PROVE NumberAsPrinted
    BY DEF NumberAsPrinted
  <2> QED BY TextShown DEF Prints
<1> QED BY <1>1, <1>2, <1>3, PTL DEF StropDecimalSpec
=============================================================================
