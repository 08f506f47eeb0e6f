--------------------------- MODULE SequenceLemmas ---------------------------
(***************************************************************************)
(* What the proofs of several modules need: a set of numbers has a least   *)
(* element, FlattenSeq, which is defined by recursion, joins its parts one *)
(* after the other, and the linear recurrences that numbers are measured   *)
(* with step from value to value.  That a recursion has a function at all, *)
(* and that there is only one, is shown by the least length for which it   *)
(* would not be so.                                                        *)
(***************************************************************************)
EXTENDS Integers, Numerals, SequencesExt, SequenceTheorems, WellFoundedInduction, TLAPS

(* A set of numbers that is not empty has a least one.                     *)
LEMMA LeastOne ==
  ASSUME NEW S \in SUBSET Nat, S # {}
  PROVE  \E x \in S : \A y \in S : x <= y
<1> DEFINE R == OpToRel(<, Nat)
<1>1. IsWellFoundedOn(R, Nat)
  BY NatLessThanWellFounded
<1>2. \A a, b \in Nat : <<a, b>> \in R <=> a < b
  BY DEF OpToRel
<1> HIDE DEF R
<1>3. \E x \in S : \A y \in S : ~ (<<y, x>> \in R)
  BY <1>1, WFMin
<1>4. PICK x \in S : \A y \in S : ~ (<<y, x>> \in R)
  BY <1>3
<1>5. \A y \in S : x <= y
  <2> TAKE y \in S
  <2>1. x \in Nat /\ y \in Nat
    OBVIOUS
  <2>2. ~ (y < x)
    BY <1>2, <1>4, <2>1
  <2> QED BY <2>1, <2>2
<1> QED BY <1>5

(* The parts of s joined, up to each place.                                *)
Joins(f, s, n) == f = [i \in 1 .. n |-> IF i = 1 THEN s[i] ELSE f[i - 1] \o s[i]]

(* There are such joins.                                                   *)
LEMMA JoinsExist ==
  ASSUME NEW s, NEW n \in Nat, n >= 1
  PROVE  \E f : Joins(f, s, n)
<1> DEFINE S == {k \in 1 .. n : ~ \E f : Joins(f, s, k)}
<1> SUFFICES ASSUME n \in S PROVE FALSE
  OBVIOUS
<1>1. S \in SUBSET Nat /\ S # {}
  OBVIOUS
<1> HIDE DEF S
<1>2. PICK m \in S : \A k \in S : m <= k
  BY <1>1, LeastOne
<1>3. m \in 1 .. n /\ ~ \E f : Joins(f, s, m)
  BY <1>2 DEF S
<1>4. CASE m = 1
  <2> DEFINE g == [i \in 1 .. 1 |-> s[i]]
  <2>1. g = [i \in 1 .. 1 |-> IF i = 1 THEN s[i] ELSE g[i - 1] \o s[i]]
    OBVIOUS
  <2> HIDE DEF g
  <2>2. Joins(g, s, 1)
    BY <2>1 DEF Joins
  <2> QED BY <1>3, <1>4, <2>2
<1>5. CASE m # 1
  <2>1. m - 1 \in 1 .. n /\ m - 1 \notin S
    BY <1>2, <1>3, <1>5, <1>1
  <2>2. PICK f : Joins(f, s, m - 1)
    BY <2>1 DEF S
  <2>3. f = [i \in 1 .. m - 1 |-> IF i = 1 THEN s[i] ELSE f[i - 1] \o s[i]]
    BY <2>2 DEF Joins
  <2> DEFINE g == [i \in 1 .. m |-> IF i = m THEN f[m - 1] \o s[m] ELSE f[i]]
  <2>4. \A i \in 1 .. m : g[i] = IF i = 1 THEN s[i] ELSE g[i - 1] \o s[i]
    <3> TAKE i \in 1 .. m
    <3>1. CASE i = m
      <4>1. m - 1 \in 1 .. m /\ m - 1 # m /\ m \in 1 .. m
        BY <1>3, <1>5
      <4>2. g[m] = f[m - 1] \o s[m] /\ g[m - 1] = f[m - 1]
        BY <4>1
      <4> QED BY <1>5, <3>1, <4>2
    <3>2. CASE i # m
      <4>1. i \in 1 .. m - 1 /\ g[i] = f[i]
        BY <1>3, <3>2
      <4>2. f[i] = IF i = 1 THEN s[i] ELSE f[i - 1] \o s[i]
        BY <2>3, <4>1
      <4>3. i # 1 => i - 1 \in 1 .. m /\ g[i - 1] = f[i - 1]
        BY <1>3, <4>1
      <4> QED BY <4>1, <4>2, <4>3
    <3> QED BY <3>1, <3>2
  <2>5. g = [i \in 1 .. m |-> IF i = 1 THEN s[i] ELSE g[i - 1] \o s[i]]
    BY <2>4
  <2> HIDE DEF g
  <2>6. Joins(g, s, m)
    BY <2>5 DEF Joins
  <2> QED BY <1>3, <2>6
<1> QED BY <1>4, <1>5

(* The flattening of s is the last join.                                   *)
LEMMA FlattenIsJoin ==
  ASSUME NEW s, NEW n \in Nat, n >= 1, Len(s) = n
  PROVE  \E f : Joins(f, s, n) /\ FlattenSeq(s) = f[n]
<1> DEFINE g == CHOOSE f : f = [i \in 1 .. n |-> IF i = 1 THEN s[i] ELSE f[i - 1] \o s[i]]
<1>1. \E f : f = [i \in 1 .. n |-> IF i = 1 THEN s[i] ELSE f[i - 1] \o s[i]]
  BY JoinsExist, ZenonT(60) DEF Joins
<1>2. g = [i \in 1 .. n |-> IF i = 1 THEN s[i] ELSE g[i - 1] \o s[i]]
  BY <1>1, ZenonT(60)
<1>3. FlattenSeq(s) = g[n]
  BY DEF FlattenSeq
<1> HIDE DEF g
<1> QED BY <1>2, <1>3 DEF Joins

LEMMA JoinValue ==
  ASSUME NEW f, NEW s, NEW n \in Nat, Joins(f, s, n), NEW i \in 1 .. n
  PROVE  f[i] = IF i = 1 THEN s[i] ELSE f[i - 1] \o s[i]
<1>1. f = [j \in 1 .. n |-> IF j = 1 THEN s[j] ELSE f[j - 1] \o s[j]]
  BY DEF Joins
<1> QED BY <1>1

(* Two joins agree as far as their parts do.                               *)
LEMMA JoinsAgree ==
  ASSUME NEW s, NEW t, NEW f, NEW g, NEW n \in Nat, NEW m \in Nat,
         Joins(f, s, n), Joins(g, t, m),
         NEW k \in Nat, k <= n, k <= m, \A i \in 1 .. k : s[i] = t[i]
  PROVE  \A i \in 1 .. k : f[i] = g[i]
<1> DEFINE S == {i \in 1 .. k : f[i] # g[i]}
<1> SUFFICES ASSUME S # {} PROVE FALSE
  OBVIOUS
<1>1. S \in SUBSET Nat
  OBVIOUS
<1> HIDE DEF S
<1>2. PICK j \in S : \A i \in S : j <= i
  BY <1>1, LeastOne
<1>3. j \in 1 .. k /\ f[j] # g[j]
  BY <1>2 DEF S
<1>4. f[j] = (IF j = 1 THEN s[j] ELSE f[j - 1] \o s[j])
  BY <1>3, JoinValue
<1>5. g[j] = (IF j = 1 THEN t[j] ELSE g[j - 1] \o t[j])
  BY <1>3, JoinValue
<1>6. s[j] = t[j]
  BY <1>3
<1>7. j # 1
  BY <1>3, <1>4, <1>5, <1>6
<1>8. j - 1 \in 1 .. k /\ j - 1 \notin S
  BY <1>1, <1>2, <1>3, <1>7
<1>9. f[j - 1] = g[j - 1]
  BY <1>8 DEF S
<1> QED BY <1>3, <1>4, <1>5, <1>6, <1>9

(* Flattening one part more appends it.                                    *)
LEMMA FlattenAppended ==
  ASSUME NEW s, NEW t, NEW n \in Nat, n >= 1, Len(s) = n, Len(t) = n + 1,
         \A i \in 1 .. n : s[i] = t[i]
  PROVE  FlattenSeq(t) = FlattenSeq(s) \o t[n + 1]
<1>1. PICK f : Joins(f, s, n) /\ FlattenSeq(s) = f[n]
  BY FlattenIsJoin
<1>2. n + 1 \in Nat /\ n + 1 >= 1
  OBVIOUS
<1>3. PICK g : Joins(g, t, n + 1) /\ FlattenSeq(t) = g[n + 1]
  BY <1>2, FlattenIsJoin
<1>4. \A i \in 1 .. n : f[i] = g[i]
  BY <1>1, <1>2, <1>3, JoinsAgree, SMTT(60)
<1>5. g[n + 1] = g[n] \o t[n + 1]
  <2>1. PICK m \in Nat : m = n + 1
    BY <1>2
  <2>2. Joins(g, t, m) /\ m \in 1 .. m
    BY <1>3, <2>1
  <2>3. g[m] = IF m = 1 THEN t[m] ELSE g[m - 1] \o t[m]
    BY <2>2, JoinValue
  <2>4. m # 1 /\ m - 1 = n
    BY <2>1
  <2> QED BY <2>1, <2>3, <2>4
<1>6. f[n] = g[n]
  BY <1>4
<1> QED BY <1>1, <1>3, <1>5, <1>6

LEMMA FlattenOne ==
  ASSUME NEW t, Len(t) = 1
  PROVE  FlattenSeq(t) = t[1]
<1>1. PICK f : Joins(f, t, 1) /\ FlattenSeq(t) = f[1]
  <2>1. 1 \in Nat /\ 1 >= 1
    OBVIOUS
  <2> QED BY <2>1, FlattenIsJoin
<1>2. f[1] = t[1]
  BY <1>1, JoinValue
<1> QED BY <1>1, <1>2

(* What sequences are joined to is one.                                    *)
LEMMA JoinIsSequence ==
  ASSUME NEW X, NEW f, NEW s, NEW n \in Nat, Joins(f, s, n), \A i \in 1 .. n : s[i] \in Seq(X)
  PROVE  \A i \in 1 .. n : f[i] \in Seq(X)
<1> DEFINE S == {i \in 1 .. n : f[i] \notin Seq(X)}
<1> SUFFICES ASSUME S # {} PROVE FALSE
  OBVIOUS
<1>1. S \in SUBSET Nat
  OBVIOUS
<1> HIDE DEF S
<1>2. PICK j \in S : \A i \in S : j <= i
  BY <1>1, LeastOne
<1>3. j \in 1 .. n /\ f[j] \notin Seq(X)
  BY <1>2 DEF S
<1>4. f[j] = (IF j = 1 THEN s[j] ELSE f[j - 1] \o s[j])
  BY <1>3, JoinValue
<1>5. j # 1
  BY <1>3, <1>4
<1>6. j - 1 \in 1 .. n /\ j - 1 \notin S
  BY <1>1, <1>2, <1>3, <1>5
<1>7. f[j - 1] \in Seq(X) /\ s[j] \in Seq(X)
  BY <1>3, <1>6 DEF S
<1> QED BY <1>3, <1>4, <1>5, <1>7, ConcatProperties

LEMMA NextJoin ==
  ASSUME NEW f, NEW s, NEW n \in Nat, Joins(f, s, n), NEW j \in 1 .. n, j # n
  PROVE  f[j + 1] = f[j] \o s[j + 1]
<1>1. PICK i \in 1 .. n : i = j + 1 /\ i - 1 = j /\ i # 1
  OBVIOUS
<1>2. f[i] = (IF i = 1 THEN s[i] ELSE f[i - 1] \o s[i])
  BY JoinValue
<1> QED BY <1>1, <1>2

(* The second sequence is the first one but for its first part.            *)
Tails(s, t, n) == \A i \in 1 .. n : t[i] = s[i + 1]

LEMMA TailRegrouped ==
  ASSUME NEW X, NEW a \in Seq(X), NEW b \in Seq(X), NEW c \in Seq(X), NEW u, u = a \o b
  PROVE  u \o c = a \o (b \o c)
BY ConcatAssociative

(* The joins of all parts are the first and the joins of the others.       *)
Prefixed(a, c, b) == c = a \o b
LEMMA JoinsBehindFirst ==
  ASSUME NEW X, NEW f, NEW g, NEW s \in Seq(Seq(X)), NEW t, NEW n \in Nat, NEW m \in Nat,
         m = n + 1, Len(s) = m, Joins(f, s, m), Joins(g, t, n), Tails(s, t, n), n # 0
  PROVE  Prefixed(s[1], f[m], g[n])
<1> DEFINE Fails(i) == f[i + 1] # s[1] \o g[i]
           S == {i \in 1 .. n : Fails(i)}
<1> SUFFICES ASSUME S # {} PROVE FALSE
  <2>1. n \in 1 .. n
    OBVIOUS
  <2> QED BY <2>1 DEF Prefixed
<1>0. /\ \A i \in 1 .. n : t[i] = s[i + 1]
      /\ \A i \in 1 .. m : s[i] \in Seq(X)
  BY DEF Tails
<1> HIDE DEF Fails
<1>1. S \in SUBSET Nat
  OBVIOUS
<1> HIDE DEF S
<1>2. PICK j \in S : \A i \in S : j <= i
  BY <1>1, LeastOne
<1>3. j \in 1 .. n /\ Fails(j)
  BY <1>2 DEF S
<1>4. m \in Nat /\ j \in 1 .. m /\ j # m /\ j + 1 \in 1 .. m /\ 1 \in 1 .. m
  BY <1>3
<1>5. f[j + 1] = f[j] \o t[j]
  <2>1. f[j + 1] = f[j] \o s[j + 1]
    BY <1>4, NextJoin, ZenonT(60)
  <2> QED BY <1>0, <1>3, <2>1
<1>6. g[j] = (IF j = 1 THEN t[j] ELSE g[j - 1] \o t[j])
  BY <1>3, JoinValue
<1>7. CASE j = 1
  <2>1. f[1] = s[1]
    BY <1>4, JoinValue, SMTT(60)
  <2> QED BY <1>3, <1>5, <1>6, <1>7, <2>1 DEF Fails
<1>8. CASE j # 1
  <2>1. PICK i : i = j - 1 /\ i \in 1 .. n /\ i + 1 = j /\ i \notin S
    BY <1>1, <1>2, <1>3, <1>8
  <2>2. f[j] = s[1] \o g[i]
    BY <2>1 DEF S, Fails
  <2>3. s[1] \in Seq(X) /\ t[j] \in Seq(X) /\ \A k \in 1 .. n : t[k] \in Seq(X)
    <3>1. \A k \in 1 .. n : k + 1 \in 1 .. m
      BY <1>4
    <3> QED BY <1>0, <1>3, <1>4, <3>1
  <2>4. g[i] \in Seq(X)
    BY <2>1, <2>3, JoinIsSequence
  <2>5. f[j] \o t[j] = s[1] \o (g[i] \o t[j])
    <3>1. PICK a, b, c, u : a = s[1] /\ b = g[i] /\ c = t[j] /\ u = f[j]
      OBVIOUS
    <3>2. a \in Seq(X) /\ b \in Seq(X) /\ c \in Seq(X) /\ u = a \o b
      BY <2>2, <2>3, <2>4, <3>1
    <3>3. u \o c = a \o (b \o c)
      BY <3>2, TailRegrouped, SMTT(60)
    <3> QED BY <3>1, <3>3
  <2> QED BY <1>3, <1>5, <1>6, <1>8, <2>1, <2>5 DEF Fails
<1> QED BY <1>7, <1>8

LEMMA FlattenIsSequence ==
  ASSUME NEW X, NEW s \in Seq(Seq(X))
  PROVE  FlattenSeq(s) \in Seq(X)
<1>1. CASE Len(s) = 0
  BY <1>1, EmptySeq DEF FlattenSeq
<1>2. CASE Len(s) # 0
  <2>1. PICK n \in Nat : n = Len(s) /\ n >= 1
    BY <1>2
  <2>2. PICK f : Joins(f, s, n) /\ FlattenSeq(s) = f[n]
    BY <2>1, FlattenIsJoin
  <2>3. \A i \in 1 .. n : s[i] \in Seq(X)
    BY <2>1
  <2>4. f[n] \in Seq(X)
    BY <2>1, <2>2, <2>3, JoinIsSequence
  <2> QED BY <2>2, <2>4
<1> QED BY <1>1, <1>2

(* Flattening the first part and others is the first and the others.       *)
LEMMA FlattenFirst ==
  ASSUME NEW X, NEW s \in Seq(Seq(X)), NEW t \in Seq(Seq(X)), NEW n \in Nat,
         Len(s) = n + 1, Len(t) = n, Tails(s, t, n)
  PROVE  FlattenSeq(s) = s[1] \o FlattenSeq(t)
<1>1. \A i \in 1 .. n + 1 : s[i] \in Seq(X)
  OBVIOUS
<1>2. CASE n = 0
  <2>1. FlattenSeq(s) = s[1] /\ s[1] \in Seq(X)
    BY <1>1, <1>2, FlattenOne
  <2>2. FlattenSeq(t) = <<>>
    BY <1>2, EmptySeq DEF FlattenSeq
  <2> QED BY <2>1, <2>2, ConcatEmptySeq
<1>3. CASE n # 0
  <2>1. PICK m \in Nat : m = n + 1 /\ m >= 1
    OBVIOUS
  <2>2. PICK f : Joins(f, s, m) /\ FlattenSeq(s) = f[m]
    BY <2>1, FlattenIsJoin
  <2>3. PICK g : Joins(g, t, n) /\ FlattenSeq(t) = g[n]
    <3>1. n >= 1
      BY <1>3
    <3> QED BY <3>1, FlattenIsJoin
  <2>4. Prefixed(s[1], f[m], g[n])
    <3>1. m = n + 1 /\ Len(s) = m /\ Joins(f, s, m) /\ Joins(g, t, n) /\ Tails(s, t, n) /\ n # 0
      BY <1>3, <2>1, <2>2, <2>3
    <3> QED BY <3>1, JoinsBehindFirst
  <2> QED BY <2>2, <2>3, <2>4 DEF Prefixed
<1> QED BY <1>2, <1>3

(* The parts of s behind the first n of them, joined.                      *)
JoinedBehind(s, n) == FlattenSeq(SubSeq(s, n + 1, Len(s)))

LEMMA PartsBehind ==
  ASSUME NEW S, NEW s \in Seq(S), NEW n \in 0 .. Len(s)
  PROVE  /\ SubSeq(s, n + 1, Len(s)) \in Seq(S)
         /\ Len(SubSeq(s, n + 1, Len(s))) = Len(s) - n
         /\ \A i \in 1 .. Len(s) - n : SubSeq(s, n + 1, Len(s))[i] = s[n + i]
<1>1. Len(s) \in Nat /\ n \in Nat /\ \A i \in 1 .. Len(s) : s[i] \in S
  OBVIOUS
<1> QED BY <1>1

LEMMA BehindIsSequence ==
  ASSUME NEW X, NEW s \in Seq(Seq(X)), NEW n \in 0 .. Len(s)
  PROVE  JoinedBehind(s, n) \in Seq(X)
BY PartsBehind, FlattenIsSequence DEF JoinedBehind

LEMMA BehindLast ==
  ASSUME NEW X, NEW s \in Seq(Seq(X))
  PROVE  JoinedBehind(s, Len(s)) = <<>>
<1>1. Len(s) \in Int /\ Len(s) < Len(s) + 1
  OBVIOUS
<1>2. SubSeq(s, Len(s) + 1, Len(s)) = <<>>
  BY <1>1, SubSeqEmpty
<1> QED BY <1>2 DEF JoinedBehind, FlattenSeq

LEMMA BehindNext ==
  ASSUME NEW X, NEW s \in Seq(Seq(X)), NEW n \in Nat, n < Len(s)
  PROVE  JoinedBehind(s, n) = s[n + 1] \o JoinedBehind(s, n + 1)
<1>1. Len(s) \in Nat /\ n \in 0 .. Len(s) /\ n + 1 \in 0 .. Len(s)
  OBVIOUS
<1>2. PICK u : u = SubSeq(s, n + 1, Len(s))
  OBVIOUS
<1>3. /\ u \in Seq(Seq(X)) /\ Len(u) = Len(s) - n
      /\ \A i \in 1 .. Len(s) - n : u[i] = s[n + i]
  BY <1>1, <1>2, PartsBehind
<1>4. PICK t : t = SubSeq(s, (n + 1) + 1, Len(s))
  OBVIOUS
<1>5. /\ t \in Seq(Seq(X)) /\ Len(t) = Len(s) - (n + 1)
      /\ \A i \in 1 .. Len(s) - (n + 1) : t[i] = s[(n + 1) + i]
  BY <1>1, <1>4, PartsBehind
<1>6. PICK k : k = Len(s) - (n + 1) /\ k \in Nat
  <2>1. Len(s) - (n + 1) \in Nat
    BY <1>1
  <2> QED BY <2>1
<1>7. Len(u) = k + 1 /\ Len(t) = k
  BY <1>1, <1>3, <1>5, <1>6
<1>8. \A i \in 1 .. k : t[i] = u[i + 1]
  <2> TAKE i \in 1 .. k
  <2>1. i \in 1 .. Len(s) - (n + 1) /\ i + 1 \in 1 .. Len(s) - n /\ (n + 1) + i = n + (i + 1)
    BY <1>1, <1>6
  <2> QED BY <1>3, <1>5, <2>1
<1>9. FlattenSeq(u) = u[1] \o FlattenSeq(t)
  <2>1. Tails(u, t, k)
    BY <1>8 DEF Tails
  <2>2. u \in Seq(Seq(X)) /\ t \in Seq(Seq(X)) /\ k \in Nat /\ Len(u) = k + 1 /\ Len(t) = k
    BY <1>3, <1>5, <1>6, <1>7
  <2> QED BY <2>1, <2>2, FlattenFirst, Zenon
<1>10. u[1] = s[n + 1]
  BY <1>1, <1>3
<1> QED BY <1>2, <1>4, <1>9, <1>10 DEF JoinedBehind

(* The largest of a set of numbers that is bounded.                        *)
LEMMA LargestOne ==
  ASSUME NEW n \in Nat, NEW S \in SUBSET (0 .. n), S # {}
  PROVE  Max(S) \in S /\ \A y \in S : Max(S) >= y
<1> DEFINE R == {n - x : x \in S}
<1>1. R \in SUBSET Nat /\ R # {}
  <2>1. \A x \in S : n - x \in Nat
    OBVIOUS
  <2> QED BY <2>1
<1>2. \A x \in S : n - x \in R
  OBVIOUS
<1>3. \A r \in R : \E x \in S : r = n - x
  OBVIOUS
<1> HIDE DEF R
<1>4. PICK r \in R : \A y \in R : r <= y
  BY <1>1, LeastOne
<1>5. PICK x \in S : r = n - x
  BY <1>3, <1>4
<1>6. \A y \in S : x >= y
  <2> TAKE y \in S
  <2>1. n - x <= n - y
    BY <1>2, <1>4, <1>5
  <2>2. x \in 0 .. n /\ y \in 0 .. n
    OBVIOUS
  <2> QED BY <2>1, <2>2
<1> QED BY <1>6 DEF Max
(* x is what a linear recurrence goes through, from 0 to n.                *)
Course(x, first, factor, terms, n) ==
  x = [k \in 0 .. n |-> IF k = 0 THEN first ELSE factor * x[k - 1] + terms[k]]

LEMMA CourseExists ==
  ASSUME NEW first, NEW factor, NEW terms, NEW n \in Nat
  PROVE  \E x : Course(x, first, factor, terms, n)
<1> DEFINE S == {m \in Nat : ~ \E x : Course(x, first, factor, terms, m)}
<1> SUFFICES ASSUME S # {} PROVE FALSE
  OBVIOUS
<1>1. S \in SUBSET Nat
  OBVIOUS
<1> HIDE DEF S
<1>2. PICK m \in S : \A i \in S : m <= i
  BY <1>1, LeastOne
<1>3. m \in Nat /\ ~ \E x : Course(x, first, factor, terms, m)
  BY <1>2 DEF S
<1>4. m # 0
  <2> SUFFICES ASSUME m = 0 PROVE FALSE
    OBVIOUS
  <2>1. PICK x : x = [k \in 0 .. 0 |-> first]
    OBVIOUS
  <2>2. \A k \in 0 .. 0 : first = IF k = 0 THEN first ELSE factor * x[k - 1] + terms[k]
    OBVIOUS
  <2>3. x = [k \in 0 .. 0 |-> IF k = 0 THEN first ELSE factor * x[k - 1] + terms[k]]
    BY <2>1, <2>2
  <2> QED BY <1>3, <2>3 DEF Course
<1>5. PICK l \in Nat : m = l + 1 /\ l \notin S
  <2>1. m - 1 \in Nat /\ m = (m - 1) + 1 /\ m - 1 \notin S
    BY <1>2, <1>3, <1>4
  <2> QED BY <2>1
<1>6. PICK x : Course(x, first, factor, terms, l)
  BY <1>5 DEF S
<1>7. x = [k \in 0 .. l |-> IF k = 0 THEN first ELSE factor * x[k - 1] + terms[k]]
  BY <1>6 DEF Course
<1> DEFINE y == [k \in 0 .. m |-> IF k = m THEN factor * x[l] + terms[m] ELSE x[k]]
<1>8. \A k \in 0 .. m : y[k] = IF k = 0 THEN first ELSE factor * y[k - 1] + terms[k]
  <2> TAKE k \in 0 .. m
  <2>1. CASE k = m
    <3>1. l \in 0 .. m /\ l # m /\ m \in 0 .. m /\ m # 0 /\ m - 1 = l
      BY <1>4, <1>5
    <3>2. y[m] = factor * x[l] + terms[m] /\ y[l] = x[l]
      BY <3>1
    <3> QED BY <2>1, <3>1, <3>2
  <2>2. CASE k # m
    <3>1. k \in 0 .. l /\ y[k] = x[k]
      BY <1>5, <2>2
    <3>2. x[k] = IF k = 0 THEN first ELSE factor * x[k - 1] + terms[k]
      BY <1>7, <3>1
    <3>3. k # 0 => k - 1 \in 0 .. m /\ y[k - 1] = x[k - 1]
      BY <1>5, <3>1
    <3> QED BY <3>1, <3>2, <3>3
  <2> QED BY <2>1, <2>2
<1>9. y = [k \in 0 .. m |-> IF k = 0 THEN first ELSE factor * y[k - 1] + terms[k]]
  BY <1>8
<1> HIDE DEF y
<1> QED BY <1>3, <1>9 DEF Course

LEMMA LinearIsLast ==
  ASSUME NEW first, NEW factor, NEW terms, NEW n \in Nat
  PROVE  \E x : Course(x, first, factor, terms, n) /\ Linear(first, factor, terms, n) = x[n]
<1>0. \E x : Course(x, first, factor, terms, n)
  BY CourseExists
<1>1. \E x : x = [k \in 0 .. n |-> IF k = 0 THEN first ELSE factor * x[k - 1] + terms[k]]
  BY <1>0, ZenonT(60) DEF Course
<1> DEFINE g == CHOOSE x : x = [k \in 0 .. n |-> IF k = 0 THEN first ELSE factor * x[k - 1] + terms[k]]
<1>2. g = [k \in 0 .. n |-> IF k = 0 THEN first ELSE factor * g[k - 1] + terms[k]]
  BY <1>1, ZenonT(60)
<1>3. Linear(first, factor, terms, n) = g[n]
  BY DEF Linear
<1> HIDE DEF g
<1> QED BY <1>2, <1>3 DEF Course

LEMMA CourseAt ==
  ASSUME NEW x, NEW first, NEW factor, NEW terms, NEW n \in Nat,
         Course(x, first, factor, terms, n), NEW k \in 0 .. n
  PROVE  x[k] = IF k = 0 THEN first ELSE factor * x[k - 1] + terms[k]
<1>1. x = [j \in 0 .. n |-> IF j = 0 THEN first ELSE factor * x[j - 1] + terms[j]]
  BY DEF Course
<1> QED BY <1>1

(* Two of them agree as far as their terms do.                             *)
AgreeTo(s, t, n) == \A i \in 1 .. n : s[i] = t[i]
LEMMA CoursesAgree ==
  ASSUME NEW x, NEW y, NEW first, NEW factor, NEW s, NEW t, NEW n \in Nat, NEW m \in Nat, n <= m,
         Course(x, first, factor, s, n), Course(y, first, factor, t, m), AgreeTo(s, t, n)
  PROVE  x[n] = y[n]
<1> DEFINE S == {k \in 0 .. n : x[k] # y[k]}
<1> SUFFICES ASSUME S # {} PROVE FALSE
  <2>1. n \in 0 .. n
    OBVIOUS
  <2> QED BY <2>1
<1>1. S \in SUBSET Nat
  OBVIOUS
<1> HIDE DEF S
<1>2. PICK j \in S : \A i \in S : j <= i
  BY <1>1, LeastOne
<1>3. j \in 0 .. n /\ x[j] # y[j] /\ j \in 0 .. m
  BY <1>2 DEF S
<1>4. x[j] = IF j = 0 THEN first ELSE factor * x[j - 1] + s[j]
  BY <1>3, CourseAt
<1>5. y[j] = IF j = 0 THEN first ELSE factor * y[j - 1] + t[j]
  BY <1>3, CourseAt
<1>6. j # 0
  BY <1>3, <1>4, <1>5
<1>7. s[j] = t[j]
  BY <1>3, <1>6 DEF AgreeTo
<1>8. j - 1 \in 0 .. n /\ j - 1 \notin S
  BY <1>1, <1>2, <1>3, <1>6
<1>9. x[j - 1] = y[j - 1]
  BY <1>8 DEF S
<1> QED BY <1>3, <1>4, <1>5, <1>6, <1>7, <1>9

LEMMA LinearFirst ==
  ASSUME NEW first, NEW factor, NEW terms
  PROVE  Linear(first, factor, terms, 0) = first
<1>1. 0 \in Nat /\ 0 \in 0 .. 0
  OBVIOUS
<1>2. PICK x : Course(x, first, factor, terms, 0) /\ Linear(first, factor, terms, 0) = x[0]
  BY <1>1, LinearIsLast
<1>3. x[0] = first
  BY <1>1, <1>2, CourseAt
<1> QED BY <1>2, <1>3

(* One term more.                                                          *)
LEMMA LinearNext ==
  ASSUME NEW first, NEW factor, NEW s, NEW t, NEW n \in Nat, NEW m \in Nat, m = n + 1,
         AgreeTo(s, t, n)
  PROVE  Linear(first, factor, t, m) = factor * Linear(first, factor, s, n) + t[m]
<1>1. PICK x : Course(x, first, factor, s, n) /\ Linear(first, factor, s, n) = x[n]
  BY LinearIsLast
<1>2. PICK y : Course(y, first, factor, t, m) /\ Linear(first, factor, t, m) = y[m]
  BY LinearIsLast
<1>3. n <= m /\ m \in 0 .. m /\ m # 0 /\ m - 1 = n
  OBVIOUS
<1>4. x[n] = y[n]
  BY <1>1, <1>2, <1>3, CoursesAgree
<1>5. y[m] = factor * y[n] + t[m]
  BY <1>2, <1>3, CourseAt
<1> QED BY <1>1, <1>2, <1>4, <1>5

(* The same terms.                                                         *)
LEMMA LinearSame ==
  ASSUME NEW first, NEW factor, NEW s, NEW t, NEW n \in Nat, AgreeTo(s, t, n)
  PROVE  Linear(first, factor, s, n) = Linear(first, factor, t, n)
<1>1. PICK x : Course(x, first, factor, s, n) /\ Linear(first, factor, s, n) = x[n]
  BY LinearIsLast
<1>2. PICK y : Course(y, first, factor, t, n) /\ Linear(first, factor, t, n) = y[n]
  BY LinearIsLast
<1>3. n <= n
  OBVIOUS
<1> QED BY <1>1, <1>2, <1>3, CoursesAgree

Naturals(s, n) == \A i \in 1 .. n : s[i] \in Nat
LEMMA LinearIsNatural ==
  ASSUME NEW first \in Nat, NEW factor \in Nat, NEW s, NEW n \in Nat, Naturals(s, n)
  PROVE  \A k \in 0 .. n : Linear(first, factor, s, k) \in Nat
<1> DEFINE S == {k \in 0 .. n : Linear(first, factor, s, k) \notin Nat}
<1> SUFFICES ASSUME S # {} PROVE FALSE
  OBVIOUS
<1>1. S \in SUBSET Nat
  OBVIOUS
<1> HIDE DEF S
<1>2. PICK j \in S : \A i \in S : j <= i
  BY <1>1, LeastOne
<1>3. j \in 0 .. n /\ Linear(first, factor, s, j) \notin Nat
  BY <1>2 DEF S
<1>4. j # 0
  BY <1>3, LinearFirst
<1>5. PICK i \in Nat : j = i + 1 /\ i \in 0 .. n /\ i \notin S /\ j \in 1 .. n
  <2>1. j - 1 \in Nat /\ j = (j - 1) + 1 /\ j - 1 \in 0 .. n /\ j - 1 \notin S /\ j \in 1 .. n
    BY <1>1, <1>2, <1>3, <1>4
  <2> QED BY <2>1
<1>6. j \in Nat /\ AgreeTo(s, s, i)
  BY <1>5 DEF AgreeTo
<1>7. Linear(first, factor, s, j) = factor * Linear(first, factor, s, i) + s[j]
  BY <1>5, <1>6, LinearNext
<1>8. Linear(first, factor, s, i) \in Nat /\ s[j] \in Nat
  BY <1>5 DEF S, Naturals
<1>9. PICK p \in Nat, q \in Nat : p = Linear(first, factor, s, i) /\ q = s[j]
  BY <1>8
<1>10. factor * p + q \in Nat
  OBVIOUS
<1> QED BY <1>3, <1>7, <1>9, <1>10
=============================================================================
