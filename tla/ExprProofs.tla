----------------------------- MODULE ExprProofs -----------------------------
(***************************************************************************)
(* The walk over the tree of an expression computes what a recursive       *)
(* reading of the tree does, for every tree and every size of the stack;   *)
(* and in the tree the parser builds, whatever the text, no operator has   *)
(* one to its right that binds less tightly.                               *)
(***************************************************************************)
EXTENDS Folding, ExprProps, SequenceLemmas, SequenceTheorems

----------------------------------------------------------------------------
(* The values of the subtrees.  That the recursion has a function is shown *)
(* from the deepest nodes upwards.                                         *)

ValueOf(t, v, n) ==
  IF t[n] \in Ops THEN Valued(t[n], v[left(n)], v[second(t, n)]) ELSE t[n]
Deep(t, k) == {n \in DOMAIN t : Len(n) >= k}
Values(t, v, k) == v = [n \in Deep(t, k) |-> ValueOf(t, v, n)]

LEMMA Operands ==
  ASSUME NEW t, IsTree(t), NEW n \in DOMAIN t, t[n] \in Ops
  PROVE  /\ left(n) \in DOMAIN t /\ second(t, n) \in DOMAIN t
         /\ n \in Seq({1, 2}) /\ Len(n) \in Nat
         /\ Len(left(n)) = Len(n) + 1 /\ Len(right(n)) = Len(n) + 1
         /\ Len(second(t, n)) = Len(n) + 1
<1>1. /\ n \in Seq({1, 2}) /\ left(n) \in DOMAIN t
      /\ right(n) \in DOMAIN t <=> t[n] # "NOT"
  BY DEF IsTree
<1>2. Len(left(n)) = Len(n) + 1 /\ Len(right(n)) = Len(n) + 1 /\ Len(n) \in Nat
  BY <1>1 DEF left, right
<1> QED BY <1>1, <1>2 DEF second

LEMMA ValuesAbove ==
  ASSUME NEW t, IsTree(t), NEW k \in Nat, NEW v, Values(t, v, k + 1)
  PROVE  \E w : Values(t, w, k)
<1>1. v = [n \in Deep(t, k + 1) |-> ValueOf(t, v, n)]
  BY DEF Values
<1> DEFINE w == [n \in Deep(t, k) |-> IF n \in Deep(t, k + 1) THEN v[n] ELSE ValueOf(t, v, n)]
<1>2. \A n \in Deep(t, k) : w[n] = ValueOf(t, v, n)
  BY <1>1
<1>3. \A n \in Deep(t, k + 1) : w[n] = v[n]
  <2> TAKE n \in Deep(t, k + 1)
  <2>1. n \in DOMAIN t /\ n \in Seq({1, 2}) /\ Len(n) >= k + 1 /\ Len(n) \in Nat
    BY DEF IsTree, Deep
  <2>2. n \in Deep(t, k)
    BY <2>1 DEF Deep
  <2> QED BY <2>2
<1> HIDE DEF w
<1>4. \A n \in Deep(t, k) : ValueOf(t, v, n) = ValueOf(t, w, n)
  <2> TAKE n \in Deep(t, k)
  <2>1. n \in DOMAIN t /\ Len(n) >= k
    BY DEF Deep
  <2>2. CASE t[n] \in Ops
    <3>1. /\ left(n) \in DOMAIN t /\ second(t, n) \in DOMAIN t /\ Len(n) \in Nat
          /\ Len(left(n)) = Len(n) + 1 /\ Len(second(t, n)) = Len(n) + 1
      BY <2>1, <2>2, Operands
    <3>2. left(n) \in Deep(t, k + 1) /\ second(t, n) \in Deep(t, k + 1)
      BY <2>1, <3>1 DEF Deep
    <3>3. v[left(n)] = w[left(n)] /\ v[second(t, n)] = w[second(t, n)]
      BY <1>3, <3>2
    <3> QED BY <3>3 DEF ValueOf
  <2>3. CASE t[n] \notin Ops
    BY <2>3 DEF ValueOf
  <2> QED BY <2>2, <2>3
<1>5. w = [n \in Deep(t, k) |-> ValueOf(t, v, n)]
  BY <1>2 DEF w
<1>6. w = [n \in Deep(t, k) |-> ValueOf(t, w, n)]
  BY <1>4, <1>5
<1> QED BY <1>6 DEF Values

LEMMA ValuesExist ==
  ASSUME NEW t, IsTree(t)
  PROVE  \E v : Values(t, v, 0)
<1>1. PICK d \in DOMAIN t : \A n \in DOMAIN t : Len(n) <= Len(d)
  BY DEF IsTree
<1>2. PICK last \in Nat : last = Len(d) + 1
  BY DEF IsTree
<1>3. \A n \in DOMAIN t : n \in Seq({1, 2})
  BY DEF IsTree
<1>4. Deep(t, last) = {}
  BY <1>1, <1>2, <1>3 DEF Deep
<1>5. \E v : Values(t, v, last)
  <2> DEFINE v == [n \in {} |-> ValueOf(t, <<>>, n)]
  <2>1. v = [n \in {} |-> ValueOf(t, v, n)]
    OBVIOUS
  <2> HIDE DEF v
  <2>2. Values(t, v, last)
    BY <1>4, <2>1 DEF Values
  <2> QED BY <2>2
<1> DEFINE S == {k \in Nat : \E v : Values(t, v, k)}
<1>6. S \in SUBSET Nat /\ S # {}
  BY <1>5
<1> HIDE DEF S
<1>7. PICK k \in S : \A m \in S : k <= m
  BY <1>6, LeastOne
<1>8. k \in Nat /\ \E v : Values(t, v, k)
  BY <1>7 DEF S
<1>9. CASE k = 0
  BY <1>8, <1>9
<1>10. CASE k # 0
  <2>1. PICK m \in Nat : k = m + 1
    <3>1. k - 1 \in Nat /\ k = (k - 1) + 1
      BY <1>8, <1>10
    <3> QED BY <3>1
  <2>2. PICK v : Values(t, v, m + 1)
    BY <1>8, <2>1
  <2>3. m \in S
    BY <2>2, ValuesAbove DEF S
  <2> QED BY <1>7, <2>1, <2>3
<1> QED BY <1>9, <1>10

LEMMA ValueAt ==
  ASSUME NEW t, IsTree(t)
  PROVE  \A n \in DOMAIN t : Reference(t)[n] = ValueOf(t, Reference(t), n)
<1> DEFINE v == CHOOSE v : v = [n \in DOMAIN t |->
                  IF t[n] \in Ops THEN Valued(t[n], v[left(n)], v[second(t, n)]) ELSE t[n]]
<1>1. Deep(t, 0) = DOMAIN t
  <2>1. \A n \in DOMAIN t : Len(n) >= 0
    BY DEF IsTree
  <2> QED BY <2>1 DEF Deep
<1>2. \E w : w = [n \in DOMAIN t |->
                  IF t[n] \in Ops THEN Valued(t[n], w[left(n)], w[second(t, n)]) ELSE t[n]]
  <2>1. PICK w : Values(t, w, 0)
    BY ValuesExist
  <2>2. w = [n \in DOMAIN t |->
                  IF t[n] \in Ops THEN Valued(t[n], w[left(n)], w[second(t, n)]) ELSE t[n]]
    BY <1>1, <2>1 DEF Values, ValueOf
  <2> QED BY <2>2
<1>3. v = [n \in DOMAIN t |->
             IF t[n] \in Ops THEN Valued(t[n], v[left(n)], v[second(t, n)]) ELSE t[n]]
  BY <1>2
<1>4. Reference(t) = v
  BY DEF Reference
<1> HIDE DEF v
<1>5. \A n \in DOMAIN t : v[n] = ValueOf(t, v, n)
  BY <1>3 DEF ValueOf
<1> QED BY <1>4, <1>5

----------------------------------------------------------------------------
(* Addresses: m is n or lies below it.                                     *)

Address == Seq({1, 2})
Beneath(n, m) == Len(n) <= Len(m) /\ \A i \in 1 .. Len(n) : m[i] = n[i]

LEMMA Children ==
  ASSUME NEW n \in Address
  PROVE  /\ left(n) \in Address /\ right(n) \in Address /\ left(n) # right(n)
         /\ Len(left(n)) = Len(n) + 1 /\ Len(right(n)) = Len(n) + 1 /\ Len(n) \in Nat
<1>1. n \in Seq({1, 2})
  BY DEF Address
<1>2. /\ Append(n, 1) \in Seq({1, 2}) /\ Append(n, 2) \in Seq({1, 2}) /\ Len(n) \in Nat
      /\ Len(Append(n, 1)) = Len(n) + 1 /\ Len(Append(n, 2)) = Len(n) + 1
      /\ Append(n, 1)[Len(n) + 1] = 1 /\ Append(n, 2)[Len(n) + 1] = 2
  BY <1>1, AppendProperties
<1> QED BY <1>2 DEF left, right, Address

LEMMA BeneathChild ==
  ASSUME NEW n \in Address, NEW m \in Address
  PROVE  /\ Beneath(left(n), m) <=> Beneath(n, m) /\ Len(n) < Len(m) /\ m[Len(n) + 1] = 1
         /\ Beneath(right(n), m) <=> Beneath(n, m) /\ Len(n) < Len(m) /\ m[Len(n) + 1] = 2
<1> SUFFICES ASSUME NEW x \in {1, 2}, NEW c, c = Append(n, x)
             PROVE  Beneath(c, m) <=> Beneath(n, m) /\ Len(n) < Len(m) /\ m[Len(n) + 1] = x
  BY DEF left, right
<1>1. n \in Seq({1, 2}) /\ Len(n) \in Nat /\ Len(m) \in Nat
  BY DEF Address
<1>2. /\ Len(c) = Len(n) + 1 /\ c[Len(n) + 1] = x
      /\ \A i \in 1 .. Len(n) : c[i] = n[i]
  BY <1>1, AppendProperties
<1>3. ASSUME Beneath(c, m) PROVE Beneath(n, m) /\ Len(n) < Len(m) /\ m[Len(n) + 1] = x
  <2>1. Len(n) + 1 <= Len(m) /\ \A i \in 1 .. Len(n) + 1 : m[i] = c[i]
    BY <1>2, <1>3 DEF Beneath
  <2>2. \A i \in 1 .. Len(n) : m[i] = n[i]
    BY <1>1, <1>2, <2>1
  <2>3. m[Len(n) + 1] = x
    BY <1>1, <1>2, <2>1
  <2> QED BY <1>1, <2>1, <2>2, <2>3 DEF Beneath
<1>4. ASSUME Beneath(n, m), Len(n) < Len(m), m[Len(n) + 1] = x PROVE Beneath(c, m)
  <2>1. \A i \in 1 .. Len(n) + 1 : m[i] = c[i]
    <3> TAKE i \in 1 .. Len(n) + 1
    <3>1. CASE i = Len(n) + 1
      BY <1>2, <1>4, <3>1
    <3>2. CASE i # Len(n) + 1
      <4>1. i \in 1 .. Len(n)
        BY <1>1, <3>2
      <4> QED BY <1>2, <1>4, <4>1 DEF Beneath
    <3> QED BY <3>1, <3>2
  <2> QED BY <1>1, <1>2, <1>4, <2>1 DEF Beneath
<1> QED BY <1>3, <1>4

LEMMA BeneathItself ==
  ASSUME NEW n \in Address
  PROVE  Beneath(n, n) /\ Beneath(<<>>, n) /\ <<>> \in Address
BY DEF Beneath, Address

LEMMA BeneathPasses ==
  ASSUME NEW a \in Address, NEW b \in Address, NEW c \in Address, Beneath(a, b), Beneath(b, c)
  PROVE  Beneath(a, c)
<1>1. Len(a) \in Nat /\ Len(b) \in Nat /\ Len(c) \in Nat
  BY DEF Address
<1>2. \A i \in 1 .. Len(a) : c[i] = a[i]
  <2> TAKE i \in 1 .. Len(a)
  <2>1. i \in 1 .. Len(b)
    BY <1>1 DEF Beneath
  <2> QED BY <2>1 DEF Beneath
<1> QED BY <1>1, <1>2 DEF Beneath

(* Above one address there is one of each length.                          *)
LEMMA SameLength ==
  ASSUME NEW a \in Address, NEW b \in Address, Beneath(a, b), Len(a) = Len(b)
  PROVE  a = b
<1>1. a \in Seq({1, 2}) /\ b \in Seq({1, 2})
  BY DEF Address
<1>2. \A i \in 1 .. Len(a) : a[i] = b[i]
  BY DEF Beneath
<1> QED BY <1>1, <1>2, SeqEqual

LEMMA BelowWhich ==
  ASSUME NEW n \in Address, NEW m \in Address, Beneath(n, m)
  PROVE  m = n \/ Beneath(left(n), m) \/ Beneath(right(n), m)
<1>1. m \in Seq({1, 2}) /\ Len(n) \in Nat /\ Len(m) \in Nat /\ Len(n) <= Len(m)
  BY DEF Address, Beneath
<1>2. CASE Len(n) = Len(m)
  BY <1>2, SameLength
<1>3. CASE Len(n) < Len(m)
  <2>1. Len(n) + 1 \in 1 .. Len(m)
    BY <1>1, <1>3
  <2>2. m[Len(n) + 1] \in {1, 2}
    BY <1>1, <2>1
  <2> QED BY <1>3, <2>2, BeneathChild
<1> QED BY <1>1, <1>2, <1>3

(* What is above a child is the child or above its parent.                 *)
LEMMA AboveChild ==
  ASSUME NEW n \in Address, NEW c, c = left(n) \/ c = right(n), NEW a \in Address, Beneath(a, c)
  PROVE  a = c \/ Beneath(a, n)
<1>1. /\ c \in Address /\ Len(c) = Len(n) + 1 /\ Len(n) \in Nat /\ Len(a) \in Nat
      /\ \A i \in 1 .. Len(n) : c[i] = n[i]
  <2>1. n \in Seq({1, 2}) /\ Len(a) \in Nat
    BY DEF Address
  <2>2. \A i \in 1 .. Len(n) : Append(n, 1)[i] = n[i] /\ Append(n, 2)[i] = n[i]
    BY <2>1, AppendProperties
  <2> QED BY <2>1, <2>2, Children DEF left, right
<1>2. Len(a) <= Len(n) + 1
  BY <1>1 DEF Beneath
<1>3. CASE Len(a) = Len(n) + 1
  BY <1>1, <1>3, SameLength
<1>4. CASE Len(a) <= Len(n)
  <2>1. \A i \in 1 .. Len(a) : n[i] = a[i]
    <3> TAKE i \in 1 .. Len(a)
    <3>1. i \in 1 .. Len(n)
      BY <1>1, <1>4
    <3> QED BY <1>1, <3>1 DEF Beneath
  <2> QED BY <1>4, <2>1 DEF Beneath
<1> QED BY <1>1, <1>2, <1>3, <1>4

LEMMA ChildBelow ==
  ASSUME NEW n \in Address, NEW c, c = left(n) \/ c = right(n)
  PROVE  c \in Address /\ Beneath(n, c) /\ ~ Beneath(c, n)
<1>1. c \in Address /\ Len(c) = Len(n) + 1 /\ Len(n) \in Nat
  BY Children
<1>2. Beneath(c, c)
  BY <1>1, BeneathItself
<1>3. Beneath(n, c)
  BY <1>1, <1>2, BeneathChild
<1>4. ~ Beneath(c, n)
  BY <1>1 DEF Beneath
<1> QED BY <1>1, <1>3, <1>4

(* The parent's child is the address itself.                               *)
LEMMA Parent ==
  ASSUME NEW c \in Address, c # <<>>, NEW n, n = SubSeq(c, 1, Len(c) - 1)
  PROVE  n \in Address /\ (c = left(n) \/ c = right(n)) /\ Len(c) = Len(n) + 1
<1>1. c \in Seq({1, 2}) /\ Len(c) \in Nat \ {0}
  BY EmptySeq DEF Address
<1>2. n \in Seq({1, 2}) /\ Len(n) = Len(c) - 1 /\ \A i \in 1 .. Len(c) - 1 : n[i] = c[i]
  <2>1. PICK k \in Nat : k = Len(c) - 1
    BY <1>1, SMTT(60)
  <2>2. k \in 0 .. Len(c)
    BY <1>1, <2>1
  <2>3. n \in Seq({1, 2}) /\ Len(n) = k /\ \A i \in 1 .. k : n[i] = c[i]
    BY <1>1, <2>1, <2>2, SubSeqProperties
  <2> QED BY <2>1, <2>3
<1>3. PICK x \in {1, 2} : x = c[Len(c)]
  <2>1. Len(c) \in 1 .. Len(c)
    BY <1>1
  <2> QED BY <1>1, <2>1
<1>4. c = Append(n, x)
  <2>1. PICK d : d = Append(n, x)
    OBVIOUS
  <2>2. /\ d \in Seq({1, 2}) /\ Len(d) = Len(c) /\ d[Len(c)] = x
        /\ \A i \in 1 .. Len(c) - 1 : d[i] = n[i]
    BY <1>1, <1>2, <2>1, AppendProperties
  <2>3. \A i \in 1 .. Len(c) : c[i] = d[i]
    <3> TAKE i \in 1 .. Len(c)
    <3>1. i = Len(c) \/ i \in 1 .. Len(c) - 1
      BY <1>1
    <3> QED BY <1>2, <1>3, <2>2, <3>1
  <2> QED BY <1>1, <2>1, <2>2, <2>3, SeqEqual
<1> QED BY <1>1, <1>2, <1>4 DEF left, right, Address

----------------------------------------------------------------------------
(* The tree.                                                               *)

LEMMA NodesAbove ==
  ASSUME NEW t, IsTree(t), NEW m \in DOMAIN t, NEW a \in Address, Beneath(a, m)
  PROVE  a \in DOMAIN t /\ (a # m => t[a] \in Ops) /\ m \in Address
<1>1. m \in Address
  BY DEF IsTree, Address
<1>2. CASE Len(a) = Len(m)
  BY <1>1, <1>2, SameLength
<1>3. CASE Len(a) # Len(m)
  <2>1. PICK k \in Nat : k = Len(a)
    BY DEF Address
  <2>2. k \in 0 .. Len(m) - 1 /\ k \in 0 .. Len(m) /\ Len(m) \in Nat
    BY <1>1, <1>3, <2>1 DEF Beneath, Address
  <2>3. PICK b : b = SubSeq(m, 1, k)
    OBVIOUS
  <2>4. b \in DOMAIN t /\ t[b] \in Ops
    BY <2>2, <2>3 DEF IsTree
  <2>5. b \in Seq({1, 2}) /\ Len(b) = k /\ \A i \in 1 .. k : b[i] = m[i]
    BY <1>1, <2>1, <2>2, <2>3, SubSeqProperties DEF Address
  <2>6. a = b
    <3>1. a \in Seq({1, 2}) /\ \A i \in 1 .. k : a[i] = m[i]
      BY <2>1 DEF Address, Beneath
    <3> QED BY <2>1, <2>5, <3>1, SeqEqual
  <2> QED BY <1>1, <2>4, <2>6
<1> QED BY <1>2, <1>3

LEMMA NodesAreAddresses ==
  ASSUME NEW t, IsTree(t), NEW n \in DOMAIN t
  PROVE  n \in Address
BY DEF IsTree, Address

LEMMA NotHasOneOperand ==
  ASSUME NEW t, IsTree(t), NEW n \in DOMAIN t, t[n] = "NOT", NEW m \in DOMAIN t
  PROVE  ~ Beneath(right(n), m)
<1>1. right(n) \in Address
  BY NodesAreAddresses, Children
<1>2. t[n] \in Ops
  BY DEF Ops
<1>3. right(n) \notin DOMAIN t
  BY <1>2 DEF IsTree
<1> QED BY <1>1, <1>3, NodesAbove

LEMMA LeavesAreNoErrors ==
  ASSUME NEW t, IsTree(t), NEW n \in DOMAIN t
  PROVE  t[n] \notin Errors
<1>1. t[n] \in Ops \cup Leaves
  BY DEF IsTree
<1> QED BY <1>1 DEF Ops, Leaves, Nums, Bools, Errors

(* An error below is one of the whole.                                     *)
LEMMA ErrorsRise ==
  ASSUME NEW t, IsTree(t), NEW n \in DOMAIN t, Reference(t)[n] \in Errors
  PROVE  Reference(t)[<<>>] \in Errors
<1>1. PICK v : v = Reference(t)
  OBVIOUS
<1>2. \A m \in DOMAIN t : v[m] = ValueOf(t, v, m)
  BY <1>1, ValueAt
<1> DEFINE S == {k \in Nat : \E m \in DOMAIN t : Len(m) = k /\ v[m] \in Errors}
<1>3. S \in SUBSET Nat /\ S # {}
  <2>1. Len(n) \in Nat
    BY NodesAreAddresses DEF Address
  <2> QED BY <1>1, <2>1
<1> HIDE DEF S
<1>4. PICK k \in S : \A j \in S : k <= j
  BY <1>3, LeastOne
<1>5. PICK m \in DOMAIN t : Len(m) = k /\ v[m] \in Errors
  BY <1>4 DEF S
<1>6. CASE m = <<>>
  BY <1>1, <1>5, <1>6
<1>7. CASE m # <<>>
  <2>1. m \in Address /\ k \in Nat
    BY <1>3, NodesAreAddresses
  <2>2. PICK a : a = SubSeq(m, 1, Len(m) - 1)
    OBVIOUS
  <2>3. a \in Address /\ (m = left(a) \/ m = right(a)) /\ Len(m) = Len(a) + 1
    BY <1>7, <2>1, <2>2, Parent
  <2>4. Beneath(a, m) /\ a # m
    BY <2>1, <2>3, ChildBelow, BeneathItself
  <2>5. a \in DOMAIN t /\ t[a] \in Ops
    BY <2>3, <2>4, NodesAbove
  <2>6. m = left(a) \/ m = second(t, a)
    <3>1. t[a] = "NOT" => m # right(a)
      BY <2>1, <2>5, BeneathItself, NotHasOneOperand
    <3> QED BY <2>3, <3>1 DEF second
  <2>7. v[a] = Valued(t[a], v[left(a)], v[second(t, a)])
    BY <1>2, <2>5 DEF ValueOf
  <2>8. v[a] \in Errors
    BY <1>5, <2>6, <2>7 DEF Valued
  <2>9. Len(a) \in Nat /\ Len(a) < k
    BY <1>5, <2>3 DEF Address
  <2>10. Len(a) \in S
    BY <2>5, <2>8, <2>9 DEF S
  <2> QED BY <1>4, <2>1, <2>9, <2>10
<1> QED BY <1>6, <1>7

----------------------------------------------------------------------------
(* Subtrees that are done, and subtrees that have not been entered.        *)

Settled(t, nd, n) ==
  \A m \in DOMAIN t : Beneath(n, m) =>
    /\ nd[m] = Reference(t)[m] /\ nd[m] \notin Errors
    /\ t[m] \in Ops => Len(m) <= StackSize
Unentered(t, nd, p, n) ==
  \A m \in DOMAIN t : Beneath(n, m) => nd[m] = t[m] /\ m # p

LEMMA LeafSettled ==
  ASSUME NEW t, IsTree(t), NEW n \in DOMAIN t, NEW nd, NEW p,
         Unentered(t, nd, p, n), t[n] \notin Ops
  PROVE  Settled(t, nd, n)
<1>1. n \in Address
  BY NodesAreAddresses
<1>2. ASSUME NEW m \in DOMAIN t, Beneath(n, m) PROVE m = n
  BY <1>1, <1>2, NodesAbove
<1>3. Reference(t)[n] = t[n]
  BY ValueAt DEF ValueOf
<1>4. nd[n] = t[n]
  BY <1>1, BeneathItself DEF Unentered
<1> QED BY <1>2, <1>3, <1>4, LeavesAreNoErrors DEF Settled

LEMMA BothSettled ==
  ASSUME NEW t, IsTree(t), NEW n \in DOMAIN t, NEW nd,
         Settled(t, nd, left(n)), Settled(t, nd, right(n)),
         nd[n] = Reference(t)[n], nd[n] \notin Errors, Len(n) <= StackSize
  PROVE  Settled(t, nd, n)
<1>1. n \in Address
  BY NodesAreAddresses
<1>2. ASSUME NEW m \in DOMAIN t, Beneath(n, m)
      PROVE  m = n \/ Beneath(left(n), m) \/ Beneath(right(n), m)
  BY <1>1, <1>2, NodesAreAddresses, BelowWhich
<1> QED BY <1>2 DEF Settled

LEMMA ValueOfBoth ==
  ASSUME NEW t, IsTree(t), NEW n \in DOMAIN t, NEW nd, t[n] \in Ops, nd[n] = t[n],
         Settled(t, nd, left(n)), Settled(t, nd, right(n))
  PROVE  Result(nd[n], nd[left(n)], nd[second(nd, n)]) = Reference(t)[n]
<1>1. left(n) \in DOMAIN t /\ second(t, n) \in DOMAIN t
  BY Operands
<1>2. left(n) \in Address /\ right(n) \in Address
  BY NodesAreAddresses, Children
<1>3. Beneath(left(n), left(n)) /\ Beneath(right(n), right(n))
  BY <1>2, BeneathItself
<1>4. nd[left(n)] = Reference(t)[left(n)] /\ nd[left(n)] \notin Errors
  BY <1>1, <1>3 DEF Settled
<1>5. nd[second(t, n)] = Reference(t)[second(t, n)] /\ nd[second(t, n)] \notin Errors
  <2>1. second(t, n) = left(n) \/ second(t, n) = right(n)
    BY DEF second
  <2> QED BY <1>1, <1>3, <2>1 DEF Settled
<1>6. second(nd, n) = second(t, n)
  BY DEF second
<1>7. Reference(t)[n] = Valued(t[n], Reference(t)[left(n)], Reference(t)[second(t, n)])
  BY ValueAt DEF ValueOf
<1> QED BY <1>4, <1>5, <1>6, <1>7 DEF Valued

(* What is computed elsewhere changes neither.                             *)
LEMMA SettledStays ==
  ASSUME NEW t, IsTree(t), NEW nd, NEW new, NEW e, \A m \in DOMAIN t : m # e => new[m] = nd[m],
         NEW n, Settled(t, nd, n), ~ Beneath(n, e)
  PROVE  Settled(t, new, n)
BY DEF Settled

LEMMA UnenteredStays ==
  ASSUME NEW t, IsTree(t), NEW nd, NEW new, NEW e, \A m \in DOMAIN t : m # e => new[m] = nd[m],
         NEW p, NEW n, Unentered(t, nd, p, n), ~ Beneath(n, e)
  PROVE  Unentered(t, new, e, n)
BY DEF Unentered

LEMMA UnenteredBelow ==
  ASSUME NEW t, IsTree(t), NEW nd, NEW p, NEW n \in Address, NEW c \in Address, Beneath(n, c),
         Unentered(t, nd, p, n)
  PROVE  Unentered(t, nd, p, c)
<1>1. \A m \in DOMAIN t : Beneath(c, m) => Beneath(n, m)
  BY NodesAreAddresses, BeneathPasses
<1> QED BY <1>1 DEF Unentered

----------------------------------------------------------------------------
(* The inductive invariant: what the walk leaves behind.                   *)

(* The stack holds the way to e.                                           *)
WayTo(s, e) ==
  /\ s \in Seq(Address) /\ Len(s) = Len(e)
  /\ \A i \in 1 .. Len(e) : Beneath(s[i], e) /\ Len(s[i]) = i - 1

(* The nodes on the way are operators that are still to be computed.       *)
OnTheWay(t, nd, e) ==
  \A a \in Address : Beneath(a, e) => a \in DOMAIN t /\ nd[a] = t[a] /\ t[a] \in Ops

(* To the left of the way everything is done, to the right nothing.        *)
Beside(t, nd, p, e) ==
  \A a \in DOMAIN t :
    /\ Beneath(left(a), e) => Unentered(t, nd, p, right(a))
    /\ Beneath(right(a), e) => Settled(t, nd, left(a))

(* Where the walk came back from tells what is done below e.               *)
AtNode(t, nd, p, e) ==
  /\ p = left(e) => Settled(t, nd, left(e)) /\ Unentered(t, nd, p, right(e))
  /\ p = right(e) => Settled(t, nd, left(e)) /\ Settled(t, nd, right(e))
  /\ p \notin {left(e), right(e)} =>
       Unentered(t, nd, p, left(e)) /\ Unentered(t, nd, p, right(e))

Walk(t, nd, p, e, s) ==
  /\ e \in DOMAIN t /\ p \in DOMAIN t /\ Len(e) <= StackSize
  /\ WayTo(s, e) /\ OnTheWay(t, nd, e) /\ Beside(t, nd, p, e) /\ AtNode(t, nd, p, e)

HasNodes(t, nd) == nd = [n \in DOMAIN t |-> nd[n]]

FoldInv ==
  /\ original \in Exprs /\ HasNodes(original, node)
  /\ status \in {"running", "done", "failed"}
  /\ status = "running" => Walk(original, node, prev, expr, stack)
  /\ status = "done" => Settled(original, node, <<>>)
  /\ status = "failed" => Reference(original)[<<>>] \in Errors \/ TooDeep

LEMMA Siblings ==
  ASSUME NEW a \in Address, NEW e \in Address
  PROVE  ~ (Beneath(left(a), e) /\ Beneath(right(a), e))
BY BeneathChild

(* The way to a child turns left where it did before, or at its parent.    *)
LEMMA TurnsOf ==
  ASSUME NEW e \in Address, NEW c, c = left(e) \/ c = right(e), NEW a \in Address
  PROVE  /\ Beneath(left(a), c) => (a = e /\ c = left(e)) \/ Beneath(left(a), e)
         /\ Beneath(right(a), c) => (a = e /\ c = right(e)) \/ Beneath(right(a), e)
<1>1. /\ c \in Address /\ Len(c) = Len(e) + 1 /\ Len(e) \in Nat /\ Len(a) \in Nat
      /\ \A i \in 1 .. Len(e) : c[i] = e[i]
      /\ c = left(e) => c[Len(e) + 1] = 1
      /\ c = right(e) => c[Len(e) + 1] = 2
  <2>1. e \in Seq({1, 2}) /\ Len(a) \in Nat
    BY DEF Address
  <2>2. /\ \A i \in 1 .. Len(e) : Append(e, 1)[i] = e[i] /\ Append(e, 2)[i] = e[i]
        /\ Append(e, 1)[Len(e) + 1] = 1 /\ Append(e, 2)[Len(e) + 1] = 2
    BY <2>1, AppendProperties
  <2> QED BY <2>1, <2>2, Children DEF left, right
<1>2. ASSUME Beneath(a, c), Len(a) < Len(c)
      PROVE  a = e \/ (Beneath(a, e) /\ Len(a) < Len(e) /\ c[Len(a) + 1] = e[Len(a) + 1])
  <2>1. Beneath(a, e)
    BY <1>1, <1>2, AboveChild
  <2>2. CASE Len(a) = Len(e)
    BY <2>1, <2>2, SameLength
  <2>3. CASE Len(a) # Len(e)
    <3>1. Len(a) < Len(e)
      BY <1>1, <2>1, <2>3 DEF Beneath
    <3>2. Len(a) + 1 \in 1 .. Len(e)
      BY <1>1, <3>1
    <3> QED BY <1>1, <2>1, <3>1, <3>2
  <2> QED BY <2>2, <2>3
<1>3. ASSUME Beneath(left(a), c) PROVE (a = e /\ c = left(e)) \/ Beneath(left(a), e)
  <2>1. Beneath(a, c) /\ Len(a) < Len(c) /\ c[Len(a) + 1] = 1
    BY <1>1, <1>3, BeneathChild
  <2>2. CASE a = e
    BY <1>1, <2>1, <2>2
  <2>3. CASE Beneath(a, e) /\ Len(a) < Len(e) /\ c[Len(a) + 1] = e[Len(a) + 1]
    BY <2>1, <2>3, BeneathChild
  <2> QED BY <1>2, <2>1, <2>2, <2>3
<1>4. ASSUME Beneath(right(a), c) PROVE (a = e /\ c = right(e)) \/ Beneath(right(a), e)
  <2>1. Beneath(a, c) /\ Len(a) < Len(c) /\ c[Len(a) + 1] = 2
    BY <1>1, <1>4, BeneathChild
  <2>2. CASE a = e
    BY <1>1, <2>1, <2>2
  <2>3. CASE Beneath(a, e) /\ Len(a) < Len(e) /\ c[Len(a) + 1] = e[Len(a) + 1]
    BY <2>1, <2>3, BeneathChild
  <2> QED BY <1>2, <2>1, <2>2, <2>3
<1> QED BY <1>3, <1>4

(* An operator that has not been entered is.                               *)
LEMMA EntersChild ==
  ASSUME NEW t, IsTree(t), NEW nd, NEW p, NEW e, NEW s, Walk(t, nd, p, e, s),
         Len(s) # StackSize,
         NEW c, c = left(e) \/ c = right(e), c \in DOMAIN t, t[c] \in Ops,
         Unentered(t, nd, p, right(e)),
         c = left(e) => Unentered(t, nd, p, left(e)),
         c = right(e) => Settled(t, nd, left(e))
  PROVE  Walk(t, nd, p, c, Append(s, e))
<1>1. /\ e \in Address /\ c \in Address /\ Len(c) = Len(e) + 1 /\ Len(e) \in Nat
      /\ Beneath(e, c) /\ ~ Beneath(c, e) /\ e \in DOMAIN t /\ p \in DOMAIN t
  BY NodesAreAddresses, Children, ChildBelow DEF Walk
<1>2. Len(c) <= StackSize
  BY <1>1, FoldingAssumption DEF Walk, WayTo, FoldingAssumption
<1>3. WayTo(Append(s, e), c)
  <2>1. /\ s \in Seq(Address) /\ Len(s) = Len(e)
        /\ \A i \in 1 .. Len(e) : Beneath(s[i], e) /\ Len(s[i]) = i - 1
    BY DEF Walk, WayTo
  <2>2. PICK r : r = Append(s, e)
    OBVIOUS
  <2>3. /\ r \in Seq(Address) /\ Len(r) = Len(c) /\ r[Len(e) + 1] = e
        /\ \A i \in 1 .. Len(e) : r[i] = s[i]
    BY <1>1, <2>1, <2>2, AppendProperties
  <2>4. \A i \in 1 .. Len(c) : Beneath(r[i], c) /\ Len(r[i]) = i - 1
    <3> TAKE i \in 1 .. Len(c)
    <3>1. CASE i = Len(e) + 1
      BY <1>1, <2>3, <3>1
    <3>2. CASE i # Len(e) + 1
      <4>1. i \in 1 .. Len(e)
        BY <1>1, <3>2
      <4>2. s[i] \in Address /\ Beneath(s[i], e) /\ Len(s[i]) = i - 1 /\ r[i] = s[i]
        BY <2>1, <2>3, <4>1
      <4>3. Beneath(s[i], c)
        BY <1>1, <4>2, BeneathPasses
      <4> QED BY <4>2, <4>3
    <3> QED BY <3>1, <3>2
  <2> QED BY <2>2, <2>3, <2>4 DEF WayTo
<1>4. Unentered(t, nd, p, c)
  OBVIOUS
<1>5. OnTheWay(t, nd, c)
  <2>1. nd[c] = t[c]
    BY <1>1, <1>4, BeneathItself DEF Unentered
  <2>2. \A a \in Address : Beneath(a, c) => a = c \/ Beneath(a, e)
    BY <1>1, AboveChild
  <2> QED BY <2>1, <2>2 DEF OnTheWay, Walk
<1>6. Beside(t, nd, p, c)
  <2>1. ASSUME NEW a \in DOMAIN t, Beneath(left(a), c) PROVE Unentered(t, nd, p, right(a))
    <3>1. a = e \/ Beneath(left(a), e)
      BY <1>1, <2>1, NodesAreAddresses, TurnsOf
    <3> QED BY <3>1 DEF Walk, Beside
  <2>2. ASSUME NEW a \in DOMAIN t, Beneath(right(a), c) PROVE Settled(t, nd, left(a))
    <3>1. (a = e /\ c = right(e)) \/ Beneath(right(a), e)
      BY <1>1, <2>2, NodesAreAddresses, TurnsOf
    <3> QED BY <3>1 DEF Walk, Beside
  <2> QED BY <2>1, <2>2 DEF Beside
<1>7. AtNode(t, nd, p, c)
  <2>1. /\ left(c) \in Address /\ right(c) \in Address
        /\ Beneath(c, left(c)) /\ Beneath(c, right(c))
    BY <1>1, ChildBelow
  <2>2. p # left(c) /\ p # right(c)
    BY <1>1, <1>4, <2>1 DEF Unentered
  <2>3. Unentered(t, nd, p, left(c)) /\ Unentered(t, nd, p, right(c))
    BY <1>1, <1>4, <2>1, UnenteredBelow
  <2> QED BY <2>2, <2>3 DEF AtNode
<1> QED BY <1>1, <1>2, <1>3, <1>5, <1>6, <1>7 DEF Walk

(* An operator that is done is left.                                       *)
LEMMA ReturnsUp ==
  ASSUME NEW t, IsTree(t), NEW nd, NEW p, NEW e, NEW s, Walk(t, nd, p, e, s), s # <<>>,
         NEW new, \A m \in DOMAIN t : m # e => new[m] = nd[m], Settled(t, new, e)
  PROVE  Walk(t, new, e, s[Len(s)], SubSeq(s, 1, Len(s) - 1))
<1>1. /\ e \in DOMAIN t /\ e \in Address /\ s \in Seq(Address) /\ Len(s) = Len(e)
      /\ \A i \in 1 .. Len(e) : Beneath(s[i], e) /\ Len(s[i]) = i - 1
  BY NodesAreAddresses DEF Walk, WayTo
<1>2. Len(s) \in 1 .. Len(s) /\ Len(s) \in Nat
  BY <1>1, EmptySeq
<1>3. PICK a : a = s[Len(s)]
  OBVIOUS
<1>4. a \in Address /\ Beneath(a, e) /\ Len(a) = Len(e) - 1 /\ Len(e) \in Nat
  BY <1>1, <1>2, <1>3
<1>5. e = left(a) \/ e = right(a)
  <2>1. e # a
    BY <1>4
  <2>2. Len(left(a)) = Len(e) /\ Len(right(a)) = Len(e) /\ left(a) \in Address /\ right(a) \in Address
    BY <1>4, Children
  <2>3. Beneath(left(a), e) \/ Beneath(right(a), e)
    BY <1>1, <1>4, <2>1, BelowWhich
  <2> QED BY <1>1, <2>2, <2>3, SameLength
<1>6. a \in DOMAIN t /\ Len(a) <= StackSize
  <2>1. a \in DOMAIN t
    BY <1>1, <1>4, NodesAbove
  <2>2. Len(e) <= StackSize /\ StackSize \in Nat
    BY FoldingAssumption DEF Walk, FoldingAssumption
  <2> QED BY <1>4, <2>1, <2>2
<1>7. WayTo(SubSeq(s, 1, Len(s) - 1), a)
  <2>1. PICK k \in Nat : k = Len(s) - 1
    BY <1>2
  <2>2. PICK r : r = SubSeq(s, 1, k)
    OBVIOUS
  <2>3. r \in Seq(Address) /\ Len(r) = k /\ \A i \in 1 .. k : r[i] = s[i]
    <3>1. \A i \in 1 .. k : s[i] \in Address
      BY <1>1, <1>2, <2>1
    <3> QED BY <2>1, <2>2, <3>1, SubSeqProperties
  <2>4. \A i \in 1 .. k : Beneath(r[i], a) /\ Len(r[i]) = i - 1
    <3> TAKE i \in 1 .. k
    <3>1. i \in 1 .. Len(e)
      BY <1>1, <2>1
    <3>2. s[i] \in Address /\ Beneath(s[i], e) /\ Len(s[i]) = i - 1 /\ r[i] = s[i]
      BY <1>1, <2>3, <3>1
    <3>3. s[i] # e
      BY <1>1, <2>1, <3>2
    <3>4. Beneath(s[i], a)
      BY <1>4, <1>5, <3>2, <3>3, AboveChild
    <3> QED BY <3>2, <3>4
  <2> QED BY <1>1, <1>4, <2>1, <2>2, <2>3, <2>4 DEF WayTo
<1>8. Beneath(a, e) /\ ~ Beneath(e, a)
  BY <1>4, <1>5, ChildBelow
<1>9. OnTheWay(t, new, a)
  <2>1. ASSUME NEW b \in Address, Beneath(b, a) PROVE b \in DOMAIN t /\ new[b] = t[b] /\ t[b] \in Ops
    <3>1. Beneath(b, e) /\ b # e
      BY <1>1, <1>4, <1>8, <2>1, BeneathPasses
    <3>2. b \in DOMAIN t /\ nd[b] = t[b] /\ t[b] \in Ops
      BY <3>1 DEF Walk, OnTheWay
    <3> QED BY <3>1, <3>2
  <2> QED BY <2>1 DEF OnTheWay
<1>10. ASSUME NEW b \in DOMAIN t
       PROVE  /\ Beneath(left(b), e) => Unentered(t, new, e, right(b))
              /\ Beneath(right(b), e) => Settled(t, new, left(b))
  <2>1. ~ (Beneath(left(b), e) /\ Beneath(right(b), e))
    BY <1>1, <1>10, NodesAreAddresses, Siblings
  <2>2. ASSUME Beneath(left(b), e) PROVE Unentered(t, new, e, right(b))
    <3>1. Unentered(t, nd, p, right(b)) /\ ~ Beneath(right(b), e)
      BY <1>10, <2>1, <2>2 DEF Walk, Beside
    <3> QED BY <3>1, UnenteredStays
  <2>3. ASSUME Beneath(right(b), e) PROVE Settled(t, new, left(b))
    <3>1. Settled(t, nd, left(b)) /\ ~ Beneath(left(b), e)
      BY <1>10, <2>1, <2>3 DEF Walk, Beside
    <3> QED BY <3>1, SettledStays
  <2> QED BY <2>2, <2>3
<1>11. Beside(t, new, e, a)
  <2>1. ASSUME NEW b \in DOMAIN t
        PROVE  /\ Beneath(left(b), a) => Beneath(left(b), e)
               /\ Beneath(right(b), a) => Beneath(right(b), e)
    <3>1. left(b) \in Address /\ right(b) \in Address
      BY <2>1, NodesAreAddresses, Children
    <3> QED BY <1>1, <1>4, <3>1, BeneathPasses
  <2> QED BY <1>10, <2>1 DEF Beside
<1>12. AtNode(t, new, e, a)
  <2>1. Beneath(e, e) /\ left(a) # right(a)
    BY <1>1, <1>4, BeneathItself, Children
  <2>2. CASE e = left(a)
    BY <1>6, <1>10, <2>1, <2>2 DEF AtNode
  <2>3. CASE e = right(a)
    BY <1>6, <1>10, <2>1, <2>3 DEF AtNode
  <2> QED BY <1>5, <2>2, <2>3
<1> QED BY <1>1, <1>3, <1>6, <1>7, <1>9, <1>11, <1>12 DEF Walk

----------------------------------------------------------------------------
(* The steps.                                                              *)

LEMMA GivenIsTree ==
  ASSUME original \in Exprs
  PROVE  IsTree(original) /\ StackSize \in Nat
BY FoldingAssumption DEF FoldingAssumption

LEMMA WalkBegins ==
  ASSUME FoldedInit
  PROVE  FoldInv
<1>1. original \in Exprs /\ original = node /\ expr = <<>> /\ prev = <<>> /\ stack = <<>>
      /\ status = IF IsOp(<<>>) THEN "running" ELSE "done"
  BY DEF FoldedInit, FoldInit
<1>2. IsTree(original) /\ StackSize \in Nat
  BY <1>1, GivenIsTree
<1>3. HasNodes(original, original) /\ <<>> \in DOMAIN original
  BY <1>2 DEF IsTree, HasNodes
<1>4. <<>> \in Address /\ Len(<<>>) = 0 /\ \A m \in Address : Beneath(<<>>, m)
  <2>1. <<>> \in Address /\ Len(<<>>) = 0
    BY DEF Address
  <2>2. \A m \in Address : Beneath(<<>>, m)
    BY BeneathItself
  <2> QED BY <2>1, <2>2
<1>5. CASE IsOp(<<>>)
  <2>1. original[<<>>] \in Ops
    BY <1>1, <1>5 DEF IsOp
  <2>2. left(<<>>) \in Address /\ right(<<>>) \in Address
        /\ ~ Beneath(left(<<>>), <<>>) /\ ~ Beneath(right(<<>>), <<>>)
        /\ <<>> # left(<<>>) /\ <<>> # right(<<>>)
    BY <1>4, ChildBelow, BeneathItself
  <2>3. Unentered(original, original, <<>>, left(<<>>)) /\ Unentered(original, original, <<>>, right(<<>>))
    BY <2>2 DEF Unentered
  <2>4. \A a \in Address : Beneath(a, <<>>) => a = <<>>
    <3> SUFFICES ASSUME NEW a \in Address, Beneath(a, <<>>) PROVE a = <<>>
      OBVIOUS
    <3>1. Len(a) = 0
      BY <1>4 DEF Beneath, Address
    <3> QED BY <3>1, EmptySeq DEF Address
  <2>5. WayTo(<<>>, <<>>)
    BY <1>4 DEF WayTo
  <2>6. OnTheWay(original, original, <<>>)
    BY <1>3, <2>1, <2>4 DEF OnTheWay
  <2>7. Beside(original, original, <<>>, <<>>)
    <3>1. ASSUME NEW a \in DOMAIN original
          PROVE  ~ Beneath(left(a), <<>>) /\ ~ Beneath(right(a), <<>>)
      <4>1. a \in Address
        BY <1>2, NodesAreAddresses
      <4>2. Len(left(a)) = Len(a) + 1 /\ Len(right(a)) = Len(a) + 1 /\ Len(a) \in Nat
        BY <4>1, Children
      <4> QED BY <1>4, <4>2 DEF Beneath
    <3> QED BY <3>1 DEF Beside
  <2>8. AtNode(original, original, <<>>, <<>>)
    BY <2>2, <2>3 DEF AtNode
  <2>9. Walk(original, original, <<>>, <<>>, <<>>)
    BY <1>2, <1>3, <1>4, <2>5, <2>6, <2>7, <2>8 DEF Walk
  <2> QED BY <1>1, <1>3, <1>5, <2>9 DEF FoldInv
<1>6. CASE ~ IsOp(<<>>)
  <2>1. original[<<>>] \notin Ops
    BY <1>1, <1>3, <1>6 DEF IsOp
  <2>2. ASSUME NEW m \in DOMAIN original PROVE m = <<>>
    BY <1>2, <1>4, <2>1, NodesAbove, NodesAreAddresses
  <2>3. original[<<>>] = Reference(original)[<<>>] /\ original[<<>>] \notin Errors
    BY <1>2, <1>3, <2>1, ValueAt, LeavesAreNoErrors DEF ValueOf
  <2>4. Settled(original, original, <<>>)
    BY <2>1, <2>2, <2>3 DEF Settled
  <2> QED BY <1>1, <1>3, <1>6, <2>4 DEF FoldInv
<1> QED BY <1>5, <1>6

(* An operand that is no operator is done.                                 *)
LEMMA OperandDone ==
  ASSUME original \in Exprs, HasNodes(original, node), NEW c \in DOMAIN original, ~ IsOp(c),
         Unentered(original, node, prev, c)
  PROVE  Settled(original, node, c)
<1>1. IsTree(original) /\ c \in Address
  BY GivenIsTree, NodesAreAddresses
<1>2. node[c] = original[c]
  BY <1>1, BeneathItself DEF Unentered
<1>3. DOMAIN node = DOMAIN original
  BY DEF HasNodes
<1>4. original[c] \notin Ops
  BY <1>2, <1>3 DEF IsOp
<1> QED BY <1>1, <1>4, LeafSettled

(* When the left operand needs no visit it is done.                        *)
LEMMA LeftDone ==
  ASSUME original \in Exprs, HasNodes(original, node), Walk(original, node, prev, expr, stack), ~ LeftFirst
  PROVE  /\ Settled(original, node, left(expr))
         /\ prev # right(expr) => Unentered(original, node, prev, right(expr))
<1>1. IsTree(original) /\ expr \in DOMAIN original /\ expr \in Address /\ left(expr) # right(expr)
  BY GivenIsTree, NodesAreAddresses, Children DEF Walk
<1>2. original[expr] \in Ops
  BY <1>1, BeneathItself DEF Walk, OnTheWay
<1>3. left(expr) \in DOMAIN original
  BY <1>1, <1>2, Operands
<1>4. CASE prev \in {left(expr), right(expr)}
  BY <1>1, <1>4 DEF Walk, AtNode
<1>5. CASE prev \notin {left(expr), right(expr)}
  <2>1. Unentered(original, node, prev, left(expr)) /\ Unentered(original, node, prev, right(expr))
    BY <1>5 DEF Walk, AtNode
  <2>2. ~ IsOp(left(expr))
    BY <1>5 DEF LeftFirst
  <2> QED BY <1>3, <2>1, <2>2, OperandDone
<1> QED BY <1>4, <1>5

LEMMA RightDone ==
  ASSUME original \in Exprs, HasNodes(original, node), Walk(original, node, prev, expr, stack), ~ LeftFirst,
         ~ RightNext
  PROVE  Settled(original, node, right(expr))
<1>1. IsTree(original) /\ expr \in DOMAIN original /\ expr \in Address
  BY GivenIsTree, NodesAreAddresses DEF Walk
<1>2. original[expr] \in Ops /\ node[expr] = original[expr]
  BY <1>1, BeneathItself DEF Walk, OnTheWay
<1>3. CASE prev = right(expr)
  BY <1>3 DEF Walk, AtNode
<1>4. CASE original[expr] = "NOT"
  BY <1>1, <1>4, NotHasOneOperand DEF Settled
<1>5. CASE prev # right(expr) /\ original[expr] # "NOT"
  <2>1. right(expr) \in DOMAIN original
    BY <1>1, <1>2, <1>5 DEF IsTree
  <2>2. ~ IsOp(right(expr))
    BY <1>2, <1>5 DEF RightNext
  <2>3. Unentered(original, node, prev, right(expr))
    BY <1>5, LeftDone
  <2> QED BY <2>1, <2>2, <2>3, OperandDone
<1> QED BY <1>3, <1>4, <1>5

(* What a push into a full or another stack does.                          *)
LEMMA PushKeepsInv ==
  ASSUME original \in Exprs, HasNodes(original, node), Walk(original, node, prev, expr, stack),
         status = "running", NEW c, c = left(expr) \/ c = right(expr), IsOp(c),
         Unentered(original, node, prev, right(expr)),
         c = left(expr) => Unentered(original, node, prev, left(expr)),
         c = right(expr) => Settled(original, node, left(expr)),
         stack_push(c), node' = node, prev' = prev, original' = original
  PROVE  FoldInv'
<1>1. IsTree(original) /\ StackSize \in Nat /\ DOMAIN node = DOMAIN original
  BY GivenIsTree DEF HasNodes
<1>2. c \in DOMAIN original /\ c \in Address /\ expr \in Address /\ Len(c) = Len(expr) + 1
  BY <1>1, NodesAreAddresses, Children DEF IsOp, Walk
<1>3. original[c] \in Ops
  <2>1. Unentered(original, node, prev, c)
    OBVIOUS
  <2>2. node[c] = original[c]
    BY <1>2, <2>1, BeneathItself DEF Unentered
  <2> QED BY <2>2 DEF IsOp
<1>4. CASE Full
  <2>1. status' = "failed"
    BY <1>4 DEF stack_push
  <2>2. Len(c) > StackSize
    BY <1>1, <1>2, <1>4 DEF Full, Walk, WayTo
  <2>3. TooDeep'
    BY <1>2, <1>3, <2>2 DEF TooDeep
  <2> QED BY <2>1, <2>3 DEF FoldInv
<1>5. CASE ~ Full
  <2>1. status' = "running" /\ stack' = Append(stack, expr) /\ expr' = c
    BY <1>5 DEF stack_push
  <2>2. Walk(original, node, prev, c, Append(stack, expr))
    BY <1>1, <1>2, <1>3, <1>5, EntersChild DEF Full
  <2>3. Walk(original, node, prev, expr, stack)'
    BY <2>1, <2>2
  <2> QED BY <2>1, <2>3 DEF FoldInv
<1> QED BY <1>4, <1>5

LEMMA DescendKeepsInv ==
  ASSUME FoldInv, Descend, original' = original
  PROVE  FoldInv'
<1>1. /\ original \in Exprs /\ HasNodes(original, node) /\ Walk(original, node, prev, expr, stack)
      /\ status = "running" /\ node' = node /\ prev' = prev
  BY DEF FoldInv, Descend
<1>2. expr \in Address /\ left(expr) # right(expr)
  BY <1>1, GivenIsTree, NodesAreAddresses, Children DEF Walk
<1>3. CASE LeftFirst /\ stack_push(left(expr))
  <2>1. prev \notin {left(expr), right(expr)} /\ IsOp(left(expr))
    BY <1>3 DEF LeftFirst
  <2>2. Unentered(original, node, prev, left(expr)) /\ Unentered(original, node, prev, right(expr))
    BY <1>1, <2>1 DEF Walk, AtNode
  <2> QED BY <1>1, <1>2, <1>3, <2>1, <2>2, PushKeepsInv
<1>4. CASE ~ LeftFirst /\ RightNext /\ stack_push(right(expr))
  <2>1. prev # right(expr) /\ IsOp(right(expr))
    BY <1>4 DEF RightNext
  <2>2. Settled(original, node, left(expr)) /\ Unentered(original, node, prev, right(expr))
    BY <1>1, <1>4, <2>1, LeftDone
  <2> QED BY <1>1, <1>2, <1>4, <2>1, <2>2, PushKeepsInv
<1> QED BY <1>3, <1>4 DEF Descend

LEMMA ComputeKeepsInv ==
  ASSUME FoldInv, Compute, original' = original
  PROVE  FoldInv'
<1>1. /\ original \in Exprs /\ HasNodes(original, node) /\ Walk(original, node, prev, expr, stack)
      /\ status = "running" /\ ~ LeftFirst /\ ~ RightNext
  BY DEF FoldInv, Compute
<1>2. /\ IsTree(original) /\ expr \in DOMAIN original /\ expr \in Address /\ Len(expr) <= StackSize
      /\ StackSize \in Nat
  BY <1>1, GivenIsTree, NodesAreAddresses DEF Walk
<1>3. original[expr] \in Ops /\ node[expr] = original[expr]
  BY <1>1, <1>2, BeneathItself DEF Walk, OnTheWay
<1>4. Settled(original, node, left(expr)) /\ Settled(original, node, right(expr))
  BY <1>1, LeftDone, RightDone
<1>5. PICK v : v = expression_calc_base_expr
  OBVIOUS
<1>6. v = Reference(original)[expr]
  BY <1>2, <1>3, <1>4, <1>5, ValueOfBoth DEF expression_calc_base_expr
<1>7. CASE v \in Errors
  <2>1. status' = "failed" /\ node' = node
    BY <1>5, <1>7 DEF Compute
  <2>2. Reference(original)[<<>>] \in Errors
    BY <1>2, <1>6, <1>7, ErrorsRise
  <2> QED BY <1>1, <2>1, <2>2 DEF FoldInv
<1>8. CASE v \notin Errors
  <2>1. /\ node' = [node EXCEPT ![expr] = v]
        /\ \/ stack = <<>> /\ status' = "done"
           \/ /\ stack # <<>> /\ prev' = expr /\ expr' = stack[Len(stack)]
              /\ stack' = SubSeq(stack, 1, Len(stack) - 1) /\ status' = "running"
    BY <1>1, <1>5, <1>8 DEF Compute, stack_pop
  <2>2. PICK new : new = [node EXCEPT ![expr] = v]
    OBVIOUS
  <2>3. /\ HasNodes(original, new) /\ new[expr] = v
        /\ \A m \in DOMAIN original : m # expr => new[m] = node[m]
    <3>1. node = [n \in DOMAIN original |-> node[n]]
      BY <1>1 DEF HasNodes
    <3>2. new = [n \in DOMAIN original |-> IF n = expr THEN v ELSE node[n]]
      BY <2>2, <3>1
    <3>3. \A n \in DOMAIN original : new[n] = IF n = expr THEN v ELSE node[n]
      BY <3>2
    <3> QED BY <1>2, <3>2, <3>3 DEF HasNodes
  <2>4. Settled(original, new, left(expr)) /\ Settled(original, new, right(expr))
    <3>1. ~ Beneath(left(expr), expr) /\ ~ Beneath(right(expr), expr)
      BY <1>2, ChildBelow
    <3> QED BY <1>2, <1>4, <2>3, <3>1, SettledStays
  <2>5. Settled(original, new, expr)
    BY <1>2, <1>6, <1>8, <2>3, <2>4, BothSettled
  <2>6. CASE stack = <<>> /\ status' = "done"
    <3>1. expr = <<>>
      <4>1. Len(expr) = 0
        BY <1>1, <2>6 DEF Walk, WayTo
      <4> QED BY <1>2, <4>1, EmptySeq DEF Address
    <3> QED BY <1>1, <2>1, <2>2, <2>3, <2>5, <2>6, <3>1 DEF FoldInv
  <2>7. CASE /\ stack # <<>> /\ prev' = expr /\ expr' = stack[Len(stack)]
             /\ stack' = SubSeq(stack, 1, Len(stack) - 1) /\ status' = "running"
    <3>1. Walk(original, new, expr, stack[Len(stack)], SubSeq(stack, 1, Len(stack) - 1))
      BY <1>1, <1>2, <2>3, <2>5, <2>7, ReturnsUp
    <3>2. Walk(original, node, prev, expr, stack)'
      BY <2>1, <2>2, <2>7, <3>1
    <3> QED BY <1>1, <2>1, <2>2, <2>3, <2>7, <3>2 DEF FoldInv
  <2> QED BY <2>1, <2>6, <2>7
<1> QED BY <1>7, <1>8

LEMMA WalkGoesOn ==
  ASSUME FoldInv, [FoldNext /\ UNCHANGED original]_foldingVars
  PROVE  FoldInv'
<1>1. CASE FoldNext /\ UNCHANGED original
  BY <1>1, DescendKeepsInv, ComputeKeepsInv DEF FoldNext
<1>2. CASE UNCHANGED foldingVars
  <2>1. /\ original' = original /\ node' = node /\ expr' = expr /\ prev' = prev
        /\ stack' = stack /\ status' = status
    BY <1>2 DEF foldingVars, foldVars
  <2> QED BY <2>1 DEF FoldInv, TooDeep
<1> QED BY <1>1, <1>2

(* The walk with its stack computes of every tree what a recursive reading *)
(* does, in place, and fails only for an error in a constant part or an    *)
(* operator deeper than the stack (expression.c:282-330).                  *)
THEOREM WalkComputesValues == FoldedSpec => []Folded
<1>1. FoldInv => Folded
  <2> SUFFICES ASSUME FoldInv PROVE Folded
    OBVIOUS
  <2>1. ASSUME status = "done"
        PROVE  (\A n \in DOMAIN original : node[n] = Reference(original)[n]) /\ ~ TooDeep
    <3>1. Settled(original, node, <<>>) /\ IsTree(original) /\ StackSize \in Nat
      BY <2>1, GivenIsTree DEF FoldInv
    <3>2. \A n \in DOMAIN original : Beneath(<<>>, n) /\ Len(n) \in Nat
      BY <3>1, NodesAreAddresses, BeneathItself DEF Address
    <3> QED BY <3>1, <3>2 DEF Settled, TooDeep
  <2>2. status = "failed" => Reference(original)[<<>>] \in Errors \/ TooDeep
    BY DEF FoldInv
  <2> QED BY <2>1, <2>2 DEF Folded
<1> QED BY <1>1, WalkBegins, WalkGoesOn, PTL DEF FoldedSpec

----------------------------------------------------------------------------
(* The tree while it is built.                                             *)

NodeSet == [op : AllOps \cup {"NOT", "x", "new"}, at : Nat, left : Nat, right : Nat,
            whole : BOOLEAN]
CallSet == [stmt : Nat, root : Nat, node_for_level : [Levels -> Nat], highest : {5, 255},
            next : {"start", "plus", "first", "arg", "op"},
            within : {"nothing", "NOT", "parentheses"}]

(* No node is above the first.                                             *)
Linked(t, n) == t[n].left \in {0} \cup 2 .. Len(t) /\ t[n].right \in {0} \cup 2 .. Len(t)
Heap(t) == t \in Seq(NodeSet) /\ Len(t) > 0 /\ \A n \in DOMAIN t : Linked(t, n)

(* What an operator has to its right binds less tightly.                   *)
Governs(nd) == nd.op \in BinOps \cup {"NOT"}
Argued(nd)  == IF nd.op = "NOT" THEN nd.left ELSE nd.right
Looser(m, n) == m.op \in BinOps /\ ~ m.whole /\ expr_op_level(m.op) > expr_op_level(n.op)

EdgeBinds(t, open, n) ==
  Governs(t[n]) => /\ Argued(t[n]) # 0
                   /\ Argued(t[n]) \in open \/ ~ Looser(t[Argued(t[n])], t[n])
EdgesBind(t, open) == \A n \in DOMAIN t : EdgeBinds(t, open, n)

(* What is around a call.                                                  *)
Within(c, t) ==
  /\ c.within = "nothing" => c.root = 1
  /\ c.within = "NOT" => c.highest = 5 /\ \A n \in DOMAIN t : t[n].right # c.root
  /\ c.within # "NOT" => c.highest = 255

(* What a call knows: an operator it has for a level is one of this level, *)
(* the root apart.                                                         *)
OfLevel(nd, l) == nd.op \in BinOps /\ expr_op_level(nd.op) = l /\ ~ nd.whole
Levelled(c, t) ==
  /\ c.root \in DOMAIN t
  /\ c.stmt \in c.root .. Len(t)
  /\ \A l \in Levels : c.node_for_level[l] \in c.root .. Len(t)
  /\ c.next \in {"start", "plus", "first"} =>
       c.stmt = c.root /\ \A l \in Levels : c.node_for_level[l] = c.root
  /\ c.next \in {"op", "arg"} => t[c.stmt].op \in BinOps
  /\ \A l \in Levels : c.node_for_level[l] # c.root => OfLevel(t[c.node_for_level[l]], l)

CallOK(c, t) == c \in CallSet /\ Within(c, t) /\ Levelled(c, t)

(* The nodes a call knows of come before the root of those inside it.      *)
Before(c, r) ==
  /\ c.root <= r
  /\ c.next \in {"first", "op"}
  /\ c.next = "op" => c.root < r /\ c.stmt < r /\ \A l \in Levels : c.node_for_level[l] < r
AllBefore(b, r) == \A i \in 1 .. Len(b) : Before(b[i], r)

CallsOK(cs, t) ==
  /\ cs \in Seq(CallSet)
  /\ \A i \in 1 .. Len(cs) : CallOK(cs[i], t)
  /\ \A i, j \in 1 .. Len(cs) : i < j => Before(cs[i], cs[j].root)

OpenRoots(cs) == {cs[i].root : i \in {j \in 1 .. Len(cs) : cs[j].within = "parentheses"}}
OpenRoot(c) == IF c.within = "parentheses" THEN {c.root} ELSE {}

(* The operand that is read next is the last node there is.                *)
Awaits(c, t) ==
  c.next = "arg" => /\ t[c.stmt].right = Len(t)
                    /\ c.root < Len(t) /\ c.stmt < Len(t)
                    /\ \A l \in Levels : c.node_for_level[l] < Len(t)

Building(b, c, t) ==
  /\ Heap(t) /\ CallsOK(b, t) /\ CallOK(c, t) /\ AllBefore(b, c.root) /\ Awaits(c, t)
  /\ EdgesBind(t, OpenRoots(b) \cup OpenRoot(c))

Lexems == BinOps \cup {"x", "(", ")", "NOT", "end"}

TreeInv ==
  /\ lexem \in Lexems /\ text \in Seq(Lexems)
  /\ saved_op \in BinOps \cup {"none"}
  /\ Heap(tree) /\ CallsOK(calls, tree) /\ EdgesBind(tree, OpenRoots(calls))
  /\ calls # <<>> => Awaits(Top, tree)

----------------------------------------------------------------------------
(* Operators and calls.                                                    *)

LEMMA OperatorLevels ==
  /\ \A op \in BinOps : op \in AllOps /\ op \notin {"NOT", "x", "new"}
  /\ \A op \in AllOps \cup {"NOT"} : expr_op_level(op) \in 1 .. 7
  /\ expr_op_level("-") = 2 /\ expr_op_level("NOT") = 5
<1>1. BinOps \subseteq AllOps
  BY ExprAssumption DEF ExprAssumption
<1>2. \A op \in AllOps \cup {"NOT"} : expr_op_level(op) \in 1 .. 7
  BY DEF expr_op_level, AllOps
<1>3. expr_op_level("-") = 2 /\ expr_op_level("NOT") = 5
  BY DEF expr_op_level
<1>4. \A op \in AllOps : op \notin {"NOT", "x", "new"}
  BY DEF AllOps
<1> QED BY <1>1, <1>2, <1>3, <1>4

LEMMA CallsAppended ==
  ASSUME NEW b \in Seq(CallSet), NEW c \in CallSet, NEW t
  PROVE  /\ CallsOK(Append(b, c), t) <=> CallsOK(b, t) /\ CallOK(c, t) /\ AllBefore(b, c.root)
         /\ OpenRoots(Append(b, c)) = OpenRoots(b) \cup OpenRoot(c)
<1>1. PICK a, n : a = Append(b, c) /\ n = Len(b)
  OBVIOUS
<1>2. /\ a \in Seq(CallSet) /\ n \in Nat /\ Len(a) = n + 1 /\ a[n + 1] = c
      /\ \A i \in 1 .. n : a[i] = b[i]
  BY <1>1
<1>3. 1 .. n + 1 = (1 .. n) \cup {n + 1}
  BY <1>2
<1>4. CallsOK(a, t) => CallsOK(b, t) /\ CallOK(c, t) /\ AllBefore(b, c.root)
  <2> SUFFICES ASSUME CallsOK(a, t) PROVE CallsOK(b, t) /\ CallOK(c, t) /\ AllBefore(b, c.root)
    OBVIOUS
  <2>1. /\ \A i \in 1 .. n : CallOK(b[i], t)
        /\ \A i, j \in 1 .. n : i < j => Before(b[i], b[j].root)
        /\ CallOK(c, t)
    BY <1>2, <1>3 DEF CallsOK
  <2>2. \A i \in 1 .. n : Before(b[i], c.root)
    <3> TAKE i \in 1 .. n
    <3>1. i \in 1 .. n + 1 /\ n + 1 \in 1 .. n + 1 /\ i < n + 1
      BY <1>2
    <3> QED BY <1>2, <3>1 DEF CallsOK
  <2> QED BY <1>1, <2>1, <2>2 DEF CallsOK, AllBefore
<1>5. CallsOK(b, t) /\ CallOK(c, t) /\ AllBefore(b, c.root) => CallsOK(a, t)
  <2> SUFFICES ASSUME CallsOK(b, t), CallOK(c, t), AllBefore(b, c.root) PROVE CallsOK(a, t)
    OBVIOUS
  <2>1. \A i \in 1 .. n + 1 : CallOK(a[i], t)
    BY <1>1, <1>2, <1>3 DEF CallsOK
  <2>2. \A i, j \in 1 .. n + 1 : i < j => Before(a[i], a[j].root)
    <3> TAKE i, j \in 1 .. n + 1
    <3> HAVE i < j
    <3>1. i \in 1 .. n
      BY <1>2
    <3>2. j \in 1 .. n \/ j = n + 1
      BY <1>2
    <3>3. CASE j = n + 1
      BY <1>1, <1>2, <3>1, <3>3 DEF AllBefore
    <3>4. CASE j \in 1 .. n
      BY <1>1, <1>2, <3>1, <3>4 DEF CallsOK
    <3> QED BY <3>2, <3>3, <3>4
  <2> QED BY <1>2, <2>1, <2>2 DEF CallsOK
<1>6. OpenRoots(a) = OpenRoots(b) \cup OpenRoot(c)
  BY <1>1, <1>2, <1>3 DEF OpenRoots, OpenRoot
<1> QED BY <1>1, <1>4, <1>5, <1>6

LEMMA CallsSplit ==
  ASSUME NEW cs \in Seq(CallSet), cs # <<>>
  PROVE  /\ SubSeq(cs, 1, Len(cs) - 1) \in Seq(CallSet) /\ cs[Len(cs)] \in CallSet
         /\ cs = Append(SubSeq(cs, 1, Len(cs) - 1), cs[Len(cs)])
<1>1. PICK n \in Nat : n = Len(cs) - 1
  BY EmptySeq
<1>2. Len(cs) = n + 1 /\ n <= Len(cs)
  BY <1>1
<1>3. /\ SubSeq(cs, 1, n) \in Seq(CallSet) /\ Len(SubSeq(cs, 1, n)) = n
      /\ \A i \in 1 .. n : SubSeq(cs, 1, n)[i] = cs[i]
  BY <1>2, SubSeqProperties
<1>4. cs[n + 1] \in CallSet
  BY <1>2
<1>5. PICK b : b = SubSeq(cs, 1, n)
  OBVIOUS
<1>6. /\ Append(b, cs[n + 1]) \in Seq(CallSet) /\ Len(Append(b, cs[n + 1])) = Len(cs)
      /\ \A i \in 1 .. Len(cs) : Append(b, cs[n + 1])[i] = cs[i]
  BY <1>2, <1>3, <1>4, <1>5
<1>7. Append(b, cs[n + 1]) = cs
  BY <1>6, SeqEqual
<1> QED BY <1>1, <1>2, <1>3, <1>4, <1>5, <1>7

(* What is done to a tree from node r on leaves the calls outside alone.   *)
Known(t, u, n) ==
  \/ u[n].right = 0
  \/ u[n].right > Len(t)
  \/ \E m \in DOMAIN t : u[n].right = t[m].right
Grows(t, u, r) ==
  /\ Len(t) <= Len(u)
  /\ \A n \in 1 .. r - 1 : u[n] = t[n]
  /\ \A n \in DOMAIN u : Known(t, u, n)

LEMMA WithinKept ==
  ASSUME NEW t, NEW u, NEW r \in Nat, NEW c, CallOK(c, t), Heap(t), Heap(u), Grows(t, u, r)
  PROVE  Within(c, u)
<1>1. c.root \in Nat /\ c.root # 0 /\ c.root <= Len(t) /\ Len(t) \in Nat
  BY DEF CallOK, Levelled, Heap
<1>2. ASSUME c.within = "NOT", NEW n \in DOMAIN u PROVE u[n].right # c.root
  BY <1>1, <1>2 DEF CallOK, Within, Grows, Known
<1> QED BY <1>2 DEF CallOK, Within

LEMMA CallKept ==
  ASSUME NEW t, NEW u, NEW r \in Nat, NEW c, CallOK(c, t), Before(c, r), Heap(t), Heap(u),
         Grows(t, u, r)
  PROVE  CallOK(c, u)
<1>1. Within(c, u)
  BY WithinKept
<1>2. /\ c \in CallSet /\ c.root \in Nat /\ c.stmt \in Nat /\ c.root # 0
      /\ \A l \in Levels : c.node_for_level[l] \in Nat
      /\ Len(t) \in Nat /\ Len(u) \in Nat /\ Len(t) <= Len(u)
      /\ DOMAIN t = 1 .. Len(t) /\ DOMAIN u = 1 .. Len(u)
  BY DEF CallOK, CallSet, Levelled, Heap, Grows
<1>3. /\ c.root \in DOMAIN u /\ c.stmt \in c.root .. Len(u)
      /\ \A l \in Levels : c.node_for_level[l] \in c.root .. Len(u)
      /\ c.next \in {"start", "plus", "first"} =>
           c.stmt = c.root /\ \A l \in Levels : c.node_for_level[l] = c.root
  BY <1>2 DEF CallOK, Levelled
<1>4. ASSUME c.next \in {"op", "arg"} PROVE u[c.stmt].op \in BinOps
  BY <1>2, <1>3, <1>4 DEF CallOK, Levelled, Before, Grows
<1>5. ASSUME NEW l \in Levels, c.node_for_level[l] # c.root
      PROVE  OfLevel(u[c.node_for_level[l]], l)
  <2>1. c.next = "op"
    BY <1>2, <1>3, <1>5 DEF Before
  <2>2. c.node_for_level[l] \in 1 .. r - 1
    BY <1>2, <1>3, <2>1 DEF Before
  <2> QED BY <1>5, <2>2 DEF CallOK, Levelled, Grows
<1> QED BY <1>1, <1>2, <1>3, <1>4, <1>5 DEF CallOK, Levelled

LEMMA CallsKept ==
  ASSUME NEW t, NEW u, NEW r \in Nat, NEW b, CallsOK(b, t), AllBefore(b, r), Heap(t), Heap(u),
         Grows(t, u, r)
  PROVE  CallsOK(b, u)
<1>1. \A i \in 1 .. Len(b) : CallOK(b[i], u)
  BY CallKept DEF CallsOK, AllBefore
<1> QED BY <1>1 DEF CallsOK

LEMMA BeforeLater ==
  ASSUME NEW b, NEW t, CallsOK(b, t), NEW r \in Nat, NEW s \in Nat, r <= s, AllBefore(b, r)
  PROVE  AllBefore(b, s)
<1>1. ASSUME NEW i \in 1 .. Len(b) PROVE Before(b[i], s)
  <2>1. PICK c : c = b[i] /\ c \in CallSet /\ Before(c, r)
    BY DEF CallsOK, CallOK, AllBefore
  <2>2. c.root \in Nat /\ c.stmt \in Nat /\ \A l \in Levels : c.node_for_level[l] \in Nat
    BY <2>1 DEF CallSet
  <2> QED BY <2>1, <2>2 DEF Before
<1> QED BY <1>1 DEF AllBefore

----------------------------------------------------------------------------
(* Edges.                                                                  *)

(* An edge stays sound when what is below it becomes no looser.            *)
NoLooser(a, b) ==
  b.op \in BinOps /\ ~ b.whole =>
    a.op \in BinOps /\ ~ a.whole /\ expr_op_level(b.op) = expr_op_level(a.op)

LEMMA EdgeKept ==
  ASSUME NEW t, NEW u, NEW open, NEW wide, NEW n, NEW k, EdgeBinds(t, open, n),
         u[k].op = t[n].op, Argued(u[k]) = Argued(t[n]),
         Argued(t[n]) \in open => Argued(t[n]) \in wide,
         Governs(t[n]) => NoLooser(t[Argued(t[n])], u[Argued(t[n])])
  PROVE  EdgeBinds(u, wide, k)
BY DEF EdgeBinds, Governs, Looser, NoLooser

(* Who refers to the root of a call.                                       *)
LEMMA RootEdge ==
  ASSUME NEW t, Heap(t), NEW c, CallOK(c, t), NEW n \in DOMAIN t, Governs(t[n]),
         Argued(t[n]) = c.root, NEW m, m.op \in BinOps => expr_op_level(m.op) <= c.highest
  PROVE  c.root \in OpenRoot(c) \/ ~ Looser(m, t[n])
<1>1. c \in CallSet /\ c.within \in {"nothing", "NOT", "parentheses"} /\ c.root # 0
  BY DEF CallOK, CallSet, Levelled, Heap
<1>2. Argued(t[n]) # 1
  BY DEF Heap, Linked, Argued
<1>3. CASE c.within = "parentheses"
  BY <1>3 DEF OpenRoot
<1>4. CASE c.within = "NOT"
  <2>1. t[n].op = "NOT" /\ c.highest = 5
    BY <1>4 DEF CallOK, Within, Argued
  <2>2. m.op \in BinOps => expr_op_level(m.op) \in Nat
    BY OperatorLevels
  <2> QED BY <2>1, <2>2, OperatorLevels DEF Looser
<1> QED BY <1>1, <1>2, <1>3, <1>4 DEF CallOK, Within

----------------------------------------------------------------------------
(* A change of node k, with nodes added behind.                            *)
Changed(t, u, k, nd) ==
  /\ u \in Seq(NodeSet) /\ Len(u) >= Len(t) /\ k \in 1 .. Len(t)
  /\ u[k] = nd
  /\ \A n \in 1 .. Len(t) : n # k => u[n] = t[n]
NewOnes(t, u, k) == {n \in DOMAIN u : n = k \/ n > Len(t)}

LEMMA ChangedHeap ==
  ASSUME NEW t, NEW u, NEW k, NEW nd, Heap(t), Changed(t, u, k, nd),
         \A n \in NewOnes(t, u, k) : Linked(u, n)
  PROVE  Heap(u)
<1>1. Len(t) \in Nat /\ Len(u) \in Nat /\ Len(t) <= Len(u) /\ DOMAIN u = 1 .. Len(u) /\ DOMAIN t = 1 .. Len(t)
  BY DEF Heap, Changed
<1>2. ASSUME NEW n \in DOMAIN u
      PROVE  Linked(u, n)
  <2>1. CASE n \in NewOnes(t, u, k)
    BY <2>1
  <2>2. CASE n \notin NewOnes(t, u, k)
    <3>1. n \in DOMAIN t /\ u[n] = t[n]
      BY <1>1, <2>2 DEF NewOnes, Changed
    <3> QED BY <1>1, <3>1 DEF Heap, Linked
  <2> QED BY <2>1, <2>2
<1> QED BY <1>2 DEF Heap, Changed

LEMMA CallsStay ==
  ASSUME NEW b, NEW c, NEW t, Building(b, c, t), NEW u, NEW k, NEW nd, Changed(t, u, k, nd), Heap(u),
         c.root <= k,
         \A n \in NewOnes(t, u, k) : Known(t, u, n)
  PROVE  CallsOK(b, u) /\ Within(c, u)
<1>1. Len(t) \in Nat /\ Len(u) \in Nat /\ Len(t) <= Len(u) /\ DOMAIN u = 1 .. Len(u)
      /\ DOMAIN t = 1 .. Len(t) /\ k \in 1 .. Len(t)
  BY DEF Building, Heap, Changed
<1>2. c.root \in Nat /\ c.root <= Len(t)
  BY <1>1 DEF Building, CallOK, CallSet, Levelled
<1>3. \A n \in 1 .. c.root - 1 : u[n] = t[n]
  BY <1>1, <1>2 DEF Changed
<1>4. ASSUME NEW n \in DOMAIN u
      PROVE  Known(t, u, n)
  <2>1. CASE n \in NewOnes(t, u, k)
    BY <2>1
  <2>2. CASE n \notin NewOnes(t, u, k)
    <3>1. n \in DOMAIN t /\ u[n] = t[n]
      BY <1>1, <2>2 DEF NewOnes, Changed
    <3> QED BY <3>1 DEF Known
  <2> QED BY <2>1, <2>2
<1>5. Grows(t, u, c.root)
  BY <1>1, <1>3, <1>4 DEF Grows
<1> QED BY <1>2, <1>5, CallsKept, WithinKept DEF Building

(* Nodes that are as they were, where they were or elsewhere.              *)
Gentle(c, t, k, nd) ==
  \/ NoLooser(t[k], nd)
  \/ k = c.root /\ (nd.op \in BinOps => expr_op_level(nd.op) <= c.highest)

LEMMA EdgeStays ==
  ASSUME NEW b, NEW c, NEW t, Building(b, c, t), NEW u, NEW k, NEW nd, Changed(t, u, k, nd),
         NEW wide, OpenRoots(b) \cup OpenRoot(c) \subseteq wide, Gentle(c, t, k, nd),
         NEW n \in DOMAIN t, NEW j, u[j] = t[n]
  PROVE  EdgeBinds(u, wide, j)
<1>1. Len(t) \in Nat /\ Len(u) \in Nat /\ Len(t) <= Len(u) /\ DOMAIN u = 1 .. Len(u)
      /\ DOMAIN t = 1 .. Len(t) /\ k \in 1 .. Len(t)
  BY DEF Building, Heap, Changed
<1> DEFINE open == OpenRoots(b) \cup OpenRoot(c)
<1>2. EdgeBinds(t, open, n)
  BY DEF Building, EdgesBind
<1>3. CASE ~ Governs(t[n])
  BY <1>3 DEF EdgeBinds, Governs
<1>4. CASE Governs(t[n]) /\ (Argued(t[n]) # k \/ NoLooser(t[k], nd))
  <2>1. Argued(t[n]) # 0 /\ Argued(t[n]) \in 1 .. Len(t)
    BY <1>1, <1>2, <1>4 DEF EdgeBinds, Building, Heap, Linked, Argued
  <2>2. NoLooser(t[Argued(t[n])], u[Argued(t[n])])
    BY <1>4, <2>1 DEF Changed, NoLooser
  <2>3. Argued(t[n]) \in open => Argued(t[n]) \in wide
    OBVIOUS
  <2> QED BY <1>2, <2>2, <2>3, EdgeKept
<1>5. CASE Governs(t[n]) /\ Argued(t[n]) = k /\ ~ NoLooser(t[k], nd)
  <2>1. c.root = k /\ (nd.op \in BinOps => expr_op_level(nd.op) <= c.highest)
    BY <1>5 DEF Gentle
  <2>2. c.root \in OpenRoot(c) \/ ~ Looser(nd, t[n])
    BY <1>5, <2>1, RootEdge DEF Building
  <2>3. Argued(u[j]) = k /\ u[k] = nd /\ k # 0
    BY <1>1, <1>5 DEF Changed
  <2> QED BY <2>1, <2>2, <2>3 DEF EdgeBinds
<1> QED BY <1>3, <1>4, <1>5

LEMMA EdgesStay ==
  ASSUME NEW b, NEW c, NEW t, Building(b, c, t), NEW u, NEW k, NEW nd, Changed(t, u, k, nd),
         NEW wide, OpenRoots(b) \cup OpenRoot(c) \subseteq wide, Gentle(c, t, k, nd),
         \A n \in NewOnes(t, u, k) : EdgeBinds(u, wide, n)
  PROVE  EdgesBind(u, wide)
<1>1. DOMAIN u = 1 .. Len(u) /\ DOMAIN t = 1 .. Len(t) /\ Len(t) \in Nat /\ Len(u) \in Nat
  BY DEF Building, Heap, Changed
<1>2. ASSUME NEW n \in DOMAIN u, n \notin NewOnes(t, u, k)
      PROVE  EdgeBinds(u, wide, n)
  <2>1. n \in DOMAIN t /\ u[n] = t[n]
    BY <1>1, <1>2 DEF NewOnes, Changed
  <2> QED BY <2>1, EdgeStays
<1> QED BY <1>2 DEF EdgesBind

----------------------------------------------------------------------------
(* The actions, of a tree t and the calls b and, innermost, c.             *)

LEMMA BuildingTypes ==
  ASSUME NEW b, NEW c, NEW t, Building(b, c, t)
  PROVE  /\ t \in Seq(NodeSet) /\ Len(t) \in Nat /\ DOMAIN t = 1 .. Len(t)
         /\ b \in Seq(CallSet) /\ c \in CallSet /\ c.root \in Nat /\ Heap(t)
         /\ c.root \in 1 .. Len(t) /\ c.stmt \in 1 .. Len(t) /\ c.root <= c.stmt
         /\ \A l \in Levels : c.node_for_level[l] \in 1 .. Len(t)
BY DEF Building, Heap, CallsOK, CallOK, CallSet, Levelled

LEMMA NodesAreNodes ==
  ASSUME NEW op \in AllOps \cup {"NOT", "x", "new"}, NEW at \in Nat, NEW l \in Nat, NEW r \in Nat
  PROVE  /\ Node(op, at, l, r) \in NodeSet
         /\ Node(op, at, l, r).op = op /\ Node(op, at, l, r).left = l /\ Node(op, at, l, r).right = r
         /\ Node(op, at, l, r).whole = FALSE
BY DEF Node, NodeSet

LEMMA NewIsNode == New \in NodeSet /\ New.op = "new" /\ New.left = 0 /\ New.right = 0
BY DEF Node, New, NodeSet

Replaced(t, k, nd) == [t EXCEPT ![k] = nd]

LEMMA ChangedOnly ==
  ASSUME NEW t \in Seq(NodeSet), NEW k \in 1 .. Len(t), NEW nd \in NodeSet,
         NEW u, u = Replaced(t, k, nd)
  PROVE  Changed(t, u, k, nd) /\ Len(u) = Len(t) /\ NewOnes(t, u, k) = {k}
<1>1. /\ u \in Seq(NodeSet) /\ Len(u) = Len(t) /\ Len(t) \in Nat /\ DOMAIN u = 1 .. Len(t) /\ u[k] = nd
      /\ \A n \in 1 .. Len(t) : n # k => u[n] = t[n]
  BY DEF Replaced
<1> QED BY <1>1 DEF Changed, NewOnes

Longer(s, a, v) ==
  v \in Seq(NodeSet) /\ Len(v) = Len(s) + 1 /\ v[Len(s) + 1] = a /\ \A n \in 1 .. Len(s) : v[n] = s[n]

LEMMA Appended ==
  ASSUME NEW s \in Seq(NodeSet), NEW a \in NodeSet, NEW v, v = Append(s, a)
  PROVE  Longer(s, a, v)
BY DEF Longer

TwoBehind(s, a, z, v) == v = Append(Append(s, a), z)

LEMMA BothAppended ==
  ASSUME NEW s \in Seq(NodeSet), NEW a \in NodeSet, NEW z \in NodeSet, NEW v, v = s \o <<a, z>>
  PROVE  TwoBehind(s, a, z, v)
BY DEF TwoBehind

ChangedByOne(t, u, k, nd, a) ==
  /\ Changed(t, u, k, nd) /\ Len(u) = Len(t) + 1 /\ u[Len(t) + 1] = a
  /\ NewOnes(t, u, k) = {k, Len(t) + 1}
ChangedByTwo(t, u, k, nd, a, z) ==
  /\ Changed(t, u, k, nd) /\ Len(u) = Len(t) + 2 /\ u[Len(t) + 1] = a /\ u[Len(t) + 2] = z
  /\ NewOnes(t, u, k) = {k, Len(t) + 1, Len(t) + 2}

LEMMA ChangedAppended ==
  ASSUME NEW t \in Seq(NodeSet), NEW k \in 1 .. Len(t), NEW nd \in NodeSet, NEW a \in NodeSet,
         NEW w, w = Replaced(t, k, nd), NEW u, u = Append(w, a)
  PROVE  ChangedByOne(t, u, k, nd, a)
<1>1. /\ w \in Seq(NodeSet) /\ Len(w) = Len(t) /\ Len(t) \in Nat /\ w[k] = nd
      /\ \A n \in 1 .. Len(t) : n # k => w[n] = t[n]
  BY DEF Replaced
<1>2. Longer(w, a, u)
  BY <1>1, Appended
<1>3. Changed(t, u, k, nd) /\ Len(u) = Len(t) + 1 /\ u[Len(t) + 1] = a /\ DOMAIN u = 1 .. Len(t) + 1
  BY <1>1, <1>2 DEF Longer, Changed
<1> QED BY <1>1, <1>3 DEF NewOnes, ChangedByOne

LEMMA ChangedTwice ==
  ASSUME NEW t \in Seq(NodeSet), NEW k \in 1 .. Len(t), NEW nd \in NodeSet, NEW a \in NodeSet,
         NEW z \in NodeSet, NEW w, w = Replaced(t, k, nd), NEW u, u = w \o <<a, z>>
  PROVE  ChangedByTwo(t, u, k, nd, a, z)
<1>1. /\ w \in Seq(NodeSet) /\ Len(w) = Len(t) /\ Len(t) \in Nat /\ w[k] = nd
      /\ \A n \in 1 .. Len(t) : n # k => w[n] = t[n]
  BY DEF Replaced
<1>2. TwoBehind(w, a, z, u)
  BY <1>1, BothAppended
<1>3. PICK v : v = Append(w, a) /\ u = Append(v, z)
  BY <1>2 DEF TwoBehind
<1>4. Longer(w, a, v)
  BY <1>1, <1>3, Appended
<1>5. v \in Seq(NodeSet)
  BY <1>4 DEF Longer
<1>6. Longer(v, z, u)
  BY <1>3, <1>5, Appended
<1>7. PICK len \in Nat : len = Len(t) /\ len = Len(w)
  BY <1>1
<1>8. /\ u \in Seq(NodeSet) /\ Len(u) = len + 2 /\ DOMAIN u = 1 .. len + 2
      /\ u[len + 1] = a /\ u[len + 2] = z /\ \A n \in 1 .. len : u[n] = w[n]
  BY <1>4, <1>6, <1>7 DEF Longer
<1>9. Changed(t, u, k, nd)
  BY <1>1, <1>7, <1>8 DEF Changed
<1>10. /\ \A n \in 1 .. len + 2 : n > len <=> n = len + 1 \/ n = len + 2
       /\ len + 1 \in 1 .. len + 2 /\ len + 2 \in 1 .. len + 2
  OBVIOUS
<1>12. k \in 1 .. len + 2
  BY <1>7
<1>11. NewOnes(t, u, k) = {k, len + 1, len + 2}
  BY <1>7, <1>8, <1>10, <1>12 DEF NewOnes
<1> QED BY <1>7, <1>8, <1>9, <1>11 DEF ChangedByTwo

(* A call c asks for an operand in node k and goes on as d.                *)
Asks(c, t, k, d) ==
  /\ c.next \in {"start", "plus", "arg"}
  /\ k = IF c.next = "arg" THEN t[c.stmt].right ELSE c.stmt
  /\ d = [c EXCEPT !.next = IF @ = "arg" THEN "op" ELSE "first"]

LEMMA AsksOutside ==
  ASSUME NEW b, NEW c, NEW t, Building(b, c, t), NEW k, NEW d, Asks(c, t, k, d)
  PROVE  /\ k \in 1 .. Len(t) /\ c.root <= k
         /\ c.next = "arg" => k = Len(t)
         /\ c.next # "arg" => k = c.root
         /\ d \in CallSet /\ d.root = c.root /\ d.stmt = c.stmt /\ d.within = c.within
         /\ d.highest = c.highest /\ d.node_for_level = c.node_for_level
         /\ d.next = IF c.next = "arg" THEN "op" ELSE "first"
         /\ OpenRoot(d) = OpenRoot(c)
         /\ Before(d, k)
<1>1. k \in 1 .. Len(t) /\ c.root <= k /\ (c.next = "arg" => k = Len(t)) /\ (c.next # "arg" => k = c.root)
  BY BuildingTypes DEF Asks, Building, Awaits, CallOK, Levelled
<1>2. /\ d \in CallSet /\ d.root = c.root /\ d.stmt = c.stmt /\ d.within = c.within /\ d.highest = c.highest
      /\ d.node_for_level = c.node_for_level /\ d.next = IF c.next = "arg" THEN "op" ELSE "first"
  <2>1. c \in CallSet
    BY BuildingTypes
  <2> QED BY <2>1 DEF CallSet, Asks
<1>3. OpenRoot(d) = OpenRoot(c)
  BY <1>2 DEF OpenRoot
<1>4. Before(d, k)
  BY <1>1, <1>2 DEF Before, Building, Awaits
<1> QED BY <1>1, <1>2, <1>3, <1>4

LEMMA AsksLevelled ==
  ASSUME NEW b, NEW c, NEW t, Building(b, c, t), NEW k, NEW d, Asks(c, t, k, d), NEW u,
         NEW nd, Changed(t, u, k, nd)
  PROVE  Levelled(d, u)
<1>0. /\ DOMAIN u = 1 .. Len(u) /\ Len(u) \in Nat /\ Len(t) <= Len(u)
      /\ \A n \in 1 .. Len(t) : n # k => u[n] = t[n]
  BY DEF Changed
<1>1. /\ k \in 1 .. Len(t) /\ c.root <= k /\ (c.next = "arg" => k = Len(t)) /\ (c.next # "arg" => k = c.root)
      /\ d.root = c.root /\ d.stmt = c.stmt /\ d.node_for_level = c.node_for_level
      /\ d.next = IF c.next = "arg" THEN "op" ELSE "first"
  BY AsksOutside
<1>2. /\ Len(t) \in Nat /\ c.stmt \in 1 .. Len(t) /\ c.root \in 1 .. Len(t)
      /\ \A l \in Levels : c.node_for_level[l] \in 1 .. Len(t)
  BY BuildingTypes
<1>3. CASE c.next = "arg"
  <2>1. /\ c.stmt # k /\ c.stmt \in 1 .. Len(t)
        /\ \A l \in Levels : c.node_for_level[l] # k /\ c.node_for_level[l] \in 1 .. Len(t)
    BY <1>1, <1>2, <1>3 DEF Building, Awaits
  <2>2. u[c.stmt] = t[c.stmt] /\ \A l \in Levels : u[c.node_for_level[l]] = t[c.node_for_level[l]]
    BY <1>0, <2>1
  <2> QED BY <1>0, <1>1, <1>2, <1>3, <2>2 DEF Building, CallOK, Levelled
<1>4. CASE c.next # "arg"
  <2>1. c.stmt = c.root /\ \A l \in Levels : c.node_for_level[l] = c.root
    BY <1>4 DEF Asks, Building, CallOK, Levelled
  <2> QED BY <1>0, <1>1, <1>2, <1>4, <2>1 DEF Levelled
<1> QED BY <1>3, <1>4

LEMMA ArgumentKeeps ==
  ASSUME NEW b, NEW c, NEW t, Building(b, c, t), NEW k, NEW d, Asks(c, t, k, d),
         NEW at \in Nat, NEW u, NEW nd, nd = Node("x", at, 0, 0), Changed(t, u, k, nd),
         Len(u) = Len(t), NewOnes(t, u, k) = {k}
  PROVE  Building(b, d, u)
<1>1. k \in 1 .. Len(t) /\ c.root <= k
  BY AsksOutside
<1>3. nd.op = "x" /\ nd.left = 0 /\ nd.right = 0
  BY DEF Node
<1>5. u[k] = nd
  BY DEF Changed
<1>6. Heap(u)
  <2>1. \A n \in NewOnes(t, u, k) : Linked(u, n)
    BY <1>3, <1>5 DEF Linked
  <2>2. Heap(t)
    BY DEF Building
  <2> QED BY <2>1, <2>2, ChangedHeap
<1>7. CallsOK(b, u) /\ Within(c, u)
  <2>1. \A n \in NewOnes(t, u, k) : Known(t, u, n)
    BY <1>3, <1>5 DEF Known
  <2> QED BY <1>1, <1>6, <2>1, CallsStay
<1>8. /\ d \in CallSet /\ d.root = c.root /\ d.within = c.within /\ d.highest = c.highest
      /\ d.next = (IF c.next = "arg" THEN "op" ELSE "first") /\ OpenRoot(d) = OpenRoot(c)
  BY AsksOutside
<1>9. Levelled(d, u)
  BY AsksLevelled
<1>10. CallOK(d, u)
  BY <1>7, <1>8, <1>9 DEF CallOK, Within
<1>11. EdgesBind(u, OpenRoots(b) \cup OpenRoot(d))
  <2>2. Gentle(c, t, k, nd)
    BY <1>3, OperatorLevels DEF NoLooser, Gentle
  <2>3. EdgeBinds(u, OpenRoots(b) \cup OpenRoot(c), k)
    BY <1>3, <1>5, OperatorLevels DEF EdgeBinds, Governs
  <2>4. \A n \in NewOnes(t, u, k) : EdgeBinds(u, OpenRoots(b) \cup OpenRoot(c), n)
    BY <1>5, <2>3
  <2> QED BY <1>8, <2>2, <2>4, EdgesStay
<1>12. AllBefore(b, d.root) /\ Awaits(d, u)
  BY <1>8 DEF Building, Awaits
<1> QED BY <1>6, <1>7, <1>10, <1>11, <1>12 DEF Building

(* A call that begins at node k.                                           *)
LEMMA CallBegins ==
  ASSUME NEW u, Heap(u), NEW k \in DOMAIN u, NEW highest \in {5, 255}, NEW within \in {"NOT", "parentheses"},
         NEW e, e = Activation(k, highest, within), within = "NOT" <=> highest = 5,
         within = "NOT" => \A n \in DOMAIN u : u[n].right # k
  PROVE  CallOK(e, u) /\ e \in CallSet /\ e.root = k /\ e.within = within /\ Awaits(e, u)
<1>1. k \in Nat /\ k \in k .. Len(u)
  BY DEF Heap
<1>2. /\ e \in CallSet /\ e.root = k /\ e.stmt = k /\ e.within = within /\ e.highest = highest
      /\ e.next = "start" /\ \A l \in Levels : e.node_for_level[l] = k
  BY <1>1 DEF Activation, CallSet
<1> QED BY <1>1, <1>2 DEF CallOK, Within, Levelled, Awaits

LEMMA MoreOpen ==
  ASSUME NEW t, NEW open, NEW wide, EdgesBind(t, open), open \subseteq wide
  PROVE  EdgesBind(t, wide)
BY DEF EdgesBind, EdgeBinds

LEMMA SubexpressionKeeps ==
  ASSUME NEW b, NEW c, NEW t, Building(b, c, t), NEW k, NEW d, Asks(c, t, k, d),
         NEW e, e = Activation(k, 255, "parentheses")
  PROVE  Building(Append(b, d), e, t)
<1>1. /\ k \in 1 .. Len(t) /\ c.root <= k /\ Before(d, k) /\ d \in CallSet /\ d.root = c.root
      /\ d.within = c.within /\ d.highest = c.highest /\ OpenRoot(d) = OpenRoot(c)
  BY AsksOutside
<1>2. Heap(t) /\ Len(t) \in Nat /\ DOMAIN t = 1 .. Len(t) /\ b \in Seq(CallSet) /\ c.root \in Nat
  BY BuildingTypes
<1>3. CallOK(d, t)
  <2>1. Changed(t, t, k, t[k])
    BY <1>1, <1>2 DEF Changed, Heap
  <2>2. Levelled(d, t)
    BY <2>1, AsksLevelled
  <2> QED BY <1>1, <2>2 DEF CallOK, Within, Building
<1>4. CallOK(e, t) /\ e \in CallSet /\ e.root = k /\ e.within = "parentheses" /\ Awaits(e, t)
  BY <1>1, <1>2, CallBegins
<1>5. CallsOK(b, t) /\ AllBefore(b, d.root)
  BY <1>1 DEF Building
<1>6. CallsOK(Append(b, d), t) /\ OpenRoots(Append(b, d)) = OpenRoots(b) \cup OpenRoot(d)
  BY <1>1, <1>2, <1>3, <1>5, CallsAppended
<1>7. AllBefore(Append(b, d), e.root)
  <2>1. AllBefore(b, k)
    BY <1>1, <1>2, <1>5, BeforeLater
  <2> QED BY <1>1, <1>2, <1>4, <2>1 DEF AllBefore
<1>8. EdgesBind(t, OpenRoots(Append(b, d)) \cup OpenRoot(e))
  BY <1>1, <1>6, MoreOpen DEF Building
<1> QED BY <1>2, <1>4, <1>6, <1>7, <1>8 DEF Building

LEMMA NegationKeeps ==
  ASSUME NEW b, NEW c, NEW t, Building(b, c, t), NEW k, NEW d, Asks(c, t, k, d),
         NEW at \in Nat, NEW fresh, fresh = Len(t) + 1,
         NEW nd, nd = Node("NOT", at, fresh, 0), NEW u, Changed(t, u, k, nd), Len(u) = fresh,
         u[fresh] = New, NewOnes(t, u, k) = {k, fresh},
         NEW e, e = Activation(fresh, 5, "NOT")
  PROVE  Building(Append(b, d), e, u)
<1>1. /\ k \in 1 .. Len(t) /\ c.root <= k /\ Before(d, k) /\ d \in CallSet /\ d.root = c.root
      /\ d.within = c.within /\ d.highest = c.highest /\ OpenRoot(d) = OpenRoot(c)
  BY AsksOutside
<1>2. /\ Heap(t) /\ Len(t) \in Nat /\ DOMAIN t = 1 .. Len(t) /\ b \in Seq(CallSet) /\ c.root \in Nat
      /\ t \in Seq(NodeSet) /\ fresh \in Nat
  BY BuildingTypes
<1>4. nd.op = "NOT" /\ nd.left = fresh /\ nd.right = 0
  BY DEF Node
<1>5. /\ DOMAIN u = 1 .. fresh /\ u[k] = nd
      /\ \A n \in 1 .. Len(t) : n # k => u[n] = t[n]
  BY DEF Changed
<1>6. u[fresh].op = "new" /\ u[fresh].left = 0 /\ u[fresh].right = 0
  BY NewIsNode
<1>7. Heap(u)
  <2>1. \A n \in NewOnes(t, u, k) : Linked(u, n)
    BY <1>1, <1>2, <1>4, <1>5, <1>6 DEF Linked
  <2> QED BY <1>2, <2>1, ChangedHeap
<1>8. CallsOK(b, u) /\ Within(c, u)
  <2>1. \A n \in NewOnes(t, u, k) : Known(t, u, n)
    BY <1>4, <1>5, <1>6 DEF Known
  <2> QED BY <1>1, <1>7, <2>1, CallsStay
<1>9. CallOK(d, u)
  <2>1. Levelled(d, u)
    BY AsksLevelled
  <2> QED BY <1>1, <1>8, <2>1 DEF CallOK, Within
<1>10. CallOK(e, u) /\ e \in CallSet /\ e.root = fresh /\ e.within = "NOT" /\ Awaits(e, u)
  <2>1. \A n \in DOMAIN u : u[n].right # fresh
    <3> TAKE n \in DOMAIN u
    <3>1. CASE n \in {k, fresh}
      BY <1>2, <1>4, <1>5, <1>6, <3>1
    <3>2. CASE n \notin {k, fresh}
      BY <1>2, <1>5, <3>2 DEF Heap, Linked
    <3> QED BY <3>1, <3>2
  <2> QED BY <1>2, <1>5, <1>7, <2>1, CallBegins, SMTT(60)
<1>11. CallsOK(b, t) /\ AllBefore(b, d.root)
  BY <1>1 DEF Building
<1>12. CallsOK(Append(b, d), u) /\ OpenRoots(Append(b, d)) = OpenRoots(b) \cup OpenRoot(d)
  BY <1>1, <1>2, <1>8, <1>9, <1>11, CallsAppended
<1>13. AllBefore(Append(b, d), e.root)
  <2>1. AllBefore(b, fresh)
    BY <1>1, <1>2, <1>11, BeforeLater
  <2>2. Before(d, fresh)
    <3>1. d.root \in Nat /\ d.stmt \in Nat /\ \A l \in Levels : d.node_for_level[l] \in Nat
      BY <1>1 DEF CallSet
    <3> QED BY <1>1, <1>2, <3>1 DEF Before
  <2> QED BY <1>1, <1>2, <1>10, <2>1, <2>2 DEF AllBefore
<1>14. EdgesBind(u, OpenRoots(Append(b, d)) \cup OpenRoot(e))
  <2>1. Gentle(c, t, k, nd)
    BY <1>4, OperatorLevels DEF NoLooser, Gentle
  <2>2. EdgeBinds(u, OpenRoots(b) \cup OpenRoot(c), k)
    BY <1>2, <1>4, <1>5, <1>6, OperatorLevels DEF EdgeBinds, Argued, Looser
  <2>3. EdgeBinds(u, OpenRoots(b) \cup OpenRoot(c), fresh)
    BY <1>6, OperatorLevels DEF EdgeBinds, Governs
  <2>4. EdgesBind(u, OpenRoots(b) \cup OpenRoot(c))
    <3>1. \A n \in NewOnes(t, u, k) : EdgeBinds(u, OpenRoots(b) \cup OpenRoot(c), n)
      BY <2>2, <2>3
    <3> QED BY <2>1, <3>1, EdgesStay
  <2> QED BY <1>1, <1>12, <2>4, MoreOpen
<1> QED BY <1>7, <1>10, <1>12, <1>13, <1>14 DEF Building

(* A call c puts an operator of a level into node m and goes on as d.      *)
Places(c, d, m, level) ==
  /\ d \in CallSet /\ d.root = c.root /\ d.stmt = m /\ d.next = "arg"
  /\ d.within = c.within /\ d.highest = c.highest
  /\ d.node_for_level[level] = m
  /\ \A l \in Levels : l # level => d.node_for_level[l] = c.node_for_level[l]

LEMMA AboveKeeps ==
  ASSUME NEW b, NEW c, NEW t, Building(b, c, t), NEW op \in BinOps, NEW level,
         level = expr_op_level(op), level <= c.highest,
         NEW k, k = c.root \/ k = c.node_for_level[level], NEW len, len = Len(t),
         NEW nd, nd.op = op, nd.left = len + 1, nd.right = len + 2, nd.whole = FALSE,
         NEW u, Changed(t, u, k, nd), Len(u) = len + 2, NewOnes(t, u, k) = {k, len + 1, len + 2},
         \/ u[len + 1] = t[k]
         \/ u[len + 1].op = "x" /\ u[len + 1].left = 0 /\ u[len + 1].right = 0,
         u[len + 2].op = "new", u[len + 2].left = 0, u[len + 2].right = 0,
         NEW d, Places(c, d, k, level)
  PROVE  Building(b, d, u)
<1>1. /\ len \in Nat /\ DOMAIN t = 1 .. len /\ Heap(t)
      /\ c.root \in 1 .. len /\ c.stmt \in 1 .. len
      /\ \A l \in Levels : c.node_for_level[l] \in 1 .. len
  BY BuildingTypes
<1>2. level \in Levels /\ c.root <= k /\ k \in 1 .. len
  <2>1. level \in Levels
    BY OperatorLevels DEF Levels
  <2>2. c.node_for_level[level] \in c.root .. len
    BY <2>1 DEF Building, CallOK, Levelled
  <2> QED BY <1>1, <2>1, <2>2
<1>3. DOMAIN u = 1 .. len + 2 /\ u[k] = nd /\ \A n \in 1 .. len : n # k => u[n] = t[n]
  BY <1>1 DEF Changed
<1>4. k # c.root => OfLevel(t[k], level)
  BY <1>2 DEF Building, CallOK, Levelled
<1>5. Heap(u)
  <2>1. Linked(u, k) /\ Linked(u, len + 2)
    BY <1>1, <1>3 DEF Linked
  <2>2. Linked(u, len + 1)
    BY <1>1, <1>2 DEF Linked, Heap
  <2>3. \A n \in NewOnes(t, u, k) : Linked(u, n)
    BY <2>1, <2>2
  <2> QED BY <1>1, <2>3, ChangedHeap
<1>6. CallsOK(b, u) /\ Within(c, u)
  <2>1. Known(t, u, k) /\ Known(t, u, len + 2)
    BY <1>1, <1>3 DEF Known
  <2>2. Known(t, u, len + 1)
    BY <1>1, <1>2 DEF Known
  <2>3. \A n \in NewOnes(t, u, k) : Known(t, u, n)
    BY <2>1, <2>2
  <2> QED BY <1>2, <1>5, <2>3, CallsStay
<1>7. Levelled(d, u)
  <2>1. ASSUME NEW l \in Levels, d.node_for_level[l] # d.root
        PROVE  OfLevel(u[d.node_for_level[l]], l)
    <3>1. CASE l = level
      BY <1>3, <3>1 DEF OfLevel, Places
    <3>2. CASE l # level
      <4>1. PICK m : m = c.node_for_level[l] /\ m = d.node_for_level[l] /\ m # c.root /\ m \in 1 .. len
        BY <1>1, <2>1, <3>2 DEF Places
      <4>2. OfLevel(t[m], l)
        BY <4>1 DEF Building, CallOK, Levelled
      <4>3. m # k
        BY <1>4, <3>2, <4>1, <4>2 DEF OfLevel
      <4> QED BY <1>3, <4>1, <4>2, <4>3
    <3> QED BY <3>1, <3>2
  <2>2. \A l \in Levels : d.node_for_level[l] \in c.root .. len
    BY <1>1, <1>2 DEF Places, Building, CallOK, Levelled
  <2> QED BY <1>1, <1>2, <1>3, <2>1, <2>2 DEF Levelled, Places
<1>8. CallOK(d, u)
  BY <1>6, <1>7 DEF CallOK, Within, Places
<1>9. Awaits(d, u)
  BY <1>1, <1>2, <1>3, SMTT(60) DEF Awaits, Places
<1>10. OpenRoot(d) = OpenRoot(c) /\ AllBefore(b, d.root)
  BY DEF OpenRoot, Places, Building
<1>11. EdgesBind(u, OpenRoots(b) \cup OpenRoot(c))
  <2>1. Gentle(c, t, k, nd)
    BY <1>4 DEF Gentle, NoLooser, OfLevel
  <2>2. EdgeBinds(u, OpenRoots(b) \cup OpenRoot(c), k)
    BY <1>1, <1>3, OperatorLevels DEF EdgeBinds, Argued, Looser
  <2>3. EdgeBinds(u, OpenRoots(b) \cup OpenRoot(c), len + 1)
    <3>1. CASE u[len + 1] = t[k]
      BY <1>1, <1>2, <2>1, <3>1, EdgeStays
    <3>2. CASE u[len + 1].op = "x"
      BY <3>2, OperatorLevels DEF EdgeBinds, Governs
    <3> QED BY <3>1, <3>2
  <2>4. EdgeBinds(u, OpenRoots(b) \cup OpenRoot(c), len + 2)
    BY OperatorLevels DEF EdgeBinds, Governs
  <2>5. \A n \in NewOnes(t, u, k) : EdgeBinds(u, OpenRoots(b) \cup OpenRoot(c), n)
    BY <2>2, <2>3, <2>4
  <2> QED BY <2>1, <2>5, EdgesStay
<1> QED BY <1>5, <1>6, <1>8, <1>9, <1>10, <1>11 DEF Building

LEMMA UnderKeeps ==
  ASSUME NEW b, NEW c, NEW t, Building(b, c, t), NEW op \in BinOps, NEW level,
         level = expr_op_level(op), NEW k, k = c.stmt, t[k].op \in BinOps,
         ~ (expr_op_level(t[k].op) < level), NEW len, len = Len(t),
         NEW nd, nd.op = t[k].op, nd.left = t[k].left, nd.right = len + 1, nd.whole = t[k].whole,
         NEW u, Changed(t, u, k, nd), Len(u) = len + 2, NewOnes(t, u, k) = {k, len + 1, len + 2},
         u[len + 1].op = op, u[len + 1].left = t[k].right, u[len + 1].right = len + 2,
         u[len + 1].whole = FALSE,
         u[len + 2].op = "new", u[len + 2].left = 0, u[len + 2].right = 0,
         NEW d, Places(c, d, len + 1, level)
  PROVE  Building(b, d, u)
<1>1. /\ len \in Nat /\ DOMAIN t = 1 .. len /\ Heap(t)
      /\ c.root \in 1 .. len /\ c.stmt \in 1 .. len /\ c.root <= k /\ k \in 1 .. len
      /\ \A l \in Levels : c.node_for_level[l] \in 1 .. len
  BY BuildingTypes
<1>2. level \in Levels
  BY OperatorLevels DEF Levels
<1>3. DOMAIN u = 1 .. len + 2 /\ u[k] = nd /\ \A n \in 1 .. len : n # k => u[n] = t[n]
  BY <1>1 DEF Changed
<1>4. \A n \in 1 .. len : u[n].op = t[n].op /\ u[n].whole = t[n].whole
  BY <1>3
<1>5. Heap(u)
  <2>1. Linked(u, k) /\ Linked(u, len + 2) /\ Linked(u, len + 1)
    BY <1>1, <1>3 DEF Linked, Heap
  <2>2. \A n \in NewOnes(t, u, k) : Linked(u, n)
    BY <2>1
  <2> QED BY <1>1, <2>2, ChangedHeap
<1>6. CallsOK(b, u) /\ Within(c, u)
  <2>1. Known(t, u, k) /\ Known(t, u, len + 2) /\ Known(t, u, len + 1)
    BY <1>1, <1>3 DEF Known
  <2>2. \A n \in NewOnes(t, u, k) : Known(t, u, n)
    BY <2>1
  <2> QED BY <1>1, <1>5, <2>2, CallsStay
<1>7. Levelled(d, u)
  <2>1. ASSUME NEW l \in Levels, d.node_for_level[l] # d.root
        PROVE  OfLevel(u[d.node_for_level[l]], l)
    <3>1. CASE l = level
      BY <3>1 DEF OfLevel, Places
    <3>2. CASE l # level
      <4>1. PICK m : m = c.node_for_level[l] /\ m = d.node_for_level[l] /\ m # c.root /\ m \in 1 .. len
        BY <1>1, <2>1, <3>2 DEF Places
      <4>2. OfLevel(t[m], l)
        BY <4>1 DEF Building, CallOK, Levelled
      <4> QED BY <1>4, <4>1, <4>2 DEF OfLevel
    <3> QED BY <3>1, <3>2
  <2>2. \A l \in Levels : d.node_for_level[l] \in c.root .. len + 1
    BY <1>1, <1>2 DEF Places, Building, CallOK, Levelled
  <2> QED BY <1>1, <1>2, <1>3, <2>1, <2>2 DEF Levelled, Places
<1>8. CallOK(d, u)
  BY <1>6, <1>7 DEF CallOK, Within, Places
<1>9. Awaits(d, u)
  BY <1>1, <1>2, <1>3 DEF Awaits, Places
<1>10. OpenRoot(d) = OpenRoot(c) /\ AllBefore(b, d.root)
  BY DEF OpenRoot, Places, Building
<1>11. EdgesBind(u, OpenRoots(b) \cup OpenRoot(c))
  <2>1. Gentle(c, t, k, nd)
    BY DEF Gentle, NoLooser
  <2>2. EdgeBinds(u, OpenRoots(b) \cup OpenRoot(c), k)
    <3>1. Argued(u[k]) = len + 1 /\ len + 1 # 0
      BY <1>1, <1>3, OperatorLevels DEF Argued
    <3>2. ~ Looser(u[len + 1], u[k])
      BY <1>3, OperatorLevels DEF Looser
    <3> QED BY <3>1, <3>2 DEF EdgeBinds
  <2>3. EdgeBinds(u, OpenRoots(b) \cup OpenRoot(c), len + 1)
    BY <1>1, OperatorLevels DEF EdgeBinds, Argued, Looser
  <2>4. EdgeBinds(u, OpenRoots(b) \cup OpenRoot(c), len + 2)
    BY OperatorLevels DEF EdgeBinds, Governs
  <2>5. \A n \in NewOnes(t, u, k) : EdgeBinds(u, OpenRoots(b) \cup OpenRoot(c), n)
    BY <2>2, <2>3, <2>4
  <2> QED BY <2>1, <2>5, EdgesStay
<1> QED BY <1>5, <1>6, <1>8, <1>9, <1>10, <1>11 DEF Building

----------------------------------------------------------------------------
(* The steps.                                                              *)

LEMMA InsideCall ==
  ASSUME TreeInv, calls # <<>>
  PROVE  /\ Building(Below, Top, tree)
         /\ saved_op \in BinOps \cup {"none"}
         /\ Len(text) \in Nat /\ Here \in Nat
<1>0. Len(text) \in Nat /\ Here \in Nat
  BY DEF TreeInv, Here
<1>1. calls \in Seq(CallSet)
  BY DEF TreeInv, CallsOK
<1>2. Below \in Seq(CallSet) /\ Top \in CallSet /\ calls = Append(Below, Top)
  BY <1>1, CallsSplit DEF Below, Top
<1>3. PICK b, c : b = Below /\ c = Top /\ calls = Append(b, c)
  BY <1>2
<1>4. CallsOK(Append(b, c), tree) /\ EdgesBind(tree, OpenRoots(Append(b, c)))
  BY <1>3 DEF TreeInv
<1>5. /\ CallsOK(b, tree) /\ CallOK(c, tree) /\ AllBefore(b, c.root)
      /\ OpenRoots(Append(b, c)) = OpenRoots(b) \cup OpenRoot(c)
  BY <1>2, <1>3, <1>4, CallsAppended
<1>6. Heap(tree) /\ Awaits(c, tree) /\ saved_op \in BinOps \cup {"none"}
  BY <1>3 DEF TreeInv
<1> QED BY <1>0, <1>3, <1>4, <1>5, <1>6 DEF Building

LEMMA GoesOn ==
  ASSUME NEW b, NEW c, Building(b, c, tree'), calls' = Append(b, c), saved_op' \in BinOps \cup {"none"},
         lexem' \in Lexems, text' \in Seq(Lexems)
  PROVE  TreeInv'
<1>1. b \in Seq(CallSet) /\ c \in CallSet
  BY BuildingTypes
<1>2. CallsOK(Append(b, c), tree') /\ OpenRoots(Append(b, c)) = OpenRoots(b) \cup OpenRoot(c)
  BY <1>1, CallsAppended DEF Building
<1>3. Append(b, c)[Len(Append(b, c))] = c
  BY <1>1
<1> QED BY <1>2, <1>3 DEF TreeInv, Building, Top

LEMMA Pops ==
  ASSUME NEW b, CallsOK(b, tree'), NEW r, AllBefore(b, r), Heap(tree'), EdgesBind(tree', OpenRoots(b)),
         calls' = b, saved_op' \in BinOps \cup {"none"}, lexem' \in Lexems, text' \in Seq(Lexems)
  PROVE  TreeInv'
<1>1. ASSUME b # <<>> PROVE Awaits(b[Len(b)], tree')
  <2>1. b \in Seq(CallSet) /\ Len(b) \in 1 .. Len(b)
    BY <1>1, EmptySeq DEF CallsOK
  <2>2. Before(b[Len(b)], r)
    BY <2>1 DEF AllBefore
  <2> QED BY <2>2 DEF Before, Awaits
<1> QED BY <1>1 DEF TreeInv, Top

LEMMA TreeBegins == ExprInit => TreeInv
<1> SUFFICES ASSUME ExprInit PROVE TreeInv
  OBVIOUS
<1>1. PICK e : e = Activation(1, 255, "nothing") /\ calls = <<e>> /\ tree = <<New>> /\ saved_op = "none"
  BY DEF ExprInit
<1>2. /\ e \in CallSet /\ e.root = 1 /\ e.stmt = 1 /\ e.within = "nothing" /\ e.highest = 255
      /\ e.next = "start" /\ \A l \in Levels : e.node_for_level[l] = 1
  BY <1>1 DEF Activation, CallSet
<1>3. Heap(tree) /\ Len(tree) = 1 /\ DOMAIN tree = {1} /\ tree[1] = New
  BY <1>1, NewIsNode DEF Heap, Linked
<1>4. CallOK(e, tree) /\ Awaits(e, tree)
  BY <1>2, <1>3 DEF CallOK, Within, Levelled, Awaits
<1>5. CallsOK(calls, tree)
  BY <1>1, <1>2, <1>4 DEF CallsOK
<1>6. EdgesBind(tree, OpenRoots(calls))
  BY <1>3, NewIsNode, OperatorLevels DEF EdgesBind, EdgeBinds, Governs
<1>7. Awaits(Top, tree)
  BY <1>1, <1>4 DEF Top
<1>8. lexem \in Lexems /\ text \in Seq(Lexems)
  BY DEF ExprInit, BeforeArg, Signs, Lexems
<1> QED BY <1>1, <1>3, <1>5, <1>6, <1>7, <1>8 DEF TreeInv

LEMMA NextLexem ==
  ASSUME TreeInv, \/ lexer_next(BeforeArg) \/ lexer_next(BehindArg) \/ lexer_next(BeforeArg \cup Signs)
                  \/ UNCHANGED <<lexem, text>>
  PROVE  lexem' \in Lexems /\ text' \in Seq(Lexems)
BY DEF TreeInv, lexer_next, BeforeArg, BehindArg, Signs, Lexems

(* What asks is asked for.                                                 *)
LEMMA WantedAsks ==
  ASSUME TreeInv, Wanted
  PROVE  Building(Below, Top, tree) /\ Asks(Top, tree, Target, Asked) /\ Target \in 1 .. Len(tree)
         /\ Here \in Nat /\ tree \in Seq(NodeSet) /\ Fresh = Len(tree) + 1 /\ Fresh \in Nat
<1>1. Building(Below, Top, tree) /\ Here \in Nat
  BY InsideCall DEF Wanted
<1>2. Asks(Top, tree, Target, Asked)
  BY DEF Asks, Wanted, Target, Asked
<1>3. tree \in Seq(NodeSet) /\ Fresh = Len(tree) + 1 /\ Fresh \in Nat
  BY <1>1, BuildingTypes DEF Fresh
<1> QED BY <1>1, <1>2, <1>3, AsksOutside

LEMMA ArgumentStep == TreeInv /\ Argument => TreeInv'
<1> SUFFICES ASSUME TreeInv, Argument PROVE TreeInv'
  OBVIOUS
<1>1. /\ Building(Below, Top, tree) /\ Asks(Top, tree, Target, Asked) /\ Target \in 1 .. Len(tree)
      /\ Here \in Nat /\ tree \in Seq(NodeSet)
  BY WantedAsks DEF Argument
<1>2. PICK nd : nd = Node("x", Here, 0, 0)
  OBVIOUS
<1>3. nd \in NodeSet
  BY <1>1, <1>2, NodesAreNodes
<1>4. Changed(tree, tree', Target, nd) /\ Len(tree') = Len(tree) /\ NewOnes(tree, tree', Target) = {Target}
  <2>1. tree' = Replaced(tree, Target, nd)
    BY <1>2 DEF Argument, Replaced
  <2> QED BY <1>1, <1>3, <2>1, ChangedOnly
<1>5. Building(Below, Asked, tree')
  BY <1>1, <1>2, <1>4, ArgumentKeeps
<1>6. calls' = Append(Below, Asked) /\ saved_op' = "none" /\ lexem' \in Lexems /\ text' \in Seq(Lexems)
  BY NextLexem DEF Argument
<1> QED BY <1>5, <1>6, GoesOn

LEMMA TwoCalls ==
  ASSUME NEW b \in Seq(CallSet), NEW c \in CallSet, NEW d \in CallSet
  PROVE  b \o <<c, d>> = Append(Append(b, c), d)
OBVIOUS

LEMMA SubexpressionStep == TreeInv /\ Subexpression => TreeInv'
<1> SUFFICES ASSUME TreeInv, Subexpression PROVE TreeInv'
  OBVIOUS
<1>1. Building(Below, Top, tree) /\ Asks(Top, tree, Target, Asked)
  BY WantedAsks DEF Subexpression
<1>2. PICK e : e = Activation(Target, 255, "parentheses")
  OBVIOUS
<1>3. Building(Append(Below, Asked), e, tree)
  BY <1>1, <1>2, SubexpressionKeeps
<1>4. Below \in Seq(CallSet) /\ Asked \in CallSet /\ e \in CallSet
  BY <1>1, <1>3, BuildingTypes, AsksOutside
<1>5. calls' = Append(Append(Below, Asked), e)
  BY <1>2, <1>4, TwoCalls DEF Subexpression
<1>6. tree' = tree /\ saved_op' = "none" /\ lexem' \in Lexems /\ text' \in Seq(Lexems)
  BY NextLexem DEF Subexpression
<1> QED BY <1>3, <1>5, <1>6, GoesOn

LEMMA NegationStep == TreeInv /\ Negation => TreeInv'
<1> SUFFICES ASSUME TreeInv, Negation PROVE TreeInv'
  OBVIOUS
<1>1. /\ Building(Below, Top, tree) /\ Asks(Top, tree, Target, Asked) /\ Target \in 1 .. Len(tree)
      /\ Here \in Nat /\ tree \in Seq(NodeSet) /\ Fresh = Len(tree) + 1 /\ Fresh \in Nat
  BY WantedAsks DEF Negation
<1>2. PICK nd : nd = Node("NOT", Here, Fresh, 0)
  OBVIOUS
<1>3. nd \in NodeSet
  BY <1>1, <1>2, NodesAreNodes
<1>4. /\ Changed(tree, tree', Target, nd) /\ Len(tree') = Fresh /\ tree'[Fresh] = New
      /\ NewOnes(tree, tree', Target) = {Target, Fresh}
  <2>1. PICK w : w = Replaced(tree, Target, nd) /\ tree' = Append(w, New)
    BY <1>2 DEF Negation, Replaced
  <2>2. ChangedByOne(tree, tree', Target, nd, New)
    BY <1>1, <1>3, <2>1, ChangedAppended, NewIsNode
  <2> QED BY <1>1, <2>2 DEF ChangedByOne
<1>5. PICK e : e = Activation(Fresh, 5, "NOT")
  OBVIOUS
<1>6. Building(Append(Below, Asked), e, tree')
  BY <1>1, <1>2, <1>4, <1>5, NegationKeeps
<1>7. Below \in Seq(CallSet) /\ Asked \in CallSet /\ e \in CallSet
  BY <1>1, <1>6, BuildingTypes, AsksOutside
<1>8. calls' = Append(Append(Below, Asked), e)
  BY <1>5, <1>7, TwoCalls, OperatorLevels DEF Negation
<1>9. saved_op' = "none" /\ lexem' \in Lexems /\ text' \in Seq(Lexems)
  BY NextLexem DEF Negation
<1> QED BY <1>6, <1>8, <1>9, GoesOn

LEMMA ArgumentNext ==
  ASSUME NEW c \in CallSet, NEW d, d = [c EXCEPT !.next = "arg"]
  PROVE  /\ d \in CallSet /\ d.root = c.root /\ d.stmt = c.stmt /\ d.within = c.within
         /\ d.highest = c.highest /\ d.node_for_level = c.node_for_level /\ d.next = "arg"
BY DEF CallSet

LEMMA PlacesOperator ==
  ASSUME NEW c \in CallSet, NEW m \in Nat, NEW level \in Levels,
         NEW d, d = [c EXCEPT !.stmt = m, !.node_for_level[level] = m, !.next = "arg"]
  PROVE  Places(c, d, m, level)
<1>1. PICK f : f = [c.node_for_level EXCEPT ![level] = m]
  OBVIOUS
<1>2. c.node_for_level \in [Levels -> Nat]
  BY DEF CallSet
<1>3. f \in [Levels -> Nat] /\ f[level] = m /\ \A l \in Levels : l # level => f[l] = c.node_for_level[l]
  BY <1>1, <1>2
<1>4. d = [[[c EXCEPT !.stmt = m] EXCEPT !.node_for_level = f] EXCEPT !.next = "arg"]
  BY <1>1
<1>5. PICK g, h : g = [c EXCEPT !.stmt = m] /\ h = [g EXCEPT !.node_for_level = f] /\ d = [h EXCEPT !.next = "arg"]
  BY <1>4
<1>6. /\ g \in CallSet /\ g.root = c.root /\ g.stmt = m /\ g.within = c.within /\ g.highest = c.highest
  BY <1>5 DEF CallSet
<1>7. /\ h \in CallSet /\ h.root = g.root /\ h.stmt = g.stmt /\ h.within = g.within /\ h.highest = g.highest
      /\ h.node_for_level = f
  BY <1>3, <1>5, <1>6, ZenonT(60) DEF CallSet
<1>8. /\ d \in CallSet /\ d.root = h.root /\ d.stmt = h.stmt /\ d.within = h.within /\ d.highest = h.highest
      /\ d.node_for_level = h.node_for_level /\ d.next = "arg"
  BY <1>5, <1>7, ArgumentNext, ZenonT(60)
<1> QED BY <1>3, <1>6, <1>7, <1>8 DEF Places

LEMMA SignStep == TreeInv /\ Sign => TreeInv'
<1> SUFFICES ASSUME TreeInv, Sign PROVE TreeInv'
  OBVIOUS
<1>1. Building(Below, Top, tree) /\ Here \in Nat /\ saved_op \in BinOps \cup {"none"}
  BY InsideCall DEF Sign
<1>2. /\ tree \in Seq(NodeSet) /\ Len(tree) \in Nat /\ Top \in CallSet
      /\ Top.stmt \in 1 .. Len(tree)
  BY <1>1, BuildingTypes
<1>3. Top.stmt = Top.root /\ \A l \in Levels : Top.node_for_level[l] = Top.root
  BY <1>1 DEF Sign, Building, CallOK, Levelled
<1>4. saved_op' = saved_op /\ lexem' \in Lexems /\ text' \in Seq(Lexems)
  BY NextLexem DEF Sign
<1>5. CASE lexem = "-"
  <2>1. PICK nd, zero, d :
          /\ nd = Node("-", Here, Fresh, Fresh + 1) /\ zero = Node("x", 0, 0, 0)
          /\ d = [Top EXCEPT !.next = "arg", !.node_for_level[2] = Top.stmt]
    OBVIOUS
  <2>2. Fresh = Len(tree) + 1 /\ Fresh \in Nat /\ Fresh + 1 = Len(tree) + 2 /\ Fresh + 1 \in Nat /\ "-" \in AllOps
    BY <1>2 DEF Fresh, AllOps
  <2>3. /\ nd \in NodeSet /\ nd.op = "-" /\ nd.left = Len(tree) + 1 /\ nd.right = Len(tree) + 2
        /\ nd.whole = FALSE
    BY <1>1, <2>1, <2>2 DEF Node, NodeSet
  <2>4. zero \in NodeSet /\ zero.op = "x" /\ zero.left = 0 /\ zero.right = 0
    BY <2>1 DEF Node, NodeSet
  <2>5. /\ Changed(tree, tree', Top.stmt, nd) /\ Len(tree') = Len(tree) + 2
        /\ tree'[Len(tree) + 1] = zero /\ tree'[Len(tree) + 2] = New
        /\ NewOnes(tree, tree', Top.stmt) = {Top.stmt, Len(tree) + 1, Len(tree) + 2}
    <3>1. PICK w : w = Replaced(tree, Top.stmt, nd) /\ tree' = w \o <<zero, New>>
      BY <1>5, <2>1 DEF Sign, Replaced
    <3>2. nd \in NodeSet /\ zero \in NodeSet /\ New \in NodeSet
      BY <2>3, <2>4, NewIsNode
    <3>3. ChangedByTwo(tree, tree', Top.stmt, nd, zero, New)
      BY <1>2, <3>1, <3>2, ChangedTwice
    <3> QED BY <3>3 DEF ChangedByTwo
  <2>6. Places(Top, d, Top.stmt, 2)
    <3>1. Top.stmt \in Nat /\ 2 \in Levels
      BY <1>2 DEF CallSet, Levels
    <3>2. d = [Top EXCEPT !.stmt = Top.stmt, !.node_for_level[2] = Top.stmt, !.next = "arg"]
      BY <1>2, <2>1 DEF CallSet
    <3> QED BY <1>2, <3>1, <3>2, PlacesOperator
  <2>7. "-" \in BinOps /\ 2 = expr_op_level("-") /\ 2 <= Top.highest
    <3>1. Top.highest \in {5, 255}
      BY <1>2 DEF CallSet
    <3> QED BY <1>5, <3>1, OperatorLevels DEF Sign, Signs
  <2>8. Building(Below, d, tree')
    BY <1>1, <1>3, <2>3, <2>4, <2>5, <2>6, <2>7, NewIsNode, AboveKeeps
  <2>9. calls' = Append(Below, d)
    BY <1>5, <2>1 DEF Sign
  <2> QED BY <1>1, <1>4, <2>8, <2>9, GoesOn
<1>6. CASE lexem # "-"
  <2>1. PICK d : d = [Top EXCEPT !.next = "plus"]
    OBVIOUS
  <2>2. calls' = Append(Below, d) /\ tree' = tree
    BY <1>6, <2>1 DEF Sign
  <2>3. /\ d \in CallSet /\ d.root = Top.root /\ d.stmt = Top.stmt /\ d.within = Top.within /\ d.highest = Top.highest
        /\ d.node_for_level = Top.node_for_level /\ d.next = "plus"
    BY <1>2, <2>1 DEF CallSet
  <2>4. Building(Below, d, tree)
    BY <1>1, <1>3, <2>3 DEF Building, CallOK, Within, Levelled, Awaits, OpenRoot
  <2> QED BY <1>1, <1>4, <2>2, <2>4, GoesOn
<1> QED BY <1>5, <1>6

LEMMA AwaitsInside ==
  ASSUME TreeInv, AwaitsOperator
  PROVE  /\ Building(Below, Top, tree) /\ Top.next \in {"first", "op"}
         /\ tree \in Seq(NodeSet) /\ Len(tree) \in Nat /\ Top \in CallSet
         /\ Top.stmt \in 1 .. Len(tree) /\ Top.root \in 1 .. Len(tree)
         /\ \A l \in Levels : Top.node_for_level[l] \in 1 .. Len(tree)
<1>1. Building(Below, Top, tree) /\ Top.next \in {"first", "op"}
  BY InsideCall DEF AwaitsOperator
<1> QED BY <1>1, BuildingTypes

LEMMA ContinueAbove ==
  ASSUME TreeInv, AwaitsOperator, NEW op \in BinOps, NEW at \in Nat, NEW level,
         level = expr_op_level(op), level <= Top.highest,
         NEW k \in 1 .. Len(tree), k = Top.root \/ k = Top.node_for_level[level],
         tree' = Above(k, op, at), NEW d, Places(Top, d, k, level), calls' = Append(Below, d),
         saved_op' = "none", lexem' \in Lexems, text' \in Seq(Lexems)
  PROVE  TreeInv'
<1>1. Building(Below, Top, tree) /\ tree \in Seq(NodeSet) /\ Len(tree) \in Nat
  BY AwaitsInside
<1>2. PICK nd, a : nd = Node(op, at, Fresh, Fresh + 1) /\ a = tree[k]
  OBVIOUS
<1>3. Fresh = Len(tree) + 1 /\ Fresh \in Nat /\ Fresh + 1 = Len(tree) + 2 /\ Fresh + 1 \in Nat
  BY <1>1 DEF Fresh
<1>4. /\ nd \in NodeSet /\ nd.op = op /\ nd.left = Len(tree) + 1 /\ nd.right = Len(tree) + 2
      /\ nd.whole = FALSE
  BY <1>2, <1>3, OperatorLevels DEF Node, NodeSet
<1>5. a \in NodeSet
  BY <1>1, <1>2
<1>6. PICK w : w = Replaced(tree, k, nd) /\ tree' = w \o <<a, New>>
  BY <1>2 DEF Above, Replaced
<1>7. ChangedByTwo(tree, tree', k, nd, a, New)
  BY <1>1, <1>4, <1>5, <1>6, ChangedTwice, NewIsNode
<1>8. /\ Changed(tree, tree', k, nd) /\ Len(tree') = Len(tree) + 2 /\ tree'[Len(tree) + 1] = tree[k]
      /\ NewOnes(tree, tree', k) = {k, Len(tree) + 1, Len(tree) + 2}
      /\ tree'[Len(tree) + 2].op = "new" /\ tree'[Len(tree) + 2].left = 0 /\ tree'[Len(tree) + 2].right = 0
  BY <1>2, <1>7, NewIsNode DEF ChangedByTwo
<1>9. Building(Below, d, tree')
  BY <1>1, <1>4, <1>8, AboveKeeps
<1> QED BY <1>9, GoesOn

LEMMA ContinueUnder ==
  ASSUME TreeInv, AwaitsOperator, NEW op \in BinOps, NEW at \in Nat, NEW level,
         level = expr_op_level(op), Top.next = "op", ~ Climbs(Top.stmt, level),
         tree' = Under(Top.stmt, op, at), NEW d, Places(Top, d, Fresh, level), calls' = Append(Below, d),
         saved_op' = "none", lexem' \in Lexems, text' \in Seq(Lexems)
  PROVE  TreeInv'
<1>1. /\ Building(Below, Top, tree) /\ tree \in Seq(NodeSet) /\ Len(tree) \in Nat
      /\ Top.stmt \in 1 .. Len(tree)
  BY AwaitsInside
<1>2. PICK k, nd, a : /\ k = Top.stmt /\ nd = [tree[k] EXCEPT !.right = Fresh]
                      /\ a = Node(op, at, tree[k].right, Fresh + 1)
  OBVIOUS
<1>3. Fresh = Len(tree) + 1 /\ Fresh \in Nat /\ Fresh + 1 = Len(tree) + 2 /\ Fresh + 1 \in Nat
  BY <1>1 DEF Fresh
<1>4. k \in 1 .. Len(tree) /\ tree[k] \in NodeSet
  BY <1>1, <1>2
<1>5. /\ nd \in NodeSet /\ nd.op = tree[k].op /\ nd.left = tree[k].left /\ nd.right = Len(tree) + 1
      /\ nd.whole = tree[k].whole
  BY <1>2, <1>3, <1>4 DEF NodeSet
<1>6. /\ a \in NodeSet /\ a.op = op /\ a.left = tree[k].right /\ a.right = Len(tree) + 2
      /\ a.whole = FALSE
  BY <1>2, <1>3, <1>4, OperatorLevels DEF Node, NodeSet
<1>7. PICK w : w = Replaced(tree, k, nd) /\ tree' = w \o <<a, New>>
  BY <1>2 DEF Under, Replaced
<1>8. ChangedByTwo(tree, tree', k, nd, a, New)
  BY <1>1, <1>4, <1>5, <1>6, <1>7, ChangedTwice, NewIsNode
<1>9. /\ Changed(tree, tree', k, nd) /\ Len(tree') = Len(tree) + 2 /\ tree'[Len(tree) + 1] = a
      /\ NewOnes(tree, tree', k) = {k, Len(tree) + 1, Len(tree) + 2}
      /\ tree'[Len(tree) + 2].op = "new" /\ tree'[Len(tree) + 2].left = 0 /\ tree'[Len(tree) + 2].right = 0
  BY <1>8, NewIsNode DEF ChangedByTwo
<1>10. tree[k].op \in BinOps /\ ~ (expr_op_level(tree[k].op) < level)
  BY <1>1, <1>2 DEF Building, CallOK, Levelled, Climbs
<1>11. Places(Top, d, Len(tree) + 1, level)
  BY <1>3
<1>12. Building(Below, d, tree')
  BY <1>1, <1>2, <1>5, <1>6, <1>9, <1>10, <1>11, UnderKeeps, ZenonT(60)
<1> QED BY <1>12, GoesOn

LEMMA ContinueKeeps ==
  ASSUME TreeInv, AwaitsOperator, NEW op \in BinOps, NEW at \in Nat,
         expr_op_level(op) <= Top.highest, Continue(op, at),
         saved_op' = "none", lexem' \in Lexems, text' \in Seq(Lexems)
  PROVE  TreeInv'
<1>1. /\ Building(Below, Top, tree) /\ Top.next \in {"first", "op"} /\ Len(tree) \in Nat
      /\ Top \in CallSet /\ Top.stmt \in 1 .. Len(tree) /\ Top.root \in 1 .. Len(tree)
      /\ \A l \in Levels : Top.node_for_level[l] \in 1 .. Len(tree)
  BY AwaitsInside
<1>2. PICK level : level = expr_op_level(op)
  OBVIOUS
<1>3. level \in Levels
  BY <1>2, OperatorLevels DEF Levels
<1>5. CASE Top.next = "first"
  <2>1. Top.stmt = Top.root
    BY <1>1, <1>5 DEF Building, CallOK, Levelled
  <2>2. PICK k, d : /\ k = Top.stmt
                    /\ d = [Top EXCEPT !.stmt = k, !.node_for_level[level] = k, !.next = "arg"]
    OBVIOUS
  <2>3. tree' = Above(k, op, at) /\ calls' = Append(Below, d)
    BY <1>2, <1>5, <2>2 DEF Continue
  <2>4. Places(Top, d, k, level) /\ k \in 1 .. Len(tree)
    <3>1. k \in 1 .. Len(tree) /\ k \in Nat
      BY <1>1, <2>2
    <3>2. d = [Top EXCEPT !.stmt = k, !.node_for_level[level] = k, !.next = "arg"]
      BY <2>2
    <3> QED BY <1>1, <1>3, <3>1, <3>2, PlacesOperator
  <2> QED BY <1>2, <2>1, <2>2, <2>3, <2>4, ContinueAbove
<1>6. CASE Top.next = "op" /\ Climbs(Top.stmt, level)
  <2>1. PICK k, d : /\ k = Top.node_for_level[level]
                    /\ d = [Top EXCEPT !.stmt = k, !.node_for_level[level] = k, !.next = "arg"]
    OBVIOUS
  <2>2. tree' = Above(k, op, at) /\ calls' = Append(Below, d)
    BY <1>2, <1>6, <2>1 DEF Continue
  <2>3. k \in 1 .. Len(tree)
    BY <1>1, <1>3, <2>1
  <2>4. Places(Top, d, k, level)
    <3>1. k \in Nat
      BY <2>3
    <3>2. d = [Top EXCEPT !.stmt = k, !.node_for_level[level] = k, !.next = "arg"]
      BY <2>1
    <3> QED BY <1>1, <1>3, <3>1, <3>2, PlacesOperator
  <2> QED BY <1>2, <2>1, <2>2, <2>3, <2>4, ContinueAbove
<1>7. CASE Top.next = "op" /\ ~ Climbs(Top.stmt, level)
  <2>1. PICK d : d = [Top EXCEPT !.stmt = Fresh, !.node_for_level[level] = Fresh, !.next = "arg"]
    OBVIOUS
  <2>2. tree' = Under(Top.stmt, op, at) /\ calls' = Append(Below, d)
    BY <1>2, <1>7, <2>1 DEF Continue
  <2>3. Fresh \in Nat
    BY <1>1 DEF Fresh
  <2>4. Places(Top, d, Fresh, level)
    BY <1>1, <1>3, <2>1, <2>3, PlacesOperator
  <2> QED BY <1>2, <1>7, <2>2, <2>4, ContinueUnder
<1> QED BY <1>1, <1>5, <1>6, <1>7

LEMMA TakeKeeps ==
  ASSUME TreeInv, AwaitsOperator, NEW op \in BinOps, NEW at \in Nat, Take(op, at),
         lexem' \in Lexems, text' \in Seq(Lexems)
  PROVE  TreeInv'
<1>1. Building(Below, Top, tree) /\ Top \in CallSet
  BY AwaitsInside
<1>2. Top.highest \in {5, 255} /\ expr_op_level(op) \in 1 .. 7
  BY <1>1, OperatorLevels DEF CallSet
<1>3. CASE expr_op_level(op) > Top.highest
  <2>1. saved_op' = op /\ calls' = Below /\ tree' = tree
    BY <1>3 DEF Take
  <2>2. Top.within = "NOT"
    BY <1>1, <1>2, <1>3 DEF Building, CallOK, Within
  <2>3. OpenRoots(Below) \cup OpenRoot(Top) = OpenRoots(Below)
    BY <2>2 DEF OpenRoot
  <2>4. CallsOK(Below, tree) /\ AllBefore(Below, Top.root) /\ Heap(tree) /\ EdgesBind(tree, OpenRoots(Below))
    BY <1>1, <2>3 DEF Building
  <2> QED BY <2>1, <2>4, Pops
<1>4. CASE ~ (expr_op_level(op) > Top.highest)
  <2>1. saved_op' = "none" /\ Continue(op, at)
    BY <1>4 DEF Take
  <2>2. expr_op_level(op) <= Top.highest
    BY <1>2, <1>4
  <2> QED BY <2>1, <2>2, ContinueKeeps
<1> QED BY <1>3, <1>4

LEMMA OperatorStep == TreeInv /\ Operator => TreeInv'
<1> SUFFICES ASSUME TreeInv, Operator PROVE TreeInv'
  OBVIOUS
<1>1. /\ AwaitsOperator /\ lexem \in BinOps /\ Take(lexem, Here)
      /\ lexem' \in Lexems /\ text' \in Seq(Lexems)
  BY NextLexem DEF Operator
<1>2. Here \in Nat
  BY <1>1, InsideCall DEF AwaitsOperator
<1> QED BY <1>1, <1>2, TakeKeeps

LEMMA SavedOperatorStep == TreeInv /\ SavedOperator => TreeInv'
<1> SUFFICES ASSUME TreeInv, SavedOperator PROVE TreeInv'
  OBVIOUS
<1>1. /\ AwaitsOperator /\ saved_op # "none" /\ Take(saved_op, Len(text))
      /\ lexem' \in Lexems /\ text' \in Seq(Lexems)
  BY NextLexem DEF SavedOperator
<1>2. Len(text) \in Nat /\ saved_op \in BinOps
  BY <1>1, InsideCall DEF AwaitsOperator
<1> QED BY <1>1, <1>2, TakeKeeps

(* What stands in parentheses binds like an operand once they are closed.  *)
LEMMA ReturnStep == TreeInv /\ Return => TreeInv'
<1> SUFFICES ASSUME TreeInv, Return PROVE TreeInv'
  OBVIOUS
<1>1. Building(Below, Top, tree) /\ AwaitsOperator
  BY AwaitsInside DEF Return
<1>2. calls' = Below /\ saved_op' = saved_op /\ saved_op \in BinOps \cup {"none"}
      /\ lexem' \in Lexems /\ text' \in Seq(Lexems)
  BY <1>1, NextLexem, InsideCall DEF Return, AwaitsOperator
<1>3. CASE Top.within # "parentheses"
  <2>1. tree' = tree
    BY <1>3 DEF Return
  <2>2. OpenRoots(Below) \cup OpenRoot(Top) = OpenRoots(Below)
    BY <1>3 DEF OpenRoot
  <2>3. CallsOK(Below, tree) /\ AllBefore(Below, Top.root) /\ Heap(tree) /\ EdgesBind(tree, OpenRoots(Below))
    BY <1>1, <2>2 DEF Building
  <2> QED BY <1>2, <2>1, <2>3, Pops
<1>4. CASE Top.within = "parentheses"
  <2>1. PICK t, u, b, c, k, nd : /\ t = tree /\ u = tree' /\ b = Below /\ c = Top /\ k = c.root
                                 /\ nd = [t[k] EXCEPT !.whole = TRUE]
    OBVIOUS
  <2>2. /\ Building(b, c, t) /\ t \in Seq(NodeSet) /\ k \in 1 .. Len(t) /\ t[k] \in NodeSet
        /\ DOMAIN t = 1 .. Len(t) /\ Len(t) \in Nat /\ Heap(t) /\ c.root <= k
    <3>1. Building(b, c, t)
      BY <1>1, <2>1
    <3>2. t \in Seq(NodeSet) /\ k \in 1 .. Len(t) /\ DOMAIN t = 1 .. Len(t) /\ Len(t) \in Nat /\ Heap(t)
      BY <2>1, <3>1, BuildingTypes
    <3> QED BY <2>1, <3>1, <3>2
  <2>3. u = Replaced(t, k, nd)
    BY <1>4, <2>1 DEF Return, Replaced
  <2>4. /\ nd \in NodeSet /\ nd.op = t[k].op /\ nd.left = t[k].left /\ nd.right = t[k].right
        /\ nd.whole = TRUE
    BY <2>1, <2>2 DEF NodeSet
  <2>5. Changed(t, u, k, nd) /\ Len(u) = Len(t) /\ NewOnes(t, u, k) = {k}
    BY <2>2, <2>3, <2>4, ChangedOnly
  <2>6. u[k] = nd /\ DOMAIN u = 1 .. Len(t) /\ \A n \in 1 .. Len(t) : n # k => u[n] = t[n]
    BY <2>2, <2>5 DEF Changed
  <2>7. Heap(u)
    <3>1. Linked(u, k)
      BY <2>2, <2>4, <2>5, <2>6 DEF Heap, Linked
    <3>2. \A n \in NewOnes(t, u, k) : Linked(u, n)
      BY <2>5, <3>1
    <3> QED BY <2>2, <2>5, <3>2, ChangedHeap
  <2>8. CallsOK(b, u)
    <3>1. Known(t, u, k)
      BY <2>2, <2>4, <2>6 DEF Known
    <3>2. \A n \in NewOnes(t, u, k) : Known(t, u, n)
      BY <2>5, <3>1
    <3> QED BY <2>2, <2>5, <2>7, <3>2, CallsStay
  <2>9. EdgesBind(u, OpenRoots(b))
    <3>1. ASSUME NEW n \in DOMAIN u PROVE EdgeBinds(u, OpenRoots(b), n)
      <4>1. n \in DOMAIN t /\ u[n].op = t[n].op /\ Argued(u[n]) = Argued(t[n])
        BY <2>2, <2>4, <2>6 DEF Argued
      <4>2. EdgeBinds(t, OpenRoots(b) \cup OpenRoot(c), n)
        BY <2>2, <4>1 DEF Building, EdgesBind
      <4>3. CASE Argued(t[n]) = k
        BY <2>2, <2>4, <2>6, <4>1, <4>2, <4>3 DEF EdgeBinds, Governs, Looser
      <4>4. CASE Argued(t[n]) # k
        <5>1. CASE ~ Governs(t[n])
          BY <4>1, <5>1 DEF EdgeBinds, Governs
        <5>2. CASE Governs(t[n])
          <6>1. Argued(t[n]) \in 1 .. Len(t)
            BY <2>2, <4>1, <4>2, <5>2 DEF EdgeBinds, Heap, Linked, Argued
          <6>2. NoLooser(t[Argued(t[n])], u[Argued(t[n])])
            BY <2>6, <4>4, <6>1 DEF NoLooser
          <6>3. Argued(t[n]) \in OpenRoots(b) \cup OpenRoot(c) => Argued(t[n]) \in OpenRoots(b)
            BY <2>1, <4>4 DEF OpenRoot
          <6> QED BY <4>1, <4>2, <6>2, <6>3, EdgeKept
        <5> QED BY <5>1, <5>2
      <4> QED BY <4>3, <4>4
    <3> QED BY <3>1 DEF EdgesBind
  <2>10. AllBefore(b, c.root)
    BY <2>2 DEF Building
  <2> QED BY <1>2, <2>1, <2>7, <2>8, <2>9, <2>10, Pops
<1> QED BY <1>3, <1>4

LEMMA TreeGoesOn == TreeInv /\ [ExprNext]_exprVars => TreeInv'
<1> SUFFICES ASSUME TreeInv, [ExprNext]_exprVars PROVE TreeInv'
  OBVIOUS
<1>1. CASE UNCHANGED exprVars
  BY <1>1 DEF exprVars, TreeInv, Top
<1> QED BY <1>1, ArgumentStep, SubexpressionStep, NegationStep, SignStep, OperatorStep,
           SavedOperatorStep, ReturnStep DEF ExprNext

----------------------------------------------------------------------------
(* The finished tree.                                                      *)

Steps(f, n) == f = [k \in 0 .. n |-> IF k = 0 THEN {1}
                                      ELSE f[k - 1] \cup UNION {{tree[m].left, tree[m].right} \ {0} : m \in f[k - 1]}]

LEMMA StepsExist ==
  ASSUME NEW n \in Nat
  PROVE  \E f : Steps(f, n)
<1> DEFINE S == {k \in Nat : ~ \E f : Steps(f, k)}
<1> SUFFICES ASSUME n \in S PROVE FALSE
  OBVIOUS
<1>1. S \in SUBSET Nat /\ S # {}
  OBVIOUS
<1>2. PICK k \in S : \A j \in S : k <= j
  BY <1>1, LeastOne
<1>3. k \in Nat /\ ~ \E f : Steps(f, k)
  BY <1>2
<1>4. CASE k = 0
  <2>1. Steps([j \in 0 .. 0 |-> {1}], 0)
    BY DEF Steps
  <2> QED BY <1>3, <1>4, <2>1
<1>5. CASE k # 0
  <2>1. PICK p \in Nat : k = p + 1
    BY <1>3, <1>5
  <2>2. p \notin S
    BY <1>2, <2>1
  <2>3. PICK f : Steps(f, p)
    BY <2>1, <2>2
  <2>4. f = [j \in 0 .. p |-> IF j = 0 THEN {1}
                      ELSE f[j - 1] \cup UNION {{tree[m].left, tree[m].right} \ {0} : m \in f[j - 1]}]
    BY <2>3 DEF Steps
  <2>5. PICK last : last = f[p] \cup UNION {{tree[m].left, tree[m].right} \ {0} : m \in f[p]}
    OBVIOUS
  <2>6. PICK g : g = [j \in 0 .. k |-> IF j = k THEN last ELSE f[j]]
    OBVIOUS
  <2>7. ASSUME NEW j \in 0 .. k
        PROVE  g[j] = IF j = 0 THEN {1}
                      ELSE g[j - 1] \cup UNION {{tree[m].left, tree[m].right} \ {0} : m \in g[j - 1]}
    <3>1. CASE j = k
      <4>1. g[j] = last /\ g[j - 1] = f[p] /\ j # 0
        BY <2>1, <2>6, <3>1
      <4> QED BY <2>5, <4>1
    <3>2. CASE j # k
      <4>1. g[j] = f[j] /\ j \in 0 .. p /\ (j # 0 => g[j - 1] = f[j - 1])
        BY <2>1, <2>6, <3>2
      <4> QED BY <2>4, <4>1
    <3> QED BY <3>1, <3>2
  <2>8. g = [j \in 0 .. k |-> g[j]]
    BY <2>6
  <2>9. Steps(g, k)
    BY <2>7, <2>8 DEF Steps
  <2> QED BY <1>3, <2>9
<1> QED BY <1>4, <1>5

LEMMA InTreeAreNodes ==
  ASSUME Heap(tree)
  PROVE  InTree \subseteq DOMAIN tree
<1>1. PICK n \in Nat : n = Len(tree)
  BY DEF Heap
<1>0. 1 \in DOMAIN tree
  BY DEF Heap
<1>2. \E f : Steps(f, n)
  BY StepsExist
<1>3. PICK f : Steps(f, n) /\ InTree = f[n]
  <2> DEFINE g == CHOOSE f : f = [k \in 0 .. n |-> IF k = 0 THEN {1}
                      ELSE f[k - 1] \cup UNION {{tree[m].left, tree[m].right} \ {0} : m \in f[k - 1]}]
  <2>1. g = [k \in 0 .. n |-> IF k = 0 THEN {1}
                      ELSE g[k - 1] \cup UNION {{tree[m].left, tree[m].right} \ {0} : m \in g[k - 1]}]
    BY <1>2 DEF Steps
  <2>2. InTree = g[n]
    BY <1>1 DEF InTree
  <2> QED BY <2>1, <2>2 DEF Steps
<1>4. \A k \in 0 .. n : f[k] = IF k = 0 THEN {1}
                      ELSE f[k - 1] \cup UNION {{tree[m].left, tree[m].right} \ {0} : m \in f[k - 1]}
  BY <1>3 DEF Steps
<1> DEFINE S == {k \in 0 .. n : ~ f[k] \subseteq DOMAIN tree}
<1>5. SUFFICES ASSUME S # {} PROVE FALSE
  BY <1>3
<1>6. S \in SUBSET Nat
  OBVIOUS
<1>7. PICK k \in S : \A j \in S : k <= j
  BY <1>5, <1>6, LeastOne
<1>8. k # 0
  <2>1. 0 \in 0 .. n => f[0] = {1}
    BY <1>4
  <2> QED BY <1>0, <1>7, <2>1
<1>9. PICK p \in 0 .. n : k = p + 1 /\ p = k - 1
  BY <1>7, <1>8
<1>10. p \notin S
  BY <1>7, <1>9
<1>11. f[p] \subseteq DOMAIN tree
  BY <1>10
<1>12. \A m \in DOMAIN tree : {tree[m].left, tree[m].right} \ {0} \subseteq DOMAIN tree
  BY DEF Heap, Linked
<1>13. f[k] = f[p] \cup UNION {{tree[m].left, tree[m].right} \ {0} : m \in f[p]}
  BY <1>4, <1>7, <1>8, <1>9
<1>14. f[k] \subseteq DOMAIN tree
  BY <1>11, <1>12, <1>13
<1> QED BY <1>7, <1>14

LEMMA SameLevel ==
  ASSUME NEW n, tree[n].op \in BinOps \cup {"NOT"}
  PROVE  Level(n) = expr_op_level(tree[n].op)
<1>1. tree[n].op \in AllOps \cup {"NOT"}
  BY OperatorLevels
<1> QED BY <1>1 DEF Level, expr_op_level, AllOps

LEMMA FinishedBinds == TreeInv => RightBinds
<1> SUFFICES ASSUME TreeInv, Done, NEW n \in InTree
             PROVE  /\ Binary(n) => ~ Loose(tree[n].right, n)
                    /\ tree[n].op = "NOT" => ~ Loose(tree[n].left, n)
  BY DEF RightBinds
<1>1. n \in DOMAIN tree
  BY InTreeAreNodes DEF TreeInv
<1>2. OpenRoots(calls) = {}
  BY DEF Done, OpenRoots
<1>3. EdgeBinds(tree, {}, n)
  BY <1>1, <1>2 DEF TreeInv, EdgesBind
<1>4. ASSUME NEW m, Governs(tree[n]), ~ Looser(tree[m], tree[n])
      PROVE  ~ Loose(m, n)
  BY <1>4, SameLevel DEF Loose, Looser, Binary, Governs
<1> QED BY <1>3, <1>4, OperatorLevels DEF EdgeBinds, Governs, Argued, Binary

(* In the tree of every expression an operator has no operator to its      *)
(* right, and NOT none below it, that binds less tightly and stands        *)
(* outside of parentheses (parser.c:432-475).                              *)
THEOREM RightOperandsBind == ExprSpec => []RightBinds
<1>1. ExprInit => TreeInv
  BY TreeBegins
<1>2. TreeInv /\ [ExprNext]_exprVars => TreeInv'
  BY TreeGoesOn
<1>3. TreeInv => RightBinds
  BY FinishedBinds
<1> QED BY <1>1, <1>2, <1>3, PTL DEF ExprSpec
=============================================================================
