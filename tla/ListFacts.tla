----------------------------- MODULE ListFacts ------------------------------
(***************************************************************************)
(* Facts that the proofs about lists and about loops share.                *)
(*                                                                         *)
(* Induction and recursive functions come in a form the provers can use.   *)
(* The theorems of NaturalsInduction take the predicate, or the body of    *)
(* the recursion, as an operator.  Here a predicate is the set of numbers  *)
(* that satisfy it, and the body of a recursion a function from the value  *)
(* before to the value.  All rests on the least number of a set.           *)
(***************************************************************************)
EXTENDS KernelList, WellFoundedInduction, SequenceTheorems, TLAPS

(* A set of numbers that is not empty has a least one. *)
LEMMA LeastNumber ==
  ASSUME NEW S \in SUBSET Nat, S # {}
  PROVE  \E n \in S : \A m \in S : n <= m
<1> DEFINE R == OpToRel(<, Nat)
<1>1. IsWellFoundedOn(R, Nat)
  BY NatLessThanWellFounded
<1> HIDE DEF R
<1>2. PICK n \in S : \A m \in S : ~(<<m, n>> \in R)
  BY <1>1, WFMin
<1>3. n \in Nat /\ \A m \in S : m \in Nat /\ (m < n => <<m, n>> \in R)
  BY DEF R, OpToRel
<1>4. \A m \in S : ~(m < n)
  BY <1>2, <1>3, Zenon
<1>5. \A m \in S : n <= m
  BY <1>3, <1>4
<1> QED BY <1>5

(* A set with 0, and with n + 1 for each of its n, has all numbers. *)
LEMMA Induction ==
  ASSUME NEW S, 0 \in S, \A n \in Nat : n \in S => n + 1 \in S
  PROVE  Nat \subseteq S
<1> SUFFICES ASSUME Nat \ S # {} PROVE FALSE
  OBVIOUS
<1>1. PICK n \in Nat \ S : \A m \in Nat \ S : n <= m
  BY LeastNumber
<1>2. n - 1 \in Nat /\ n - 1 \in S
  BY <1>1
<1> QED BY <1>2

(* The same up to a bound. *)
LEMMA InductionTo ==
  ASSUME NEW N \in Nat, NEW S, 0 \in S, \A n \in 1 .. N : n - 1 \in S => n \in S
  PROVE  0 .. N \subseteq S
<1> DEFINE T == {n \in Nat : n <= N => n \in S}
<1>1. 0 \in T
  OBVIOUS
<1>2. ASSUME NEW n \in Nat, n \in T PROVE n + 1 \in T
  <2> SUFFICES ASSUME n + 1 <= N PROVE n + 1 \in S
    OBVIOUS
  <2>1. n \in S /\ n + 1 \in 1 .. N /\ (n + 1) - 1 = n
    BY <1>2
  <2> QED BY <2>1
<1>3. Nat \subseteq T
  <2> HIDE DEF T
  <2> QED BY <1>1, <1>2, Induction
<1> QED BY <1>3

(* A loop of N rounds: f has its value before the first round and after    *)
(* each, and step what the rounds make of it.                              *)
Loop(N, V, base, step, f) ==
  /\ f \in [0 .. N -> V]
  /\ f[0] = base
  /\ \A n \in 1 .. N : f[n] = step[n][f[n - 1]]

(* There is such a function. *)
LEMMA Iterates ==
  ASSUME NEW N \in Nat, NEW V, NEW base \in V, NEW step \in [1 .. N -> [V -> V]]
  PROVE  \E f : Loop(N, V, base, step, f)
<1> DEFINE Good(n, f) == f[0] = base /\ \A i \in 1 .. N : i <= n => f[i] = step[i][f[i - 1]]
           S == {n \in Nat : \E f \in [0 .. N -> V] : Good(n, f)}
<1>1. 0 \in S
  <2>1. [i \in 0 .. N |-> base] \in [0 .. N -> V] /\ Good(0, [i \in 0 .. N |-> base])
    OBVIOUS
  <2> QED BY <2>1
<1>2. ASSUME NEW n \in Nat, n \in S PROVE n + 1 \in S
  <2>1. PICK f \in [0 .. N -> V] : Good(n, f)
    BY <1>2
  <2>2. CASE n >= N
    <3>1. Good(n + 1, f)
      BY <2>1, <2>2
    <3> QED BY <3>1
  <2>3. CASE n < N
    <3> DEFINE v == step[n + 1][f[n]]
               g == [f EXCEPT ![n + 1] = v]
    <3>1. n \in 0 .. N /\ n + 1 \in 1 .. N /\ f[n] \in V /\ step[n + 1] \in [V -> V] /\ v \in V
      BY <2>3
    <3> HIDE DEF v
    <3>2. g \in [0 .. N -> V] /\ g[n + 1] = v /\ \A i \in 0 .. N : i # n + 1 => g[i] = f[i]
      BY <3>1
    <3> HIDE DEF g
    <3>3. Good(n + 1, g)
      <4>1. g[0] = base
        BY <2>1, <3>2
      <4>2. ASSUME NEW i \in 1 .. N, i <= n + 1 PROVE g[i] = step[i][g[i - 1]]
        <5>1. i - 1 \in 0 .. N /\ i - 1 # n + 1 /\ i \in 0 .. N
          BY <4>2
        <5>2. CASE i = n + 1
          BY <3>2, <5>1, <5>2 DEF v
        <5>3. CASE i <= n
          BY <2>1, <3>2, <5>1, <5>3
        <5> QED BY <4>2, <5>2, <5>3
      <4> QED BY <4>1, <4>2
    <3> QED BY <3>2, <3>3
  <2> QED BY <2>2, <2>3
<1>3. N \in S
  <2> HIDE DEF S
  <2> QED BY <1>1, <1>2, Induction
<1>4. PICK f \in [0 .. N -> V] : Good(N, f)
  BY <1>3
<1>5. Loop(N, V, base, step, f)
  BY <1>4 DEF Loop
<1> QED BY <1>5

(* A recursion that goes n[x] back at x, for as long as there is so much   *)
(* above the least argument.                                               *)
Back(M, N, V, base, n, step, f) ==
  /\ f \in [M .. N -> V]
  /\ \A x \in M .. N : f[x] = IF x - n[x] < M THEN base[x] ELSE step[x][f[x - n[x]]]

(* There is such a function. *)
LEMMA GoesBack ==
  ASSUME NEW M \in Nat, NEW N \in Nat, NEW V, NEW base \in [M .. N -> V],
         NEW n \in [M .. N -> Nat \ {0}], NEW step \in [M .. N -> [V -> V]]
  PROVE  \E f : Back(M, N, V, base, n, step, f)
<1> DEFINE At(x, f) == IF x - n[x] < M THEN base[x] ELSE step[x][f[x - n[x]]]
           Good(k, f) == \A x \in M .. N : x < k => f[x] = At(x, f)
           S == {k \in Nat : \E f \in [M .. N -> V] : Good(k, f)}
<1>1. 0 \in S
  <2>1. Good(0, base)
    OBVIOUS
  <2> HIDE DEF Good
  <2> QED BY <2>1
<1>2. ASSUME NEW k \in Nat, k \in S PROVE k + 1 \in S
  <2>1. PICK f \in [M .. N -> V] : Good(k, f)
    BY <1>2
  <2>2. CASE k \notin M .. N
    <3>1. Good(k + 1, f)
      BY <2>1, <2>2
    <3> HIDE DEF Good
    <3> QED BY <3>1
  <2>3. CASE k \in M .. N
    <3> DEFINE v == At(k, f)
               g == [f EXCEPT ![k] = v]
    <3>1. v \in V
      <4>1. CASE k - n[k] < M
        BY <2>3, <4>1
      <4>2. CASE ~(k - n[k] < M)
        <5>1. k - n[k] \in M .. N /\ step[k] \in [V -> V]
          BY <2>3, <4>2
        <5> QED BY <4>2, <5>1
      <4> QED BY <4>1, <4>2
    <3> HIDE DEF v
    <3>2. g \in [M .. N -> V] /\ g[k] = v /\ \A i \in M .. N : i # k => g[i] = f[i]
      BY <2>3, <3>1
    <3> HIDE DEF g
    <3>3. Good(k + 1, g)
      <4> SUFFICES ASSUME NEW x \in M .. N, x < k + 1 PROVE g[x] = At(x, g)
        OBVIOUS
      <4>1. At(x, g) = At(x, f)
        <5>1. CASE x - n[x] < M
          BY <5>1
        <5>2. CASE ~(x - n[x] < M)
          <6>1. x - n[x] \in M .. N /\ x - n[x] # k
            BY <2>3, <5>2
          <6> QED BY <3>2, <5>2, <6>1
        <5> QED BY <5>1, <5>2
      <4>2. CASE x = k
        BY <3>2, <4>1, <4>2 DEF v
      <4>3. CASE x < k
        BY <2>1, <3>2, <4>1, <4>3
      <4> QED BY <2>3, <4>2, <4>3
    <3> HIDE DEF Good
    <3> QED BY <3>2, <3>3
  <2> HIDE DEF S
  <2> QED BY <2>2, <2>3
<1>3. N + 1 \in S
  <2> HIDE DEF S
  <2> QED BY <1>1, <1>2, Induction
<1>4. PICK f \in [M .. N -> V] : Good(N + 1, f)
  BY <1>3
<1>5. Back(M, N, V, base, n, step, f)
  BY <1>4 DEF Back
<1> QED BY <1>5
-----------------------------------------------------------------------------
(***************************************************************************)
(* Lists of objects that are linked into them once.                        *)
(***************************************************************************)
(* Every two objects of the list s, in this order, are in the relation R. *)
Ordered(s, R) == \A i, j \in 1..Len(s) : i <= j => <<s[i], s[j]>> \in R

(* A sequence by its places. *)
LEMMA SetOfSeq ==
  ASSUME NEW S, NEW s \in Seq(S)
  PROVE  /\ Len(s) \in Nat /\ ToSet(s) = {s[i] : i \in 1..Len(s)}
         /\ \A i \in 1..Len(s) : s[i] \in S
         /\ IsInjective(s) <=> \A i, j \in 1..Len(s) : s[i] = s[j] => i = j
BY DEF ToSet, IsInjective

(* What RemoveAt leaves of a sequence, place by place. *)
LEMMA RemoveShape ==
  ASSUME NEW S, NEW s \in Seq(S), NEW p \in 1..Len(s)
  PROVE  /\ RemoveAt(s, p) \in Seq(S) /\ Len(RemoveAt(s, p)) = Len(s) - 1
         /\ \A i \in 1..(Len(s) - 1) : RemoveAt(s, p)[i] = IF i < p THEN s[i] ELSE s[i + 1]
<1> DEFINE a == SubSeq(s, 1, p - 1)
           b == SubSeq(s, p + 1, Len(s))
<1>0. Len(s) \in Nat /\ p \in Nat /\ p >= 1 /\ p <= Len(s)
  OBVIOUS
<1>1. a \in Seq(S) /\ Len(a) = p - 1 /\ \A i \in 1..(p - 1) : a[i] = s[i]
  <2>1. \A i \in 1..(p - 1) : s[i] \in S
    BY <1>0
  <2>2. /\ a \in Seq(S) /\ Len(a) = IF 1 <= p - 1 THEN (p - 1) - 1 + 1 ELSE 0
        /\ \A i \in 1..((p - 1) - 1 + 1) : a[i] = s[1 + i - 1]
    BY <1>0, <2>1, SubSeqProperties
  <2> HIDE DEF a
  <2> QED BY <1>0, <2>2
<1>2. b \in Seq(S) /\ Len(b) = Len(s) - p /\ \A i \in 1..(Len(s) - p) : b[i] = s[p + i]
  <2>1. \A i \in (p + 1)..Len(s) : s[i] \in S
    BY <1>0
  <2>2. /\ b \in Seq(S) /\ Len(b) = IF p + 1 <= Len(s) THEN Len(s) - (p + 1) + 1 ELSE 0
        /\ \A i \in 1..(Len(s) - (p + 1) + 1) : b[i] = s[(p + 1) + i - 1]
    BY <1>0, <2>1, SubSeqProperties
  <2> HIDE DEF b
  <2>3. Len(s) - (p + 1) + 1 = Len(s) - p /\ \A i \in 1..(Len(s) - p) : (p + 1) + i - 1 = p + i
    BY <1>0
  <2>4. Len(b) = Len(s) - p
    BY <1>0, <2>2
  <2>5. \A i \in 1..(Len(s) - p) : b[i] = s[p + i]
    <3> TAKE i \in 1..(Len(s) - p)
    <3>1. b[i] = s[(p + 1) + i - 1] /\ (p + 1) + i - 1 = p + i
      BY <2>2, <2>3
    <3> QED BY <3>1
  <2> QED BY <2>2, <2>4, <2>5
<1> HIDE DEF a, b
<1>3. /\ a \o b \in Seq(S) /\ Len(a \o b) = Len(a) + Len(b)
      /\ \A i \in 1..(Len(a) + Len(b)) : (a \o b)[i] = IF i <= Len(a) THEN a[i] ELSE b[i - Len(a)]
  BY <1>1, <1>2, ConcatProperties, Zenon
<1> DEFINE f == a \o b
<1>4. /\ f \in Seq(S) /\ Len(f) = Len(s) - 1
      /\ \A i \in 1..(Len(s) - 1) : f[i] = IF i <= p - 1 THEN a[i] ELSE b[i - (p - 1)]
  <2>1. Len(a) + Len(b) = Len(s) - 1
    BY <1>0, <1>1, <1>2
  <2> HIDE DEF f
  <2> QED BY <1>1, <1>3, <2>1 DEF f
<1>5. RemoveAt(s, p) = f
  BY DEF RemoveAt, a, b
<1> HIDE DEF f
<1>6. \A i \in 1..(Len(s) - 1) : f[i] = IF i < p THEN s[i] ELSE s[i + 1]
  <2> TAKE i \in 1..(Len(s) - 1)
  <2>1. CASE i < p
    BY <1>0, <1>1, <1>4, <2>1
  <2>2. CASE i >= p
    <3>1. i - (p - 1) \in 1..(Len(s) - p) /\ p + (i - (p - 1)) = i + 1
      BY <1>0, <2>2
    <3>2. b[i - (p - 1)] = s[i + 1]
      BY <1>2, <3>1
    <3> QED BY <1>0, <1>4, <2>2, <3>2
  <2> QED BY <1>0, <2>1, <2>2
<1> QED BY <1>4, <1>5, <1>6

(* list_del takes one object out and keeps the order of the others. *)
LEMMA DelAny ==
  ASSUME NEW S, NEW s \in Seq(S), IsInjective(s), NEW d, NEW R
  PROVE  /\ list_del(s, d) \in Seq(S) /\ IsInjective(list_del(s, d))
         /\ ToSet(list_del(s, d)) = ToSet(s) \ {d}
         /\ Ordered(s, R) => Ordered(list_del(s, d), R)
<1>1. CASE d \notin ToSet(s)
  BY <1>1 DEF list_del
<1>2. CASE d \in ToSet(s)
  <2> DEFINE n == Len(s)
             p == CHOOSE i \in 1..Len(s) : s[i] = d
             t == RemoveAt(s, p)
  <2>1. n \in Nat /\ p \in 1..n /\ s[p] = d /\ list_del(s, d) = t
    BY <1>2, SetOfSeq DEF list_del
  <2> HIDE DEF p
  <2>2. /\ t \in Seq(S) /\ Len(t) = n - 1
        /\ \A i \in 1..(n - 1) : t[i] = IF i < p THEN s[i] ELSE s[i + 1]
    BY <2>1, RemoveShape
  <2>3. /\ ToSet(t) = {t[i] : i \in 1..(n - 1)} /\ ToSet(s) = {s[i] : i \in 1..n}
        /\ IsInjective(t) <=> \A i, j \in 1..(n - 1) : t[i] = t[j] => i = j
        /\ \A i, j \in 1..n : s[i] = s[j] => i = j
    BY <2>2, SetOfSeq
  <2> HIDE DEF n, t
  (* The place in s of an element of t, and back. *)
  <2> DEFINE old(i) == IF i < p THEN i ELSE i + 1
             new(k) == IF k < p THEN k ELSE k - 1
  <2>4. \A i \in 1..(n - 1) : old(i) \in 1..n /\ old(i) # p /\ t[i] = s[old(i)]
    BY <2>1, <2>2
  <2>5. \A i, j \in 1..(n - 1) : (i <= j => old(i) <= old(j)) /\ (old(i) = old(j) => i = j)
    BY <2>1
  <2>6. \A k \in 1..n : k # p => new(k) \in 1..(n - 1) /\ old(new(k)) = k
    BY <2>1
  <2> HIDE DEF old, new
  <2>7. IsInjective(t)
    BY <2>3, <2>4, <2>5
  <2>8. \A x \in ToSet(t) : x \in ToSet(s) \ {d}
    BY <2>1, <2>3, <2>4
  <2>9. \A x \in ToSet(s) \ {d} : x \in ToSet(t)
    <3> TAKE x \in ToSet(s) \ {d}
    <3>1. PICK k \in 1..n : x = s[k]
      BY <2>3
    <3>2. new(k) \in 1..(n - 1) /\ t[new(k)] = s[k]
      BY <2>1, <2>4, <2>6, <3>1
    <3> QED BY <2>3, <3>1, <3>2
  <2>10. Ordered(s, R) => Ordered(t, R)
    <3> SUFFICES ASSUME Ordered(s, R), NEW i \in 1..(n - 1), NEW j \in 1..(n - 1), i <= j
                 PROVE  <<t[i], t[j]>> \in R
      BY <2>2 DEF Ordered
    <3>1. <<s[old(i)], s[old(j)]>> \in R
      BY <2>4, <2>5 DEF Ordered, n
    <3> QED BY <2>4, <3>1
  <2> QED BY <2>1, <2>2, <2>7, <2>8, <2>9, <2>10
<1> QED BY <1>1, <1>2

(* list_splice of two lists that share no object. *)
LEMMA JoinAny ==
  ASSUME NEW S, NEW a \in Seq(S), IsInjective(a), NEW b \in Seq(S), IsInjective(b),
         ToSet(a) \cap ToSet(b) = {}, NEW R
  PROVE  /\ a \o b \in Seq(S) /\ IsInjective(a \o b)
         /\ ToSet(a \o b) = ToSet(a) \cup ToSet(b)
         /\ /\ Ordered(a, R) /\ Ordered(b, R)
            /\ \A x \in ToSet(a), y \in ToSet(b) : <<x, y>> \in R
            => Ordered(a \o b, R)
<1> DEFINE m == Len(a)
           n == Len(b)
           t == a \o b
<1>1. /\ m \in Nat /\ ToSet(a) = {a[i] : i \in 1..m} /\ \A i, j \in 1..m : a[i] = a[j] => i = j
      /\ n \in Nat /\ ToSet(b) = {b[i] : i \in 1..n} /\ \A i, j \in 1..n : b[i] = b[j] => i = j
  BY SetOfSeq
<1>2. /\ t \in Seq(S) /\ Len(t) = m + n
      /\ \A i \in 1..(m + n) : t[i] = IF i <= m THEN a[i] ELSE b[i - m]
  BY ConcatProperties, Zenon
<1>3. /\ ToSet(t) = {t[i] : i \in 1..(m + n)}
      /\ IsInjective(t) <=> \A i, j \in 1..(m + n) : t[i] = t[j] => i = j
  <2> HIDE DEF t, m, n
  <2> QED BY <1>2, SetOfSeq
<1>4. \A i, j \in 1..m : Ordered(a, R) /\ i <= j => <<a[i], a[j]>> \in R
  BY DEF Ordered
<1>5. \A i, j \in 1..n : Ordered(b, R) /\ i <= j => <<b[i], b[j]>> \in R
  BY DEF Ordered
<1>6. Ordered(t, R) <=> \A i, j \in 1..(m + n) : i <= j => <<t[i], t[j]>> \in R
  BY <1>2 DEF Ordered
<1> HIDE DEF m, n, t
<1>7. \A i \in 1..(m + n) : \/ (i \in 1..m /\ t[i] = a[i])
                            \/ (i - m \in 1..n /\ i > m /\ t[i] = b[i - m])
  BY <1>1, <1>2
<1>8. (\A i \in 1..m : i \in 1..(m + n) /\ t[i] = a[i])
        /\ (\A i \in 1..n : i + m \in 1..(m + n) /\ t[i + m] = b[i])
  BY <1>1, <1>2
<1>9. ToSet(t) = ToSet(a) \cup ToSet(b)
  <2>1. \A x \in ToSet(t) : x \in ToSet(a) \cup ToSet(b)
    BY <1>1, <1>3, <1>7
  <2>2. \A x \in ToSet(a) : x \in ToSet(t)
    <3> TAKE x \in ToSet(a)
    <3>1. PICK i \in 1..m : x = a[i]
      BY <1>1
    <3>2. i \in 1..(m + n) /\ t[i] = x
      BY <1>8, <3>1
    <3> QED BY <1>3, <3>2
  <2>3. \A x \in ToSet(b) : x \in ToSet(t)
    <3> TAKE x \in ToSet(b)
    <3>1. PICK i \in 1..n : x = b[i]
      BY <1>1
    <3>2. i + m \in 1..(m + n) /\ t[i + m] = x
      BY <1>8, <3>1
    <3> QED BY <1>3, <3>2
  <2> QED BY <2>1, <2>2, <2>3
<1>10. \A i \in 1..m, j \in 1..n : a[i] # b[j]
  BY <1>1
<1>11. IsInjective(t)
  <2> SUFFICES ASSUME NEW i \in 1..(m + n), NEW j \in 1..(m + n), t[i] = t[j] PROVE i = j
    BY <1>3
  <2>1. CASE i \in 1..m /\ j \in 1..m
    BY <1>1, <1>8, <2>1
  <2>2. CASE i \in 1..m /\ j \notin 1..m
    BY <1>7, <1>8, <1>10, <2>2
  <2>3. CASE i \notin 1..m /\ j \in 1..m
    BY <1>7, <1>8, <1>10, <2>3
  <2>4. CASE i \notin 1..m /\ j \notin 1..m
    <3>1. i - m \in 1..n /\ j - m \in 1..n /\ b[i - m] = b[j - m]
      BY <1>7, <2>4
    <3>2. i - m = j - m
      BY <1>1, <3>1
    <3> QED BY <1>1, <3>2
  <2> QED BY <2>1, <2>2, <2>3, <2>4
<1>12. ASSUME Ordered(a, R), Ordered(b, R), \A x \in ToSet(a), y \in ToSet(b) : <<x, y>> \in R
       PROVE  Ordered(t, R)
  <2> SUFFICES ASSUME NEW i \in 1..(m + n), NEW j \in 1..(m + n), i <= j PROVE <<t[i], t[j]>> \in R
    BY <1>6
  <2>1. CASE i \in 1..m /\ j \in 1..m
    BY <1>4, <1>8, <1>12, <2>1
  <2>2. CASE i \in 1..m /\ j \notin 1..m
    <3>1. t[i] \in ToSet(a)
      BY <1>1, <1>8, <2>2
    <3>2. j - m \in 1..n /\ t[j] = b[j - m]
      BY <1>7, <2>2
    <3>3. t[j] \in ToSet(b)
      BY <1>1, <3>2
    <3> QED BY <1>12, <3>1, <3>3
  <2>3. CASE i \notin 1..m /\ j \in 1..m
    BY <1>1, <2>3
  <2>4. CASE i \notin 1..m /\ j \notin 1..m
    <3>1. i - m \in 1..n /\ j - m \in 1..n /\ i - m <= j - m
      BY <1>1, <1>7, <2>4
    <3>2. <<b[i - m], b[j - m]>> \in R
      BY <1>5, <1>12, <3>1
    <3> QED BY <1>7, <2>4, <3>2
  <2> QED BY <2>1, <2>2, <2>3, <2>4
<1> QED BY <1>2, <1>9, <1>11, <1>12 DEF t

(* A list of one object. *)
LEMMA OneAny ==
  ASSUME NEW S, NEW d \in S, NEW R
  PROVE  /\ <<d>> \in Seq(S) /\ IsInjective(<<d>>) /\ ToSet(<<d>>) = {d}
         /\ <<d, d>> \in R => Ordered(<<d>>, R)
<1>1. <<d>> \in Seq(S) /\ Len(<<d>>) = 1 /\ <<d>>[1] = d
  OBVIOUS
<1> DEFINE t == <<d>>
<1> HIDE DEF t
<1>2. t \in Seq(S) /\ Len(t) = 1 /\ t[1] = d
  BY <1>1 DEF t
<1>3. \A i \in 1..Len(t) : i = 1
  BY <1>2
<1>4. ToSet(t) = {t[i] : i \in 1..Len(t)}
  BY <1>2, SetOfSeq
<1>5. IsInjective(t)
  BY <1>2, <1>3, SetOfSeq
<1>6. ToSet(t) = {d}
  BY <1>2, <1>3, <1>4
<1>7. <<d, d>> \in R => Ordered(t, R)
  BY <1>2, <1>3 DEF Ordered
<1> QED BY <1>2, <1>5, <1>6, <1>7 DEF t

(* list_add_tail and list_add. *)
LEMMA AddAny ==
  ASSUME NEW S, NEW s \in Seq(S), IsInjective(s), NEW d \in S, d \notin ToSet(s), NEW R,
         <<d, d>> \in R
  PROVE  /\ Append(s, d) \in Seq(S) /\ IsInjective(Append(s, d))
         /\ ToSet(Append(s, d)) = ToSet(s) \cup {d}
         /\ <<d>> \o s \in Seq(S) /\ IsInjective(<<d>> \o s)
         /\ ToSet(<<d>> \o s) = ToSet(s) \cup {d}
         /\ Ordered(s, R) /\ (\A x \in ToSet(s) : <<x, d>> \in R) => Ordered(Append(s, d), R)
         /\ Ordered(s, R) /\ (\A x \in ToSet(s) : <<d, x>> \in R) => Ordered(<<d>> \o s, R)
<1> DEFINE one == <<d>>
<1>1. one \in Seq(S) /\ IsInjective(one) /\ ToSet(one) = {d} /\ Ordered(one, R)
  BY OneAny
<1>2. Append(s, d) = s \o one
  OBVIOUS
<1> HIDE DEF one
<1>3. /\ s \o one \in Seq(S) /\ IsInjective(s \o one)
      /\ ToSet(s \o one) = ToSet(s) \cup {d}
      /\ Ordered(s, R) /\ (\A x \in ToSet(s) : <<x, d>> \in R) => Ordered(s \o one, R)
  BY <1>1, JoinAny
<1>4. /\ one \o s \in Seq(S) /\ IsInjective(one \o s)
      /\ ToSet(one \o s) = ToSet(s) \cup {d}
      /\ Ordered(s, R) /\ (\A x \in ToSet(s) : <<d, x>> \in R) => Ordered(one \o s, R)
  BY <1>1, JoinAny
<1> QED BY <1>2, <1>3, <1>4 DEF one

(* list_del of any list is a list. *)
LEMMA DelIsList ==
  ASSUME NEW S, NEW s \in Seq(S), NEW d PROVE list_del(s, d) \in Seq(S)
<1>1. CASE d \notin ToSet(s)
  BY <1>1 DEF list_del
<1>2. CASE d \in ToSet(s)
  <2> DEFINE p == CHOOSE i \in 1..Len(s) : s[i] = d
  <2>1. p \in 1..Len(s) /\ list_del(s, d) = RemoveAt(s, p)
    BY <1>2, SetOfSeq DEF list_del
  <2> HIDE DEF p
  <2> QED BY <2>1, RemoveShape
<1> QED BY <1>1, <1>2
=============================================================================
