----------------------------- MODULE ListLemmas -----------------------------
(***************************************************************************)
(* What the operations on lists that the models use (Append, Tail,         *)
(* RemoveAt, RemoveFirst, Erased) do to the elements of a list.            *)
(***************************************************************************)
EXTENDS Integers, Sequences, SequencesExt, Lists, SequenceTheorems, FiniteSetTheorems, TLAPS

(* No element of a list stands in it twice. *)
Distinct(q) == \A i, j \in 1..Len(q) : q[i] = q[j] => i = j

(* Adding an element at the end of a list. *)
LEMMA ContainsAppend ==
    ASSUME NEW S, NEW q \in Seq(S), NEW x \in S
    PROVE  /\ Append(q, x) \in Seq(S) /\ Len(Append(q, x)) = Len(q) + 1
           /\ \A e : Contains(Append(q, x), e) <=> Contains(q, e) \/ e = x
           /\ Distinct(q) /\ ~Contains(q, x) => Distinct(Append(q, x))
           /\ q # <<>> => Head(Append(q, x)) = Head(q)
           /\ q = <<>> => Head(Append(q, x)) = x
           /\ Append(q, x) # <<>>
<1> DEFINE r == Append(q, x)
<1>1. /\ r \in Seq(S) /\ Len(r) = Len(q) + 1 /\ Len(q) \in Nat
      /\ \A i \in 1..Len(q) : r[i] = q[i]
      /\ r[Len(q) + 1] = x
  BY AppendProperties
<1> HIDE DEF r
<1>2. \A e : Contains(r, e) <=> Contains(q, e) \/ e = x
  BY <1>1 DEF Contains
<1>3. Distinct(q) /\ ~Contains(q, x) => Distinct(r)
  BY <1>1 DEF Contains, Distinct
<1>4. r # <<>> /\ Head(r) = r[1]
  BY <1>1
<1>5. q # <<>> => Head(q) = q[1] /\ 1 \in 1..Len(q)
  BY <1>1
<1>6. q = <<>> => Len(q) = 0
  OBVIOUS
<1> QED BY <1>1, <1>2, <1>3, <1>4, <1>5, <1>6 DEF r

(* Taking the first element off a list. *)
LEMMA ContainsTail ==
    ASSUME NEW S, NEW q \in Seq(S), q # <<>>
    PROVE  /\ Head(q) \in S /\ Contains(q, Head(q))
           /\ Tail(q) \in Seq(S) /\ Len(Tail(q)) = Len(q) - 1
           /\ \A e : Contains(Tail(q), e) => Contains(q, e)
           /\ \A e : Contains(q, e) /\ e # Head(q) => Contains(Tail(q), e)
           /\ Distinct(q) => Distinct(Tail(q)) /\ ~Contains(Tail(q), Head(q))
<1> DEFINE r == Tail(q)
<1>1. /\ r \in Seq(S) /\ Len(r) = Len(q) - 1 /\ Len(q) \in Nat /\ Len(q) > 0
      /\ \A i \in 1..Len(r) : r[i] = q[i + 1]
      /\ Head(q) = q[1] /\ Head(q) \in S
  BY HeadTailProperties
<1> HIDE DEF r
<1>2. Contains(q, Head(q))
  BY <1>1 DEF Contains
<1>3. \A e : Contains(r, e) => Contains(q, e)
  BY <1>1 DEF Contains
<1>4. ASSUME NEW e, Contains(q, e), e # Head(q) PROVE Contains(r, e)
  <2>1. PICK i \in 1..Len(q) : q[i] = e
    BY <1>4 DEF Contains
  <2>2. i # 1 /\ i - 1 \in 1..Len(r) /\ r[i - 1] = q[i]
    BY <1>1, <1>4, <2>1
  <2> QED BY <2>1, <2>2 DEF Contains
<1>5. Distinct(q) => Distinct(r) /\ ~Contains(r, Head(q))
  BY SMTT(30), <1>1 DEF Contains, Distinct
<1> QED BY <1>1, <1>2, <1>3, <1>4, <1>5 DEF r

(* Taking the element at an index out of a list. *)
LEMMA RemoveAtProperties ==
    ASSUME NEW S, NEW q \in Seq(S), NEW k \in 1..Len(q)
    PROVE  /\ RemoveAt(q, k) \in Seq(S) /\ Len(RemoveAt(q, k)) = Len(q) - 1
           /\ \A i \in 1..(Len(q) - 1) :
                  RemoveAt(q, k)[i] = IF i < k THEN q[i] ELSE q[i + 1]
<1> DEFINE a == SubSeq(q, 1, k - 1)
           b == SubSeq(q, k + 1, Len(q))
           r == a \o b
<1>1. Len(q) \in Nat /\ \A i \in 1..Len(q) : q[i] \in S
  BY LenProperties, ElementOfSeq
<1>2. /\ a \in Seq(S) /\ Len(a) = k - 1 /\ \A i \in 1..Len(a) : a[i] = q[i]
      /\ b \in Seq(S) /\ Len(b) = Len(q) - k /\ \A i \in 1..Len(b) : b[i] = q[i + k]
  <2>1. \A i \in 1..(k - 1) : q[i] \in S
    BY <1>1
  <2>2. /\ a \in Seq(S) /\ Len(a) = IF 1 <= k - 1 THEN (k - 1) - 1 + 1 ELSE 0
        /\ \A i \in 1..((k - 1) - 1 + 1) : a[i] = q[1 + i - 1]
    BY <2>1, SubSeqProperties
  <2>3. \A i \in (k + 1)..Len(q) : q[i] \in S
    BY <1>1
  <2>4. /\ b \in Seq(S) /\ Len(b) = IF k + 1 <= Len(q) THEN Len(q) - (k + 1) + 1 ELSE 0
        /\ \A i \in 1..(Len(q) - (k + 1) + 1) : b[i] = q[(k + 1) + i - 1]
    BY <1>1, <2>3, SubSeqProperties
  <2> HIDE DEF a, b
  <2>0. k \in Nat /\ 1 <= k /\ k <= Len(q) /\ Len(q) \in Nat
    BY <1>1
  <2>5. Len(a) = k - 1 /\ \A i \in 1..Len(a) : a[i] = q[i]
    BY <2>0, <2>2
  <2>6. Len(b) = Len(q) - k /\ \A i \in 1..Len(b) : b[i] = q[i + k]
    BY <2>0, <2>4
  <2> QED BY <2>2, <2>4, <2>5, <2>6
<1> HIDE DEF a, b
<1>3. /\ r \in Seq(S) /\ Len(r) = Len(a) + Len(b)
      /\ \A i \in 1..(Len(a) + Len(b)) : r[i] = IF i <= Len(a) THEN a[i] ELSE b[i - Len(a)]
  BY <1>2, ConcatProperties
<1> HIDE DEF r
<1>4. Len(r) = Len(q) - 1
  BY <1>1, <1>2, <1>3
<1>5. ASSUME NEW i \in 1..(Len(q) - 1) PROVE r[i] = IF i < k THEN q[i] ELSE q[i + 1]
  <2>0. k \in Nat /\ i \in Nat /\ 1 <= i /\ i \in 1..(Len(a) + Len(b))
    BY <1>1, <1>2
  <2>1. CASE i < k
    <3>1. i <= Len(a) /\ i \in 1..Len(a)
      BY <1>2, <2>0, <2>1
    <3>2. r[i] = a[i] /\ a[i] = q[i]
      BY <1>2, <1>3, <2>0, <3>1
    <3> QED BY <2>1, <3>2
  <2>2. CASE ~(i < k)
    <3>1. PICK j : j = i - Len(a)
      OBVIOUS
    <3>2. ~(i <= Len(a)) /\ j \in 1..Len(b) /\ j + k = i + 1
      BY <1>1, <1>2, <2>0, <2>2, <3>1
    <3>3. r[i] = b[j] /\ b[j] = q[j + k]
      BY <1>2, <1>3, <2>0, <3>1, <3>2
    <3> QED BY <2>2, <3>2, <3>3
  <2> QED BY <2>1, <2>2
<1>6. RemoveAt(q, k) = r
  BY DEF RemoveAt, r, a, b
<1> QED BY <1>3, <1>4, <1>5, <1>6

(* Taking an element out of a list that has it once. *)
LEMMA RemoveOne ==
    ASSUME NEW S, NEW q \in Seq(S), NEW e, Distinct(q)
    PROVE  /\ RemoveFirst(q, e) \in Seq(S) /\ Distinct(RemoveFirst(q, e))
           /\ \A x : Contains(RemoveFirst(q, e), x) <=> Contains(q, x) /\ x # e
<1>1. CASE ~Contains(q, e)
  BY <1>1 DEF RemoveFirst, Contains
<1>2. CASE Contains(q, e)
  <2>1. PICK k \in 1..Len(q) : q[k] = e
    BY <1>2 DEF Contains
  <2>2. {i \in 1..Len(q) : q[i] = e} = {k}
    BY <2>1 DEF Distinct
  <2>3. SelectInSeq(q, LAMBDA v : v = e) = k
    BY <2>1, <2>2 DEF SelectInSeq, Min
  <2> DEFINE r == RemoveAt(q, k)
  <2>4. RemoveFirst(q, e) = r
    BY <2>1, <2>3 DEF RemoveFirst
  <2>5. /\ r \in Seq(S) /\ Len(r) = Len(q) - 1 /\ Len(q) \in Nat
        /\ \A i \in 1..(Len(q) - 1) : r[i] = IF i < k THEN q[i] ELSE q[i + 1]
    BY RemoveAtProperties, LenProperties
  <2> HIDE DEF r
  <2>6. \A i \in 1..Len(r) : r[i] = IF i < k THEN q[i] ELSE q[i + 1]
    BY <2>5
  <2>7. Distinct(r)
    BY <2>1, <2>5, <2>6 DEF Distinct
  <2>8. ASSUME NEW x, Contains(r, x) PROVE Contains(q, x) /\ x # e
    <3>1. PICK i \in 1..Len(r) : r[i] = x
      BY <2>8 DEF Contains
    <3>2. \E j \in 1..Len(q) : j # k /\ q[j] = x
      BY <2>1, <2>5, <2>6, <3>1
    <3> QED BY <2>1, <3>2 DEF Contains, Distinct
  <2>9. ASSUME NEW x, Contains(q, x), x # e PROVE Contains(r, x)
    <3>1. PICK j \in 1..Len(q) : q[j] = x
      BY <2>9 DEF Contains
    <3>2. j # k
      BY <2>1, <2>9, <3>1
    <3>3. \E i \in 1..Len(r) : r[i] = x
      <4>1. CASE j < k
        BY <2>1, <2>5, <2>6, <3>1, <4>1
      <4>2. CASE j > k
        <5>1. j - 1 \in 1..Len(r) /\ ~(j - 1 < k) /\ (j - 1) + 1 = j
          BY <2>1, <2>5, <2>6, <4>2
        <5> QED BY <2>5, <2>6, <3>1, <5>1
      <4> QED BY <2>1, <3>2, <4>1, <4>2
    <3> QED BY <3>3 DEF Contains
  <2> QED BY <2>4, <2>5, <2>7, <2>8, <2>9
<1> QED BY <1>1, <1>2

(* Removing the first element by its value is taking it off. *)
LEMMA RemoveHead ==
    ASSUME NEW S, NEW q \in Seq(S), q # <<>>
    PROVE  RemoveFirst(q, Head(q)) = Tail(q)
<1> DEFINE I == {i \in 1..Len(q) : q[i] = Head(q)}
<1>1. 1 \in I /\ I \subseteq 1..Len(q) /\ Len(q) \in Nat /\ Len(q) > 0 /\ Head(q) = q[1]
  BY HeadTailProperties
<1>2. Min(I) = 1
  BY <1>1 DEF Min
<1>3. SelectInSeq(q, LAMBDA v : v = Head(q)) = 1
  BY <1>1, <1>2 DEF SelectInSeq
<1>4. RemoveFirst(q, Head(q)) = SubSeq(q, 1, 1 - 1) \o SubSeq(q, 1 + 1, Len(q))
  BY <1>1, <1>3 DEF RemoveFirst, RemoveAt
<1>5. SubSeq(q, 1, 1 - 1) = <<>> /\ SubSeq(q, 1 + 1, Len(q)) = Tail(q)
  BY <1>1, SubSeqEmpty, TailIsSubSeq
<1>6. <<>> \o Tail(q) = Tail(q)
  BY HeadTailProperties, ConcatEmptySeq
<1> QED BY <1>4, <1>5, <1>6

(* Putting an element before a list. *)
LEMMA ConsProperties ==
    ASSUME NEW S, NEW q \in Seq(S), NEW x \in S
    PROVE  /\ <<x>> \o q \in Seq(S) /\ Len(<<x>> \o q) = Len(q) + 1 /\ <<x>> \o q # <<>>
           /\ (<<x>> \o q)[1] = x /\ \A i \in 1..Len(q) : (<<x>> \o q)[i + 1] = q[i]
           /\ Head(<<x>> \o q) = x /\ Tail(<<x>> \o q) = q
           /\ \A e : Contains(<<x>> \o q, e) <=> Contains(q, e) \/ e = x
<1> DEFINE r == <<x>> \o q
<1>1. <<x>> \in Seq(S) /\ Len(<<x>>) = 1 /\ <<x>>[1] = x
  OBVIOUS
<1>2. /\ r \in Seq(S) /\ Len(r) = Len(<<x>>) + Len(q)
      /\ \A i \in 1..(Len(<<x>>) + Len(q)) :
            r[i] = IF i <= Len(<<x>>) THEN <<x>>[i] ELSE q[i - Len(<<x>>)]
  BY <1>1, ConcatProperties
<1>3. Len(q) \in Nat
  BY LenProperties
<1> HIDE DEF r
<1>4. Len(r) = Len(q) + 1 /\ r[1] = x
  BY <1>1, <1>2, <1>3
<1>5. ASSUME NEW i \in 1..Len(q) PROVE r[i + 1] = q[i]
  <2>1. i + 1 \in 1..(Len(<<x>>) + Len(q)) /\ ~(i + 1 <= Len(<<x>>)) /\ (i + 1) - 1 = i
    BY <1>1, <1>3
  <2> QED BY <1>1, <1>2, <2>1
<1>6. r # <<>> /\ Head(r) = x
  BY <1>2, <1>3, <1>4
<1>7. Tail(r) = q
  <2>1. /\ Tail(r) \in Seq(S) /\ Len(Tail(r)) = Len(r) - 1
        /\ \A i \in 1..Len(Tail(r)) : Tail(r)[i] = r[i + 1]
    BY <1>2, <1>6, HeadTailProperties
  <2>2. Len(Tail(r)) = Len(q) /\ \A i \in 1..Len(q) : Tail(r)[i] = q[i]
    BY <1>3, <1>4, <1>5, <2>1
  <2> QED BY <2>1, <2>2, SeqEqual
<1>8. ASSUME NEW e PROVE Contains(r, e) <=> Contains(q, e) \/ e = x
  <2>1. ASSUME Contains(r, e), e # x PROVE Contains(q, e)
    <3>1. PICK i \in 1..Len(r) : r[i] = e
      BY <2>1 DEF Contains
    <3>2. PICK j : j = i - 1
      OBVIOUS
    <3>3. j \in 1..Len(q) /\ i = j + 1
      BY <1>3, <1>4, <2>1, <3>1, <3>2
    <3> QED BY <1>5, <3>1, <3>3 DEF Contains
  <2>2. ASSUME Contains(q, e) PROVE Contains(r, e)
    <3>1. PICK i \in 1..Len(q) : q[i] = e
      BY <2>2 DEF Contains
    <3>2. i + 1 \in 1..Len(r) /\ r[i + 1] = e
      BY <1>3, <1>4, <1>5, <3>1
    <3> QED BY <3>2 DEF Contains
  <2>3. Contains(r, x)
    <3>1. 1 \in 1..Len(r)
      BY <1>3, <1>4
    <3> QED BY <1>4, <3>1 DEF Contains
  <2> QED BY <2>1, <2>2, <2>3
<1> QED BY <1>2, <1>4, <1>5, <1>6, <1>7, <1>8 DEF r

(* A nonempty set of numbers has a least element. *)
LEMMA LeastElement ==
    ASSUME NEW T \in SUBSET Nat, T # {}
    PROVE  \E i \in T : \A j \in T : i <= j
<1> DEFINE R == {ss \in Nat \X Nat : ss[1] < ss[2]}
<1>0. IsWellFoundedOn(R, Nat)
  BY NatLessThanWellFounded DEF OpToRel
<1> HIDE DEF R
<1>1. PICK i \in T : \A j \in T : <<j, i>> \notin R
  BY <1>0, WFMin
<1>2. ASSUME NEW j \in T PROVE i <= j
  <2>1. ~(<<j, i>>[1] < <<j, i>>[2])
    BY <1>1 DEF R
  <2> QED BY <2>1
<1> QED BY <1>2

(* A nonempty set of indices has a least one, which CHOOSE finds. *)
LEMMA LeastIndex ==
    ASSUME NEW T \in SUBSET Nat, T # {}
    PROVE  (CHOOSE i \in T : \A j \in T : i <= j) \in T
BY LeastElement

(* Induction over the numbers below a bound, for a set G of numbers. *)
LEMMA UpTo ==
    ASSUME NEW n \in Nat, NEW G, 0 \in G, \A i \in 1..n : i - 1 \in G => i \in G
    PROVE  \A i \in 0..n : i \in G
<1> DEFINE T == {i \in 0..n : i \notin G}
<1> SUFFICES ASSUME T # {} PROVE FALSE
  OBVIOUS
<1>1. PICK m \in T : \A j \in T : m <= j
  <2>1. T \in SUBSET Nat
    OBVIOUS
  <2> HIDE DEF T
  <2> QED BY <2>1, LeastElement
<1>2. m \in 1..n /\ m \notin G
  BY <1>1
<1>3. m - 1 \in 0..n /\ ~(m <= m - 1)
  BY <1>2
<1>4. m - 1 \in G
  BY <1>1, <1>3
<1> QED BY <1>2, <1>4

(* Erased takes all entries of a thread out of a queue, and no other. *)
LEMMA ErasedProperties ==
    ASSUME NEW S, NEW q \in Seq(S), NEW e
    PROVE  /\ Erased(q, e) \in Seq(S)
           /\ \A x : Contains(Erased(q, e), x) <=> Contains(q, x) /\ x # e
<1> DEFINE Step(f, i) == IF i = 0 THEN <<>>
                         ELSE IF q[i] = e THEN f[i - 1] ELSE Append(f[i - 1], q[i])
           N == Len(q)
           G == {n \in 0..N : \E f \in [0..n -> Seq(S)] : f = [i \in 0..n |-> Step(f, i)]}
<1>1. N \in Nat /\ \A i \in 1..N : q[i] \in S
  BY LenProperties, ElementOfSeq
<1> HIDE DEF N
<1>2. 0 \in G
  <2> DEFINE f == [i \in 0..0 |-> <<>>]
  <2>1. f \in [0..0 -> Seq(S)] /\ f = [i \in 0..0 |-> Step(f, i)]
    OBVIOUS
  <2> HIDE DEF f, Step
  <2>2. 0 \in 0..N
    BY <1>1
  <2> QED BY <2>1, <2>2
<1>3. ASSUME NEW n \in 1..N, n - 1 \in G PROVE n \in G
  <2>1. PICK f \in [0..(n - 1) -> Seq(S)] : f = [i \in 0..(n - 1) |-> Step(f, i)]
    BY <1>3
  <2>2. n - 1 \in 0..(n - 1) /\ n \in 0..N /\ q[n] \in S
    BY <1>1
  <2> DEFINE g == [i \in 0..n |-> IF i < n THEN f[i] ELSE Step(f, n)]
  <2>3. Step(f, n) \in Seq(S)
    BY <2>2
  <2>4. g \in [0..n -> Seq(S)]
    BY <2>3
  <2>5. ASSUME NEW i \in 0..n PROVE g[i] = Step(g, i)
    <3>1. i # 0 => i - 1 \in 0..n /\ g[i - 1] = f[i - 1]
      BY <2>1
    <3>2. CASE i < n
      <4>1. i \in 0..(n - 1) /\ g[i] = f[i]
        BY <3>2
      <4>2. f[i] = Step(f, i)
        <5> HIDE DEF Step
        <5> QED BY <2>1, <4>1
      <4>3. Step(f, i) = Step(g, i)
        BY <3>1
      <4> QED BY <4>1, <4>2, <4>3
    <3>3. CASE i = n
      <4>1. g[i] = Step(f, n)
        BY <3>3
      <4>2. Step(f, n) = Step(g, n)
        BY <3>1, <3>3
      <4> QED BY <3>3, <4>1, <4>2
    <3> QED BY <3>2, <3>3
  <2> HIDE DEF g, Step
  <2>6. g = [i \in 0..n |-> Step(g, i)]
    BY <2>4, <2>5
  <2> QED BY <2>2, <2>4, <2>6
<1>4. \E f : f = [i \in 0..N |-> Step(f, i)]
  <2>1. N \in G
    <3> HIDE DEF G
    <3>1. \A i \in 0..N : i \in G
      BY <1>1, <1>2, <1>3, UpTo
    <3> QED BY <1>1, <3>1
  <2> QED BY <2>1
<1> DEFINE F == CHOOSE f : f = [i \in 0..N |-> Step(f, i)]
<1>5. F = [i \in 0..N |-> Step(F, i)]
  <2> HIDE DEF Step
  <2> QED BY <1>4
<1>6. Erased(q, e) = F[N]
  BY DEF Erased, N
<1> HIDE DEF F
<1> DEFINE H == {n \in 0..N : /\ F[n] \in Seq(S)
                              /\ \A x : Contains(F[n], x) <=> x # e /\ \E i \in 1..n : q[i] = x}
<1>7. 0 \in H
  <2>1. 0 \in 0..N /\ F[0] = Step(F, 0)
    <3> HIDE DEF Step
    <3> QED BY <1>1, <1>5
  <2>2. F[0] = <<>> /\ F[0] \in Seq(S)
    BY <2>1
  <2>3. \A x : ~Contains(F[0], x) /\ ~\E i \in 1..0 : q[i] = x
    BY <2>2 DEF Contains
  <2> QED BY <2>1, <2>2, <2>3
<1>8. ASSUME NEW n \in 1..N, n - 1 \in H PROVE n \in H
  <2>1. F[n] = IF q[n] = e THEN F[n - 1] ELSE Append(F[n - 1], q[n])
    <3>1. n \in 0..N /\ n # 0
      BY <1>1
    <3>2. F[n] = Step(F, n)
      <4> HIDE DEF Step
      <4> QED BY <1>5, <3>1
    <3> QED BY <3>1, <3>2
  <2>2. /\ F[n - 1] \in Seq(S) /\ q[n] \in S /\ n \in 0..N
        /\ \A x : Contains(F[n - 1], x) <=> x # e /\ \E i \in 1..(n - 1) : q[i] = x
    BY <1>1, <1>8
  <2>3. \A x : (\E i \in 1..n : q[i] = x) <=> (\E i \in 1..(n - 1) : q[i] = x) \/ x = q[n]
    <3>1. \A i \in 1..n : i \in 1..(n - 1) \/ i = n
      OBVIOUS
    <3>2. \A i \in 1..(n - 1) : i \in 1..n
      OBVIOUS
    <3>3. n \in 1..n
      BY <1>1
    <3> QED BY <3>1, <3>2, <3>3
  <2>4. CASE q[n] = e
    <3>1. \A x : Contains(F[n], x) <=> x # e /\ \E i \in 1..n : q[i] = x
      BY <2>1, <2>2, <2>3, <2>4
    <3> QED BY <2>1, <2>2, <2>4, <3>1
  <2>5. CASE q[n] # e
    <3>1. PICK p : p = F[n - 1]
      OBVIOUS
    <3>2. F[n] = Append(p, q[n]) /\ p \in Seq(S)
      BY <2>1, <2>2, <2>5, <3>1
    <3>3. F[n] \in Seq(S) /\ \A x : Contains(F[n], x) <=> Contains(p, x) \/ x = q[n]
      BY <2>2, <3>2, ContainsAppend
    <3>4. \A x : Contains(F[n], x) <=> x # e /\ \E i \in 1..n : q[i] = x
      BY <2>2, <2>3, <2>5, <3>1, <3>3
    <3> QED BY <2>2, <3>3, <3>4
  <2> QED BY <2>4, <2>5
<1>9. N \in H
  <2> HIDE DEF H
  <2>1. \A i \in 0..N : i \in H
    BY <1>1, <1>7, <1>8, UpTo
  <2> QED BY <1>1, <2>1
<1>10. \A x : Contains(q, x) <=> \E i \in 1..N : q[i] = x
  BY DEF Contains, N
<1> QED BY <1>6, <1>9, <1>10
=============================================================================
