---------------------------- MODULE KernelProofs ----------------------------
(***************************************************************************)
(* Proofs about the scheduler and its synchronisation objects, for every   *)
(* number of threads, mutexes, semaphores, events and timers.              *)
(*                                                                         *)
(* An iteration of the dispatcher is a list of tasks, todo, that the       *)
(* actions of Kernel take off one by one.  What the lists of the kernel    *)
(* promise (a thread is in the ready queue exactly while it is ready, and  *)
(* in the observers of an object exactly while it waits for it) holds      *)
(* between two tasks only with the tasks that still have to repair it:     *)
(* Control says, for every thread, which of these are left.  Inv joins     *)
(* both with the mutexes' counts; one lemma for every action shows that    *)
(* it is kept.                                                             *)
(***************************************************************************)
EXTENDS Kernel, ListLemmas, SequenceTheorems, FiniteSetTheorems, TLAPS

-----------------------------------------------------------------------------
(* Lists of the scheduler.                                                  *)

(* The entries of a list are finitely many, and there is one exactly if the  *)
(* list contains the element.                                                *)
LEMMA OccurrencesType ==
    ASSUME NEW S, NEW q \in Seq(S), NEW x
    PROVE  /\ IsFiniteSet({i \in DOMAIN q : q[i] = x})
           /\ Occurrences(q, x) \in Nat
           /\ Occurrences(q, x) > 0 <=> Contains(q, x)
           /\ q = <<>> => Occurrences(q, x) = 0
<1> DEFINE A == {i \in DOMAIN q : q[i] = x}
<1>1. DOMAIN q = 1..Len(q) /\ Len(q) \in Nat
  BY LenProperties
<1>2. IsFiniteSet(A)
  <2>1. IsFiniteSet(1..Len(q)) /\ A \in SUBSET (1..Len(q))
    BY <1>1, FS_Interval
  <2> QED BY <2>1, FS_Subset
<1>3. Cardinality(A) \in Nat /\ (Cardinality(A) = 0 <=> A = {})
  BY <1>2, FS_CardinalityType, FS_EmptySet
<1>4. A # {} <=> Contains(q, x)
  BY <1>1 DEF Contains
<1>5. q = <<>> => A = {}
  BY <1>1
<1> QED BY <1>2, <1>3, <1>4, <1>5 DEF Occurrences

(* Taking out an entry takes away one occurrence of its element. *)
LEMMA OccurrencesRemoveAt ==
    ASSUME NEW S, NEW q \in Seq(S), NEW k \in 1..Len(q), NEW x
    PROVE  Occurrences(RemoveAt(q, k), x) =
             IF q[k] = x THEN Occurrences(q, x) - 1 ELSE Occurrences(q, x)
<1> DEFINE r == RemoveAt(q, k)
           A == {i \in DOMAIN q : q[i] = x}
           B == {i \in DOMAIN r : r[i] = x}
           f == [i \in A \ {k} |-> IF i < k THEN i ELSE i - 1]
<1>1. /\ r \in Seq(S) /\ Len(r) = Len(q) - 1 /\ Len(q) \in Nat
      /\ \A i \in 1..(Len(q) - 1) : r[i] = IF i < k THEN q[i] ELSE q[i + 1]
      /\ DOMAIN q = 1..Len(q) /\ DOMAIN r = 1..(Len(q) - 1) /\ k \in Nat /\ 1 <= k /\ k <= Len(q)
  <2>1. /\ r \in Seq(S) /\ Len(r) = Len(q) - 1
        /\ \A i \in 1..(Len(q) - 1) : r[i] = IF i < k THEN q[i] ELSE q[i + 1]
    BY RemoveAtProperties
  <2> HIDE DEF r
  <2>2. Len(q) \in Nat /\ DOMAIN q = 1..Len(q) /\ DOMAIN r = 1..Len(r)
    BY <2>1, LenProperties
  <2> QED BY <2>1, <2>2
<1> HIDE DEF r
<1>2. \A i \in A \ {k} : i \in 1..Len(q) /\ i # k /\ q[i] = x /\ i \in Nat
  BY <1>1
<1>3. f \in [A \ {k} -> B]
  <2>1. ASSUME NEW i \in A \ {k} PROVE (IF i < k THEN i ELSE i - 1) \in B
    <3>1. CASE i < k
      <4>1. i \in 1..(Len(q) - 1) /\ r[i] = q[i]
        BY <1>1, <1>2, <3>1
      <4> QED BY <1>1, <1>2, <3>1, <4>1
    <3>2. CASE ~(i < k)
      <4>1. i - 1 \in 1..(Len(q) - 1) /\ ~(i - 1 < k) /\ (i - 1) + 1 = i
        BY <1>1, <1>2, <3>2
      <4>2. r[i - 1] = q[i]
        BY <1>1, <4>1
      <4> QED BY <1>1, <1>2, <3>2, <4>1, <4>2
    <3> QED BY <3>1, <3>2
  <2> QED BY <2>1
<1>4. ASSUME NEW i \in A \ {k}, NEW j \in A \ {k}, f[i] = f[j] PROVE i = j
  BY <1>1, <1>2, <1>4
<1>5. ASSUME NEW j \in B PROVE \E i \in A \ {k} : f[i] = j
  <2>1. j \in 1..(Len(q) - 1) /\ r[j] = x
    BY <1>1
  <2>2. CASE j < k
    <3>1. j \in A \ {k}
      BY <1>1, <2>1, <2>2
    <3> QED BY <2>2, <3>1
  <2>3. CASE ~(j < k)
    <3>1. j + 1 \in A \ {k} /\ ~(j + 1 < k) /\ (j + 1) - 1 = j
      BY <1>1, <2>1, <2>3
    <3>2. f[j + 1] = j
      BY <3>1
    <3> QED BY <3>1, <3>2
  <2> QED BY <2>2, <2>3
<1>6. ExistsBijection(A \ {k}, B)
  <2> HIDE DEF f, A, B
  <2>1. f \in Bijection(A \ {k}, B)
    BY <1>3, <1>4, <1>5 DEF Bijection, Injection, Surjection, IsInjective
  <2> QED BY <2>1 DEF ExistsBijection
<1>7. IsFiniteSet(A) /\ Cardinality(A) \in Nat
  BY OccurrencesType, FS_CardinalityType
<1>8. IsFiniteSet(A \ {k}) /\ Cardinality(A \ {k}) = IF k \in A THEN Cardinality(A) - 1 ELSE Cardinality(A)
  BY <1>7, FS_RemoveElement
<1>9. Cardinality(B) = Cardinality(A \ {k})
  <2> HIDE DEF A, B
  <2> QED BY <1>6, <1>8, FS_Bijection
<1>10. k \in A <=> q[k] = x
  BY <1>1
<1> QED BY <1>8, <1>9, <1>10 DEF Occurrences, r

(* Removing the first entry of an element takes away one occurrence of it. *)
LEMMA OccurrencesRemoveFirst ==
    ASSUME NEW S, NEW q \in Seq(S), NEW e, Contains(q, e), NEW x
    PROVE  /\ RemoveFirst(q, e) \in Seq(S)
           /\ Occurrences(RemoveFirst(q, e), x) =
                IF e = x THEN Occurrences(q, x) - 1 ELSE Occurrences(q, x)
<1> DEFINE I == {i \in 1..Len(q) : q[i] = e}
<1>1. I # {} /\ I \in SUBSET Nat /\ Len(q) \in Nat
  BY LenProperties DEF Contains
<1>2. Min(I) \in I
  <2> HIDE DEF I
  <2> QED BY <1>1, LeastIndex DEF Min
<1>3. PICK k : k = Min(I)
  OBVIOUS
<1>4. SelectInSeq(q, LAMBDA v : v = e) = k
  BY <1>1, <1>3 DEF SelectInSeq
<1>5. RemoveFirst(q, e) = RemoveAt(q, k)
  BY <1>1, <1>4 DEF RemoveFirst
<1>6. k \in 1..Len(q) /\ q[k] = e
  BY <1>2, <1>3
<1>7. /\ RemoveAt(q, k) \in Seq(S)
      /\ Occurrences(RemoveAt(q, k), x) = IF q[k] = x THEN Occurrences(q, x) - 1 ELSE Occurrences(q, x)
  BY <1>6, RemoveAtProperties, OccurrencesRemoveAt
<1> QED BY <1>5, <1>6, <1>7

(* Taking the first entry off takes away one occurrence of its element. *)
LEMMA OccurrencesTail ==
    ASSUME NEW S, NEW q \in Seq(S), q # <<>>, NEW x
    PROVE  /\ Tail(q) \in Seq(S) /\ Head(q) \in S /\ Contains(q, Head(q))
           /\ Occurrences(Tail(q), x) =
                IF Head(q) = x THEN Occurrences(q, x) - 1 ELSE Occurrences(q, x)
<1>1. Head(q) \in S /\ Contains(q, Head(q)) /\ Tail(q) \in Seq(S)
  BY ContainsTail
<1>2. RemoveFirst(q, Head(q)) = Tail(q)
  BY RemoveHead
<1>3. PICK e : e = Head(q)
  OBVIOUS
<1>4. Occurrences(RemoveFirst(q, e), x) = IF e = x THEN Occurrences(q, x) - 1 ELSE Occurrences(q, x)
  BY <1>1, <1>3, OccurrencesRemoveFirst
<1> QED BY <1>1, <1>2, <1>3, <1>4

(* Entering a thread n times at the end of a list. *)
LEMMA OccurrencesRepeat ==
    ASSUME NEW S, NEW q \in Seq(S), NEW t \in S, NEW n \in Nat, NEW x
    PROVE  /\ q \o [i \in 1..n |-> t] \in Seq(S)
           /\ Occurrences(q \o [i \in 1..n |-> t], x) =
                IF t = x THEN Occurrences(q, x) + n ELSE Occurrences(q, x)
<1> DEFINE b == [i \in 1..n |-> t]
           r == q \o b
           m == Len(q)
           A == {i \in DOMAIN q : q[i] = x}
           B == {i \in DOMAIN r : r[i] = x}
<1>1. b \in Seq(S) /\ Len(b) = n /\ \A i \in 1..n : b[i] = t
  OBVIOUS
<1> HIDE DEF b
<1>2. /\ r \in Seq(S) /\ Len(r) = Len(q) + Len(b)
      /\ \A i \in 1..(Len(q) + Len(b)) : r[i] = IF i <= Len(q) THEN q[i] ELSE b[i - Len(q)]
  BY <1>1, ConcatProperties
<1>3. m \in Nat /\ DOMAIN q = 1..m /\ DOMAIN r = 1..Len(r)
  BY <1>2, LenProperties
<1> HIDE DEF r
<1>4. DOMAIN r = 1..(m + n) /\ \A i \in 1..(m + n) : r[i] = IF i <= m THEN q[i] ELSE t
  <2>1. ASSUME NEW i \in 1..(m + n), ~(i <= m) PROVE i - m \in 1..n
    BY <1>3, <2>1
  <2> QED BY <1>1, <1>2, <1>3, <2>1
<1> HIDE DEF m
<1>5. CASE t # x
  <2>1. B = A
    BY <1>3, <1>4, <1>5
  <2> QED BY <1>2, <1>5, <2>1 DEF Occurrences, r, b
<1>6. CASE t = x
  <2> DEFINE C == (m + 1)..(m + n)
  <2>1. B = A \cup C
    <3>1. ASSUME NEW i \in B PROVE i \in A \cup C
      BY <1>3, <1>4
    <3>2. ASSUME NEW i \in A PROVE i \in B
      BY <1>3, <1>4
    <3>3. ASSUME NEW i \in C PROVE i \in B
      BY <1>3, <1>4, <1>6
    <3> QED BY <3>1, <3>2, <3>3
  <2>2. A \cap C = {}
    <3>1. \A i \in A : i \in Int /\ i <= m
      BY <1>3
    <3>2. \A i \in C : ~(i <= m)
      BY <1>3
    <3> QED BY <3>1, <3>2
  <2>3. IsFiniteSet(A) /\ Cardinality(A) \in Nat
    BY OccurrencesType, FS_CardinalityType
  <2>4. IsFiniteSet(C) /\ Cardinality(C) = n
    <3>1. IsFiniteSet(C) /\ Cardinality(C) = IF m + 1 <= m + n THEN (m + n) - (m + 1) + 1 ELSE 0
      BY <1>3, FS_Interval
    <3> QED BY <1>3, <3>1
  <2>5. Cardinality(A \cup C) = Cardinality(A) + Cardinality(C) - Cardinality(A \cap C)
    <3> HIDE DEF A, C
    <3> QED BY <2>3, <2>4, FS_Union
  <2>6. Cardinality(A \cap C) = 0
    BY <2>2, FS_EmptySet
  <2>7. Cardinality(B) = Cardinality(A) + n
    <3> HIDE DEF A, B, C
    <3> QED BY <2>1, <2>3, <2>4, <2>5, <2>6
  <2> QED BY <1>2, <1>6, <2>7 DEF Occurrences, r, b
<1> QED BY <1>5, <1>6

-----------------------------------------------------------------------------
(* The inductive invariant.                                                 *)

(* The pending work that a dispatcher iteration can have: the tasks that   *)
(* concern a thread name one, loops start at 1.                            *)
Wakes == {"wakeFront", "wakeBack"}
Calls == {"try", "drop", "exitMutexes", "exit"}
GoodTask ==
    {w \in [op : Ops, obj : Object \cup {None}, at : Nat] :
        /\ w.op \in Wakes \cup Calls \cup {"leave", "rotate"} => w.obj \in Thread
        /\ w.op = "notify" => w.obj \in Object
        /\ w.op \in {"timers", "interrupt", "expire", "try", "exitMutexes"} => w.at >= 1}

(* The work q of an iteration that runs the thread r: what is left of a    *)
(* system call belongs to r, the loop over its wait list is what it does   *)
(* first, the end of the thread is the last of it and makes the thread's   *)
(* observers run, and the return from the call comes last of all.          *)
HasCalls(q) == \E i \in 1..Len(q) : q[i].op \in Calls
HasTry(q)   == \E i \in 1..Len(q) : q[i].op = "try"
HasExit(q)  == \E i \in 1..Len(q) : q[i].op = "exit"
Notifies(q, o) == \E i \in 1..Len(q) : q[i].op = "notify" /\ q[i].obj = o
Returns(q)  == q # <<>> /\ q[Len(q)].op = "leave"
Settled(q, r) ==
    \A i \in 1..Len(q) :
        /\ q[i].op \notin Wakes
        /\ q[i].op \in Calls => q[i].obj = r
        /\ q[i].op = "leave" => i = Len(q)
        /\ q[i].op \in {"try", "exit"} => \A j \in 1..Len(q) : i < j => q[j].op \notin Calls
        /\ q[i].op = "try" => i = 1
        /\ q[i].op = "exit" => \E j \in 1..Len(q) : i < j /\ q[j].op = "notify" /\ q[j].obj = r

(* What is left to do after the first task. *)
LEMMA SettledTail ==
    ASSUME NEW q \in Seq(GoodTask), q # <<>>, NEW r, Settled(q, r)
    PROVE  /\ Tail(q) \in Seq(GoodTask) /\ Head(q) \in GoodTask
           /\ Settled(Tail(q), r) /\ ~HasTry(Tail(q)) 
           /\ Head(q).op \notin Wakes
           /\ Head(q).op \in Calls => Head(q).obj = r /\ HasCalls(q)
           /\ Head(q).op = "leave" => Tail(q) = <<>>
           /\ Head(q).op \in {"try", "exit"} => ~HasCalls(Tail(q))
           /\ Head(q).op = "exit" => Notifies(Tail(q), r)
           /\ HasCalls(Tail(q)) => HasCalls(q)
           /\ HasExit(Tail(q)) => HasExit(q)
           /\ Head(q).op # "leave" => (Returns(Tail(q)) <=> Returns(q))
           /\ \A o : Notifies(q, o) /\ ~Notifies(Tail(q), o) => Head(q).op = "notify" /\ Head(q).obj = o
<1> DEFINE p == Tail(q)
<1>1. /\ p \in Seq(GoodTask) /\ Len(p) = Len(q) - 1 /\ Len(q) \in Nat /\ Len(q) > 0
      /\ \A i \in 1..Len(p) : p[i] = q[i + 1]
      /\ Head(q) = q[1] /\ Head(q) \in GoodTask
  BY HeadTailProperties
<1> HIDE DEF p
<1>2. \A i \in 1..Len(p) : i + 1 \in 1..Len(q) /\ p[i] = q[i + 1] /\ i + 1 # 1 /\ 1 < i + 1
  BY <1>1
<1>3. \A i \in 1..Len(q) : i # 1 => i - 1 \in 1..Len(p) /\ q[i] = p[i - 1] /\ 1 < i
  BY <1>1
<1>4. 1 \in 1..Len(q)
  BY <1>1
<1>5. ~HasTry(p)
  BY <1>2 DEF Settled, HasTry
<1>6. \A o : Notifies(q, o) /\ ~Notifies(p, o) => Head(q).op = "notify" /\ Head(q).obj = o
  BY <1>1, <1>3 DEF Notifies
<1>7. HasCalls(p) => HasCalls(q)
  BY <1>2 DEF HasCalls
<1>8. HasExit(p) => HasExit(q)
  BY <1>2 DEF HasExit
<1>9. Head(q).op \in {"try", "exit"} => ~HasCalls(p)
  BY <1>1, <1>2, <1>4 DEF Settled, HasCalls
<1>10. Head(q).op = "leave" => p = <<>>
  <2>1. Head(q).op = "leave" => Len(p) = 0
    BY <1>1, <1>4 DEF Settled
  <2> QED BY <1>1, <2>1
<1>11. Head(q).op # "leave" => (Returns(p) <=> Returns(q))
  <2>1. CASE Len(q) = 1
    <3>1. p = <<>> /\ Head(q) = q[Len(q)]
      BY <1>1, <2>1
    <3> QED BY <3>1 DEF Returns
  <2>2. CASE Len(q) # 1
    <3>1. p # <<>> /\ Len(p) \in 1..Len(p) /\ Len(p) + 1 = Len(q)
      BY <1>1, <2>2
    <3>2. p[Len(p)] = q[Len(q)]
      BY <1>2, <3>1
    <3> QED BY <3>1, <3>2 DEF Returns
  <2> QED BY <2>1, <2>2
<1>12. Head(q).op \notin Wakes /\ (Head(q).op \in Calls => Head(q).obj = r /\ HasCalls(q))
  BY <1>1, <1>4 DEF Settled, HasCalls
<1>13. Head(q).op = "exit" => Notifies(p, r)
  <2>1. Head(q).op = "exit" => \E j \in 1..Len(q) : 1 < j /\ q[j].op = "notify" /\ q[j].obj = r
    BY <1>1, <1>4 DEF Settled
  <2>2. \A j \in 1..Len(q) : 1 < j => j # 1
    BY <1>1
  <2> QED BY <1>3, <2>1, <2>2 DEF Notifies
<1>14. ASSUME NEW i \in 1..Len(p)
       PROVE  /\ p[i].op \notin Wakes
              /\ p[i].op \in Calls => p[i].obj = r
              /\ p[i].op = "leave" => i = Len(p)
              /\ p[i].op \in {"try", "exit"} => \A j \in 1..Len(p) : i < j => p[j].op \notin Calls
              /\ p[i].op = "try" => i = 1
              /\ p[i].op = "exit" =>
                   \E j \in 1..Len(p) : i < j /\ p[j].op = "notify" /\ p[j].obj = r
  <2>1. i + 1 \in 1..Len(q) /\ p[i] = q[i + 1]
    BY <1>2
  <2>2. p[i].op \notin Wakes /\ (p[i].op \in Calls => p[i].obj = r) 
    BY <2>1 DEF Settled
  <2>3. p[i].op = "leave" => i = Len(p)
    <3>1. p[i].op = "leave" => i + 1 = Len(q)
      BY <2>1 DEF Settled
    <3> QED BY <1>1, <3>1
  <2>4. ASSUME p[i].op \in {"try", "exit"}, NEW j \in 1..Len(p), i < j PROVE p[j].op \notin Calls
    <3>1. j + 1 \in 1..Len(q) /\ p[j] = q[j + 1] /\ i + 1 < j + 1
      BY <1>1, <1>2, <2>4
    <3> QED BY <2>1, <2>4, <3>1 DEF Settled
  <2>5. p[i].op # "try"
    BY <1>5 DEF HasTry
  <2>6. ASSUME p[i].op = "exit"
        PROVE  \E j \in 1..Len(p) : i < j /\ p[j].op = "notify" /\ p[j].obj = r
    <3>1. PICK j \in 1..Len(q) : i + 1 < j /\ q[j].op = "notify" /\ q[j].obj = r
      BY <2>1, <2>6 DEF Settled
    <3>2. j # 1 /\ i < j - 1
      BY <1>1, <3>1
    <3> QED BY <1>3, <3>1, <3>2
  <2> QED BY <2>2, <2>3, <2>4, <2>5, <2>6
<1>15. Settled(p, r)
  BY <1>14 DEF Settled
<1> QED BY <1>1, <1>5, <1>6, <1>7, <1>8, <1>9, <1>10, <1>11, <1>12, <1>13, <1>15 DEF p
(* Work that is done before the rest. *)
LEMMA SettledCons ==
    ASSUME NEW q \in Seq(GoodTask), NEW r, Settled(q, r), ~HasTry(q), NEW w \in GoodTask,
           w.op \notin Wakes, w.op # "leave",
           w.op \in Calls => w.obj = r,
           w.op \in {"try", "exit"} => ~HasCalls(q),
           w.op = "exit" => Notifies(q, r)
    PROVE  /\ <<w>> \o q \in Seq(GoodTask)
           /\ Settled(<<w>> \o q, r)
           /\ HasTry(<<w>> \o q) <=> w.op = "try"
           /\ HasCalls(<<w>> \o q) <=> w.op \in Calls \/ HasCalls(q)
           /\ HasExit(<<w>> \o q) <=> w.op = "exit" \/ HasExit(q)
           /\ Returns(<<w>> \o q) <=> Returns(q)
           /\ \A o : Notifies(<<w>> \o q, o) <=> Notifies(q, o) \/ (w.op = "notify" /\ w.obj = o)
<1> DEFINE p == <<w>> \o q
<1>1. /\ p \in Seq(GoodTask) /\ Len(p) = Len(q) + 1 /\ p # <<>> /\ Len(q) \in Nat
      /\ p[1] = w /\ \A i \in 1..Len(q) : p[i + 1] = q[i]
  BY ConsProperties, LenProperties
<1> HIDE DEF p
<1>2. \A i \in 1..Len(q) : i + 1 \in 1..Len(p) /\ p[i + 1] = q[i] /\ 1 < i + 1 /\ i \in Nat
  BY <1>1
<1>3. \A i \in 1..Len(p) : i # 1 => i - 1 \in 1..Len(q) /\ p[i] = q[i - 1]
  BY <1>1
<1>4. 1 \in 1..Len(p)
  BY <1>1
<1>5. HasTry(p) <=> w.op = "try"
  BY <1>1, <1>3, <1>4 DEF HasTry
<1>6. HasCalls(p) <=> w.op \in Calls \/ HasCalls(q)
  <2>1. HasCalls(q) => HasCalls(p)
    BY <1>2 DEF HasCalls
  <2> QED BY <1>1, <1>3, <1>4, <2>1 DEF HasCalls
<1>7. HasExit(p) <=> w.op = "exit" \/ HasExit(q)
  <2>1. HasExit(q) => HasExit(p)
    BY <1>2 DEF HasExit
  <2> QED BY <1>1, <1>3, <1>4, <2>1 DEF HasExit
<1>8. \A o : Notifies(p, o) <=> Notifies(q, o) \/ (w.op = "notify" /\ w.obj = o)
  <2>1. \A o : Notifies(q, o) => Notifies(p, o)
    BY <1>2 DEF Notifies
  <2>2. ASSUME NEW o, Notifies(p, o) PROVE Notifies(q, o) \/ (w.op = "notify" /\ w.obj = o)
    <3>1. PICK i \in 1..Len(p) : p[i].op = "notify" /\ p[i].obj = o
      BY <2>2 DEF Notifies
    <3>2. CASE i = 1
      BY <1>1, <3>1, <3>2
    <3>3. CASE i # 1
      BY <1>3, <3>1, <3>3 DEF Notifies
    <3> QED BY <3>2, <3>3
  <2>3. w.op = "notify" => Notifies(p, w.obj)
    BY <1>1, <1>4 DEF Notifies
  <2> QED BY <2>1, <2>2, <2>3
<1>9. Returns(p) <=> Returns(q)
  <2>1. CASE q = <<>>
    <3>1. Len(p) = 1
      BY <1>1, <2>1
    <3> QED BY <1>1, <2>1, <3>1 DEF Returns
  <2>2. CASE q # <<>>
    <3>1. Len(q) \in 1..Len(q) /\ Len(p) = Len(q) + 1
      BY <1>1, <2>2
    <3>2. p[Len(p)] = q[Len(q)]
      BY <1>1, <3>1
    <3> QED BY <1>1, <2>2, <3>2 DEF Returns
  <2> QED BY <2>1, <2>2
<1>10. ASSUME NEW i \in 1..Len(p)
       PROVE  /\ p[i].op \notin Wakes
              /\ p[i].op \in Calls => p[i].obj = r
              /\ p[i].op = "leave" => i = Len(p)
              /\ p[i].op \in {"try", "exit"} => \A j \in 1..Len(p) : i < j => p[j].op \notin Calls
              /\ p[i].op = "try" => i = 1
              /\ p[i].op = "exit" =>
                   \E j \in 1..Len(p) : i < j /\ p[j].op = "notify" /\ p[j].obj = r
  <2>1. CASE i = 1
    <3>1. ASSUME p[i].op \in {"try", "exit"}, NEW j \in 1..Len(p), i < j PROVE p[j].op \notin Calls
      <4>1. j # 1 /\ ~HasCalls(q)
        BY <1>1, <2>1, <3>1
      <4> QED BY <1>3, <4>1 DEF HasCalls
    <3>2. ASSUME p[i].op = "exit"
          PROVE  \E j \in 1..Len(p) : i < j /\ p[j].op = "notify" /\ p[j].obj = r
      <4>1. Notifies(q, r)
        BY <1>1, <2>1, <3>2
      <4> QED BY <1>2, <2>1, <4>1 DEF Notifies
    <3> QED BY <1>1, <2>1, <3>1, <3>2
  <2>2. CASE i # 1
    <3>1. PICK k \in 1..Len(q) : i = k + 1 /\ p[i] = q[k]
      <4>1. i - 1 \in 1..Len(q) /\ i = (i - 1) + 1 /\ p[i] = q[i - 1]
        BY <1>1, <1>3, <2>2
      <4> QED BY <4>1
    <3>2. p[i].op \notin Wakes /\ (p[i].op \in Calls => p[i].obj = r)
      BY <3>1 DEF Settled
    <3>3. p[i].op # "try"
      BY <3>1 DEF HasTry
    <3>4. p[i].op = "leave" => i = Len(p)
      <4>1. p[i].op = "leave" => k = Len(q)
        BY <3>1 DEF Settled
      <4> QED BY <1>1, <3>1, <4>1
    <3>5. ASSUME p[i].op \in {"try", "exit"}, NEW j \in 1..Len(p), i < j PROVE p[j].op \notin Calls
      <4>1. j # 1 /\ j - 1 \in 1..Len(q) /\ p[j] = q[j - 1] /\ k < j - 1
        BY <1>1, <1>3, <3>1, <3>5
      <4> QED BY <3>1, <3>5, <4>1 DEF Settled
    <3>6. ASSUME p[i].op = "exit"
          PROVE  \E j \in 1..Len(p) : i < j /\ p[j].op = "notify" /\ p[j].obj = r
      <4>1. PICK j \in 1..Len(q) : k < j /\ q[j].op = "notify" /\ q[j].obj = r
        BY <3>1, <3>6 DEF Settled
      <4>2. i < j + 1
        BY <3>1, <4>1
      <4> QED BY <1>2, <4>1, <4>2
    <3> QED BY <3>2, <3>3, <3>4, <3>5, <3>6
  <2> QED BY <2>1, <2>2
<1>11. Settled(p, r)
  BY <1>10 DEF Settled
<1> QED BY <1>1, <1>5, <1>6, <1>7, <1>8, <1>9, <1>11 DEF p

(* A Reschedule after the call, and the return from it. *)
LEMMA LeaveSettled ==
    ASSUME NEW t \in Thread, NEW r
    PROVE  LET q == <<Task("leave", t, 0)>>
           IN  /\ q \in Seq(GoodTask) /\ Settled(q, r) /\ Returns(q)
               /\ ~HasTry(q) /\ ~HasCalls(q) /\ ~HasExit(q)
               /\ \A o : ~Notifies(q, o)
<1> DEFINE w == Task("leave", t, 0)
           q == <<w>>
<1>1. w \in GoodTask /\ w.op = "leave"
  BY DEF GoodTask, Task, Ops, Object, Wakes, Calls
<1> HIDE DEF w
<1>2. q \in Seq(GoodTask) /\ Len(q) = 1 /\ q[1] = w /\ q # <<>>
  BY <1>1
<1> HIDE DEF q
<1>3. \A i \in 1..Len(q) : i = 1 /\ q[i] = w
  BY <1>2
<1>4. Settled(q, r)
  BY <1>1, <1>2, <1>3 DEF Settled, Wakes, Calls
<1>5. Returns(q) /\ ~HasTry(q) /\ ~HasCalls(q) /\ ~HasExit(q) /\ \A o : ~Notifies(q, o)
  BY <1>1, <1>2, <1>3 DEF Returns, HasTry, HasCalls, HasExit, Notifies, Calls
<1> QED BY <1>2, <1>4, <1>5 DEF q, w

(* No work at all. *)
LEMMA NothingSettled ==
    ASSUME NEW r
    PROVE  /\ <<>> \in Seq(GoodTask) /\ Settled(<<>>, r) /\ ~Returns(<<>>)
           /\ ~HasTry(<<>>) /\ ~HasCalls(<<>>) /\ ~HasExit(<<>>)
           /\ \A o : ~Notifies(<<>>, o)
<1>1. <<>> \in Seq(GoodTask) /\ Len(<<>>) = 0 /\ \A i : i \notin 1..0
  OBVIOUS
<1> QED BY <1>1 DEF Settled, Returns, HasTry, HasCalls, HasExit, Notifies

(* The tasks, by kind. *)
LEMMA TaskTypes ==
    /\ \A op, obj, at : /\ Task(op, obj, at).op = op /\ Task(op, obj, at).obj = obj
                        /\ Task(op, obj, at).at = at
    /\ \A t \in Thread : /\ Task("drop", t, 0) \in GoodTask /\ Task("exit", t, 0) \in GoodTask
                         /\ Task("wakeFront", t, 0) \in GoodTask /\ Task("wakeBack", t, 0) \in GoodTask
                         /\ Task("rotate", t, 0) \in GoodTask
    /\ \A t \in Thread, k \in Nat \ {0} :
         Task("try", t, k) \in GoodTask /\ Task("exitMutexes", t, k) \in GoodTask
    /\ \A o \in Object : Task("notify", o, 0) \in GoodTask
    /\ \A k \in Nat : Task("elapse", None, k) \in GoodTask
    /\ \A k \in Nat \ {0} : /\ Task("timers", None, k) \in GoodTask /\ Task("expire", None, k) \in GoodTask
                            /\ Task("interrupt", None, k) \in GoodTask
BY DEF GoodTask, Task, Ops, Object, Wakes, Calls

(* Two and more tasks before the rest, one at a time. *)
LEMMA ConsTwo ==
    ASSUME NEW S, NEW a \in S, NEW b \in S, NEW q \in Seq(S)
    PROVE  <<a, b>> \o q = <<a>> \o (<<b>> \o q)
<1>1. PICK c : c = <<b>>
  OBVIOUS
<1>2. PICK d : d = <<a, b>>
  OBVIOUS
<1>3. PICK e : e = <<a>>
  OBVIOUS
<1>4. /\ c \in Seq(S) /\ Len(c) = 1 /\ c[1] = b
      /\ d \in Seq(S) /\ Len(d) = 2 /\ d[1] = a /\ d[2] = b /\ e \in Seq(S)
  BY <1>1, <1>2, <1>3
<1> DEFINE p == <<a>> \o c
<1>5. p \in Seq(S) /\ Len(p) = Len(c) + 1 /\ p[1] = a /\ \A i \in 1..Len(c) : p[i + 1] = c[i]
  <2>1. c \in Seq(S)
    BY <1>4
  <2> QED BY <2>1, ConsProperties
<1> HIDE DEF p
<1>6. p = d
  <2>1. Len(p) = 2 /\ p[1] = a /\ p[2] = b
    <3>1. 1 \in 1..Len(c) /\ 1 + 1 = 2
      BY <1>4
    <3> QED BY <1>4, <1>5, <3>1
  <2>2. \A i \in 1..Len(p) : p[i] = d[i]
    BY <1>4, <2>1
  <2> QED BY <1>4, <1>5, <2>1, <2>2, SeqEqual
<1>7. (e \o c) \o q = e \o (c \o q)
  BY SMTT(30), <1>4, ConcatAssociative
<1>8. d = e \o c
  BY <1>3, <1>6 DEF p
<1> QED BY <1>1, <1>2, <1>3, <1>7, <1>8

(* Likewise for three tasks. *)
LEMMA ConsThree ==
    ASSUME NEW S, NEW a \in S, NEW b \in S, NEW c \in S, NEW q \in Seq(S)
    PROVE  <<a, b, c>> \o q = <<a>> \o (<<b>> \o (<<c>> \o q))
<1>1. PICK u : u = <<b, c>>
  OBVIOUS
<1>2. PICK d : d = <<a, b, c>>
  OBVIOUS
<1>3. PICK e : e = <<a>>
  OBVIOUS
<1>4. /\ u \in Seq(S) /\ Len(u) = 2 /\ u[1] = b /\ u[2] = c
      /\ d \in Seq(S) /\ Len(d) = 3 /\ d[1] = a /\ d[2] = b /\ d[3] = c /\ e \in Seq(S)
  BY <1>1, <1>2, <1>3
<1> DEFINE p == <<a>> \o u
<1>5. p \in Seq(S) /\ Len(p) = Len(u) + 1 /\ p[1] = a /\ \A i \in 1..Len(u) : p[i + 1] = u[i]
  <2>1. u \in Seq(S)
    BY <1>4
  <2> QED BY <2>1, ConsProperties
<1> HIDE DEF p
<1>6. p = d
  <2>1. Len(p) = 3 /\ p[1] = a /\ p[2] = b /\ p[3] = c
    <3>1. 1 \in 1..Len(u) /\ 1 + 1 = 2 /\ 2 \in 1..Len(u) /\ 2 + 1 = 3
      BY <1>4
    <3>2. p[1 + 1] = u[1] /\ p[2 + 1] = u[2]
      BY <1>5, <3>1
    <3> QED BY <1>4, <1>5, <3>1, <3>2
  <2>2. \A i \in 1..Len(p) : p[i] = d[i]
    BY <1>4, <2>1
  <2> QED BY <1>4, <1>5, <2>1, <2>2, SeqEqual
<1>7. (e \o u) \o q = e \o (u \o q)
  <2>1. e \in Seq(S)
    BY <1>4
  <2>2. u \in Seq(S)
    BY <1>4
  <2> QED BY <2>1, <2>2, ConcatAssociative
<1>8. d = e \o u
  BY <1>3, <1>6 DEF p
<1>9. u \o q = <<b>> \o (<<c>> \o q)
  BY <1>1, ConsTwo
<1> QED BY <1>2, <1>3, <1>7, <1>8, <1>9

(* A list of four begins with its first. *)
LEMMA FourSplit ==
    ASSUME NEW a, NEW b, NEW c, NEW f
    PROVE  <<a, b, c, f>> = <<a>> \o <<b, c, f>>
<1>0. PICK S : a \in S /\ b \in S /\ c \in S /\ f \in S
  <2>1. a \in {a, b, c, f} /\ b \in {a, b, c, f} /\ c \in {a, b, c, f} /\ f \in {a, b, c, f}
    OBVIOUS
  <2> QED BY <2>1
<1>1. PICK u : u = <<b, c, f>>
  OBVIOUS
<1>2. PICK d : d = <<a, b, c, f>>
  OBVIOUS
<1>4. /\ u \in Seq(S) /\ Len(u) = 3 /\ u[1] = b /\ u[2] = c /\ u[3] = f
      /\ d \in Seq(S) /\ Len(d) = 4 /\ d[1] = a /\ d[2] = b /\ d[3] = c /\ d[4] = f
  BY <1>0, <1>1, <1>2
<1> DEFINE p == <<a>> \o u
<1>5. p \in Seq(S) /\ Len(p) = Len(u) + 1 /\ p[1] = a /\ \A i \in 1..Len(u) : p[i + 1] = u[i]
  <2>1. u \in Seq(S)
    BY <1>4
  <2> QED BY <1>0, <2>1, ConsProperties
<1> HIDE DEF p
<1>6. p = d
  <2>1. Len(p) = 4 /\ p[1] = a /\ p[2] = b /\ p[3] = c /\ p[4] = f
    <3>1. /\ 1 \in 1..Len(u) /\ 1 + 1 = 2 /\ 2 \in 1..Len(u) /\ 2 + 1 = 3
          /\ 3 \in 1..Len(u) /\ 3 + 1 = 4
      BY <1>4
    <3>2. p[1 + 1] = u[1] /\ p[2 + 1] = u[2] /\ p[3 + 1] = u[3]
      BY <1>5, <3>1
    <3> QED BY <1>4, <1>5, <3>1, <3>2
  <2>2. \A i \in 1..Len(p) : p[i] = d[i]
    BY <1>4, <2>1
  <2> QED BY <1>4, <1>5, <2>1, <2>2, SeqEqual
<1> QED BY <1>1, <1>2, <1>6 DEF p

(* A task that may be missing, and one that is not. *)
LEMMA ConsOptional ==
    ASSUME NEW S, NEW a \in S, NEW b \in S, NEW q \in Seq(S)
    PROVE  /\ (<<b>> \o <<a>>) \o q = <<b>> \o (<<a>> \o q)
           /\ (<<>> \o <<a>>) \o q = <<a>> \o q
<1>1. PICK e : e = <<a>>
  OBVIOUS
<1>2. PICK u : u = <<b>>
  OBVIOUS
<1>3. e \in Seq(S)
  BY <1>1
<1>4. u \in Seq(S)
  BY <1>2
<1>5. (u \o e) \o q = u \o (e \o q)
  BY <1>3, <1>4, ConcatAssociative
<1>6. <<>> \o e = e
  BY <1>3, ConcatEmptySeq
<1> QED BY <1>1, <1>2, <1>5, <1>6

-----------------------------------------------------------------------------
(* A thread that runs a system call is Ready until the call is over, and   *)
(* the call is over when the dispatcher is asked to return from it.        *)
Rests(q, r, st) ==
    /\ Settled(q, r)
    /\ HasCalls(q) => r \in Thread /\ st[r] = "Ready" /\ Returns(q)
    /\ r # None => st[r] = "Ready" \/ Returns(q)

(* A thread sleeps exactly while its wait list has entries. *)
Agree(t) == status[t] = "Sleeping" <=> waitList[t] # <<>>

(* Nobody is being woken up; only a thread in the middle of its own system *)
(* call may be awake and have entries in its wait list.                    *)
AtRest ==
    /\ Rests(todo, running, status)
    /\ \A t \in Thread : \/ Agree(t)
                         \/ todo # <<>> /\ Head(todo).op \in {"try", "drop"} /\ t = running

(* The thread that w wakes up is the one whose lists need not agree. *)
Waking(w, q) ==
    /\ w.op \in Wakes /\ Rests(q, running, status)
    /\ \A t \in Thread : t # w.obj => Agree(t)

Control ==
    fault = "none" =>
        \/ AtRest
        \/ todo # <<>> /\ Waking(Head(todo), Tail(todo)) /\ waitList[Head(todo).obj] = <<>>
        \/ /\ todo # <<>> /\ Tail(todo) # <<>>
           /\ Head(todo) = Task("drop", Head(Tail(todo)).obj, 0)
           /\ Waking(Head(Tail(todo)), Tail(Tail(todo)))

ReadyInv == \A t \in Thread : status[t] = "Ready" <=> Contains(readyQueue, t)
MutexInv == \A m \in Mutex : lockCount[m] > 0 <=> owner[m] # None

Inv ==
    /\ TypeOK /\ todo \in Seq(GoodTask)
    /\ ReadyInv /\ MutexInv /\ RegistrationConsistent /\ Control
    /\ fault \notin Bookkeeping

(* The rest of the work, when the first task is done. *)
LEMMA RestsTail ==
    ASSUME NEW q \in Seq(GoodTask), q # <<>>, NEW r, NEW st, Rests(q, r, st)
    PROVE  /\ Tail(q) \in Seq(GoodTask) /\ Head(q) \in GoodTask
           /\ Head(q).op # "leave" => Rests(Tail(q), r, st)
           /\ Head(q).op = "leave" => Tail(q) = <<>>
           /\ ~HasTry(Tail(q)) /\ Head(q).op \notin Wakes
           /\ Head(q).op \in Calls => /\ Head(q).obj = r /\ r \in Thread /\ st[r] = "Ready"
                                      /\ Returns(Tail(q))
           /\ Head(q).op \in {"try", "exit"} => ~HasCalls(Tail(q))
           /\ Head(q).op = "exit" => Notifies(Tail(q), r)
<1>1. Settled(q, r)
  BY DEF Rests
<1>2. Head(q).op = "leave" => Head(q).op \notin Calls
  BY DEF Calls
<1> QED BY <1>1, <1>2, SettledTail DEF Rests

(* A task before the rest of the work. *)
LEMMA RestsCons ==
    ASSUME NEW q \in Seq(GoodTask), NEW r, NEW st, Rests(q, r, st), ~HasTry(q), NEW w \in GoodTask,
           w.op \notin Wakes, w.op # "leave",
           w.op \in Calls => w.obj = r /\ r \in Thread /\ st[r] = "Ready" /\ Returns(q),
           w.op \in {"try", "exit"} => ~HasCalls(q),
           w.op = "exit" => Notifies(q, r)
    PROVE  /\ <<w>> \o q \in Seq(GoodTask) /\ <<w>> \o q # <<>>
           /\ Head(<<w>> \o q) = w /\ Tail(<<w>> \o q) = q
           /\ Rests(<<w>> \o q, r, st)
           /\ HasTry(<<w>> \o q) <=> w.op = "try"
           /\ Returns(<<w>> \o q) <=> Returns(q)
           /\ HasCalls(<<w>> \o q) <=> w.op \in Calls \/ HasCalls(q)
           /\ \A o : Notifies(<<w>> \o q, o) <=> Notifies(q, o) \/ (w.op = "notify" /\ w.obj = o)
<1>1. Settled(q, r) /\ (w.op \in Calls => w.obj = r)
  BY DEF Rests
<1>2. /\ <<w>> \o q \in Seq(GoodTask)
      /\ Settled(<<w>> \o q, r)
      /\ HasTry(<<w>> \o q) <=> w.op = "try"
      /\ HasCalls(<<w>> \o q) <=> w.op \in Calls \/ HasCalls(q)
      /\ Returns(<<w>> \o q) <=> Returns(q)
      /\ \A o : Notifies(<<w>> \o q, o) <=> Notifies(q, o) \/ (w.op = "notify" /\ w.obj = o)
  BY <1>1, SettledCons
<1>3. Rests(<<w>> \o q, r, st)
  BY <1>2 DEF Rests
<1>4. <<w>> \o q # <<>> /\ Head(<<w>> \o q) = w /\ Tail(<<w>> \o q) = q
  BY ConsProperties
<1> QED BY <1>2, <1>3, <1>4

(* The work that belongs to no system call. *)
Neutral == {"notify", "elapse", "timers", "interrupt", "expire", "rotate"}

(* Such work may come before what is left, and changes nothing about it. *)
LEMMA NeutralCons ==
    ASSUME NEW q \in Seq(GoodTask), NEW r, NEW st, Rests(q, r, st), ~HasTry(q), NEW w \in GoodTask,
           w.op \in Neutral
    PROVE  /\ <<w>> \o q \in Seq(GoodTask) /\ <<w>> \o q # <<>>
           /\ Head(<<w>> \o q) = w /\ Tail(<<w>> \o q) = q
           /\ Rests(<<w>> \o q, r, st) /\ ~HasTry(<<w>> \o q)
           /\ Returns(<<w>> \o q) <=> Returns(q)
           /\ HasCalls(<<w>> \o q) <=> HasCalls(q)
           /\ \A o : Notifies(<<w>> \o q, o) <=> Notifies(q, o) \/ (w.op = "notify" /\ w.obj = o)
<1>1. /\ w.op \notin Wakes /\ w.op # "leave" /\ w.op \notin Calls
      /\ w.op \notin {"try", "exit"} /\ w.op # "exit"
  BY DEF Neutral, Wakes, Calls
<1> QED BY <1>1, RestsCons

(* A Reschedule before the rest of the work. *)
LEMMA RescheduleRests ==
    ASSUME NEW t \in Thread, NEW q \in Seq(GoodTask), NEW r, NEW st, Rests(q, r, st), ~HasTry(q)
    PROVE  /\ Reschedule(t) \o q \in Seq(GoodTask)
           /\ Rests(Reschedule(t) \o q, r, st) /\ ~HasTry(Reschedule(t) \o q)
           /\ Returns(Reschedule(t) \o q) <=> Returns(q)
           /\ HasCalls(Reschedule(t) \o q) <=> HasCalls(q)
           /\ \A o : Notifies(Reschedule(t) \o q, o) <=> Notifies(q, o)
<1> DEFINE a == Task("elapse", None, 1)
           b == Task("rotate", t, 0)
           p == <<b>> \o q
<1>1. a \in GoodTask /\ b \in GoodTask /\ a.op \in Neutral /\ b.op \in Neutral /\ a.op # "notify" /\ b.op # "notify"
  BY TaskTypes DEF Neutral
<1>2. Reschedule(t) \o q = <<a>> \o p
  <2>1. Reschedule(t) = <<a, b>>
    BY DEF Reschedule
  <2> HIDE DEF a, b
  <2> QED BY SMTT(30), <1>1, <2>1, ConsTwo
<1> HIDE DEF a, b
<1>3. /\ p \in Seq(GoodTask) /\ Rests(p, r, st) /\ ~HasTry(p)
      /\ Returns(p) <=> Returns(q)
      /\ HasCalls(p) <=> HasCalls(q)
      /\ \A o : Notifies(p, o) <=> Notifies(q, o) \/ (b.op = "notify" /\ b.obj = o)
  BY <1>1, NeutralCons
<1> HIDE DEF p
<1>4. /\ <<a>> \o p \in Seq(GoodTask) /\ Rests(<<a>> \o p, r, st) /\ ~HasTry(<<a>> \o p)
      /\ Returns(<<a>> \o p) <=> Returns(p)
      /\ HasCalls(<<a>> \o p) <=> HasCalls(p)
      /\ \A o : Notifies(<<a>> \o p, o) <=> Notifies(p, o) \/ (a.op = "notify" /\ a.obj = o)
  BY <1>1, <1>3, NeutralCons
<1> QED BY <1>1, <1>2, <1>3, <1>4

(* What the first task says about the state. *)
LEMMA HeadCases ==
    ASSUME Inv, fault = "none"
    PROVE  /\ todo = <<>> => AtRest
           /\ todo # <<>> /\ Head(todo).op \notin Wakes \cup {"drop"} => AtRest
           /\ todo # <<>> /\ Head(todo).op \in Wakes =>
                Waking(Head(todo), Tail(todo)) /\ waitList[Head(todo).obj] = <<>>
           /\ todo # <<>> => Tail(todo) \in Seq(GoodTask) /\ Head(todo) \in GoodTask
           /\ AtRest /\ (todo = <<>> \/ Head(todo).op \notin {"try", "drop"}) => \A t \in Thread : Agree(t)
<1>1. todo \in Seq(GoodTask) /\ Control
  BY DEF Inv
<1>2. ASSUME todo # <<>> PROVE Tail(todo) \in Seq(GoodTask) /\ Head(todo) \in GoodTask
  BY <1>1, <1>2, ContainsTail
<1>3. AtRest /\ todo # <<>> => Head(todo).op \notin Wakes
  BY <1>1, RestsTail DEF AtRest
<1>4. \A obj : Task("drop", obj, 0).op = "drop"
  BY TaskTypes
<1>5. "drop" \notin Wakes
  BY DEF Wakes
<1>6. AtRest /\ (todo = <<>> \/ Head(todo).op \notin {"try", "drop"}) => \A t \in Thread : Agree(t)
  BY DEF AtRest
<1> QED BY <1>1, <1>2, <1>3, <1>4, <1>5, <1>6 DEF Control, Waking
(* While the first task belongs to no system call, all lists agree. *)
LEMMA NeutralHead ==
    ASSUME Inv, fault = "none", todo # <<>>, Head(todo).op \in Neutral
    PROVE  /\ Rests(todo, running, status) /\ Rests(Tail(todo), running, status)
           /\ Tail(todo) \in Seq(GoodTask) /\ Head(todo) \in GoodTask
           /\ ~HasTry(Tail(todo)) /\ \A t \in Thread : Agree(t)
<1>1. Head(todo).op \notin Wakes \cup {"drop"} /\ Head(todo).op \notin {"try", "drop"} /\ Head(todo).op # "leave"
  BY DEF Neutral, Wakes
<1>2. AtRest /\ \A t \in Thread : Agree(t)
  BY <1>1, HeadCases
<1>3. todo \in Seq(GoodTask) /\ Rests(todo, running, status)
  BY <1>2 DEF Inv, AtRest
<1>4. /\ Tail(todo) \in Seq(GoodTask) /\ Head(todo) \in GoodTask
      /\ Rests(Tail(todo), running, status) /\ ~HasTry(Tail(todo))
  BY <1>1, <1>3, RestsTail
<1> QED BY <1>2, <1>3, <1>4

(* A step that goes on with the work p while all lists agree. *)
LEMMA GoesOn ==
    ASSUME NEW p, todo' = p, UNCHANGED <<status, waitList, running>>,
           Rests(p, running, status), \A t \in Thread : Agree(t)
    PROVE  Control'
<1>1. Rests(todo', running', status')
  OBVIOUS
<1>2. \A t \in Thread : Agree(t)'
  BY DEF Agree
<1> QED BY <1>1, <1>2 DEF Control, AtRest

(* A step that leaves the lists of the threads and objects alone. *)
LEMMA ListsKept ==
    ASSUME Inv, UNCHANGED <<status, waitList, observers, readyQueue>>
    PROVE  ReadyInv' /\ RegistrationConsistent'
BY DEF Inv, ReadyInv, RegistrationConsistent

(* Tasks that are well formed are tasks of the type invariant. *)
LEMMA TypeOfTodo ==
    ASSUME NEW q \in Seq(GoodTask)
    PROVE  q \in Seq([op : Ops, obj : Object \cup {None}, at : Nat])
<1>1. GoodTask \in SUBSET [op : Ops, obj : Object \cup {None}, at : Nat]
  BY DEF GoodTask
<1>2. PICK T : T = [op : Ops, obj : Object \cup {None}, at : Nat]
  OBVIOUS
<1>3. Len(q) \in Nat /\ q \in [1..Len(q) -> GoodTask]
  BY LenProperties, ElementOfSeq
<1>4. q \in [1..Len(q) -> T]
  BY <1>1, <1>2, <1>3
<1>5. q \in Seq(T)
  BY <1>3, <1>4, SeqDef
<1> QED BY <1>2, <1>5

(* The loops over the observers, timers and interrupts come to their end. *)
LEMMA NotifyStopInv == ASSUME Inv, NotifyStop PROVE Inv'
<1>1. /\ fault = "none" /\ todo # <<>> /\ Head(todo).op \in Neutral /\ todo' = Tail(todo)
      /\ UNCHANGED <<threadVars, observers, objectVars, queueVars, open, listed, exited, running, fault>>
  BY DEF NotifyStop, Doing, Done, Neutral
<1>2. Rests(Tail(todo), running, status) /\ Tail(todo) \in Seq(GoodTask) /\ \A t \in Thread : Agree(t)
  BY <1>1, NeutralHead
<1>3. Control'
  BY <1>1, <1>2, GoesOn DEF threadVars
<1>4. TypeOK' /\ todo' \in Seq(GoodTask)
  BY <1>1, <1>2, TypeOfTodo DEF Inv, TypeOK, threadVars, objectVars, queueVars
<1>5. ReadyInv' /\ RegistrationConsistent'
  BY <1>1, ListsKept DEF threadVars, queueVars
<1>6. MutexInv' /\ fault' \notin Bookkeeping
  BY <1>1 DEF Inv, MutexInv, objectVars
<1> QED BY <1>3, <1>4, <1>5, <1>6 DEF Inv

(* What is left of a time limit stays a time limit. *)
LEMMA ElapsedType ==
    ASSUME NEW left \in Nat \cup {Never}, NEW d \in Nat
    PROVE  Elapsed(left, d) \in Nat \cup {Never}
BY DEF Elapsed, Never

(* OS::ElapseTime puts the timers, interrupts and timeouts before the rest. *)
LEMMA ElapseInv == ASSUME Inv, Elapse PROVE Inv'
<1>1. /\ fault = "none" /\ todo # <<>> /\ Head(todo).op \in Neutral
      /\ UNCHANGED <<status, waitList, waitForAll, result, observers, owner,
                     lockCount, available, signalled, period, queueVars, open,
                     listed, exited, running, fault>>
      /\ timerAt' = [k \in Timer |-> Elapsed(timerAt[k], At)]
      /\ timeoutAt' = [t \in Thread |-> Elapsed(timeoutAt[t], At)]
  BY DEF Elapse, Doing, Neutral
<1>2. /\ Rests(Tail(todo), running, status) /\ Tail(todo) \in Seq(GoodTask) /\ \A t \in Thread : Agree(t)
      /\ ~HasTry(Tail(todo)) /\ Head(todo) \in GoodTask
  BY <1>1, NeutralHead
<1>3. PICK q : q = Tail(todo)
  OBVIOUS
<1> DEFINE a == Task("timers", None, 1)
           b == Task("interrupt", None, 1)
           c == Task("expire", None, 1)
           p == <<c>> \o q
<1>4. /\ a \in GoodTask /\ b \in GoodTask /\ c \in GoodTask
      /\ a.op \in Neutral /\ b.op \in Neutral /\ c.op \in Neutral
  BY TaskTypes DEF Neutral
<1>5. \/ todo' = <<a, c>> \o q
      \/ todo' = <<a, b, c>> \o q
  BY <1>3 DEF Elapse, Then
<1> HIDE DEF a, b, c
<1>6. p \in Seq(GoodTask) /\ Rests(p, running, status) /\ ~HasTry(p)
  BY <1>2, <1>3, <1>4, NeutralCons
<1>7. /\ <<b>> \o p \in Seq(GoodTask) /\ Rests(<<b>> \o p, running, status) /\ ~HasTry(<<b>> \o p)
      /\ <<a>> \o p \in Seq(GoodTask) /\ Rests(<<a>> \o p, running, status)
  <2> HIDE DEF p
  <2> QED BY <1>4, <1>6, NeutralCons
<1>8. <<a>> \o (<<b>> \o p) \in Seq(GoodTask) /\ Rests(<<a>> \o (<<b>> \o p), running, status)
  <2>1. PICK r : r = <<b>> \o p
    OBVIOUS
  <2> HIDE DEF p
  <2> QED BY <1>4, <1>7, <2>1, NeutralCons
<1>9. todo' = <<a>> \o p \/ todo' = <<a>> \o (<<b>> \o p)
  <2>1. q \in Seq(GoodTask)
    BY <1>2, <1>3
  <2>2. /\ <<a, b, c>> \o q = <<a>> \o (<<b>> \o (<<c>> \o q))
        /\ <<a, c>> \o q = <<a>> \o (<<c>> \o q)
    <3>1. <<a, c>> \o q = <<a>> \o (<<c>> \o q)
      BY SMTT(30), <1>4, <2>1, ConsTwo
    <3>2. <<a, b, c>> \o q = <<a>> \o (<<b>> \o (<<c>> \o q))
      BY <1>4, <2>1, ConsThree
    <3> QED BY <3>1, <3>2
  <2> QED BY <1>5, <2>2
<1>10. todo' \in Seq(GoodTask) /\ Rests(todo', running, status)
  BY <1>7, <1>8, <1>9
<1>11. Control'
  <2>1. PICK r : r = todo'
    OBVIOUS
  <2> QED BY <1>1, <1>2, <1>10, <2>1, GoesOn
<1>12. timerAt' \in [Timer -> Nat \cup {Never}] /\ timeoutAt' \in [Thread -> Nat \cup {Never}]
  <2>1. At \in Nat
    BY <1>2 DEF GoodTask, At
  <2>2. timerAt \in [Timer -> Nat \cup {Never}] /\ timeoutAt \in [Thread -> Nat \cup {Never}]
    BY DEF Inv, TypeOK
  <2> QED BY <1>1, <2>1, <2>2, ElapsedType
<1>13. TypeOK' 
  <2>1. todo' \in Seq([op : Ops, obj : Object \cup {None}, at : Nat])
    BY <1>10, TypeOfTodo
  <2> QED BY <1>1, <1>12, <2>1 DEF Inv, TypeOK, queueVars
<1>14. ReadyInv' /\ RegistrationConsistent'
  BY <1>1, ListsKept DEF queueVars
<1>15. MutexInv' /\ fault' \notin Bookkeeping
  BY <1>1 DEF Inv, MutexInv
<1> QED BY <1>10, <1>11, <1>13, <1>14, <1>15 DEF Inv
(* A step that leaves the lists alone and goes on with the work p. *)
LEMMA QuietStep ==
    ASSUME Inv, UNCHANGED <<status, waitList, observers, readyQueue, running, fault>>,
           NEW p \in Seq(GoodTask), todo' = p, Rests(p, running, status),
           \A t \in Thread : Agree(t), TypeOK', MutexInv'
    PROVE  Inv'
<1>1. Control'
  BY GoesOn
<1>2. ReadyInv' /\ RegistrationConsistent'
  BY ListsKept
<1> QED BY <1>1, <1>2 DEF Inv

(* One iteration of the loop over the timers, or its end. *)
LEMMA TimersInv == ASSUME Inv, Timers PROVE Inv'
<1>1. /\ fault = "none" /\ todo # <<>> /\ Head(todo).op \in Neutral /\ Head(todo).op = "timers"
      /\ UNCHANGED <<threadVars, observers, objectVars, queueVars, open, listed, exited, running, fault>>
  BY DEF Timers, Doing, Neutral
<1>2. /\ Rests(Tail(todo), running, status) /\ Tail(todo) \in Seq(GoodTask) /\ \A t \in Thread : Agree(t)
      /\ ~HasTry(Tail(todo)) /\ Head(todo) \in GoodTask
  BY <1>1, NeutralHead
<1>3. PICK q : q = Tail(todo)
  OBVIOUS
<1>4. PICK k : k = At
  OBVIOUS
<1>5. k \in Nat /\ k >= 1 /\ k + 1 \in Nat \ {0}
  BY <1>1, <1>2, <1>4 DEF At, GoodTask
<1>6. todo' \in Seq(GoodTask) /\ Rests(todo', running, status)
  <2>1. CASE k > Len(TimerSeq)
    <3>1. todo' = q
      <4>1. Len(TimerSeq) \in Nat
        BY KernelAssumption, LenProperties
      <4> QED BY <1>3, <1>4, <1>5, <2>1, <4>1 DEF Timers, Done
    <3> QED BY <1>2, <1>3, <3>1
  <2>2. CASE ~(k > Len(TimerSeq))
    <3> DEFINE a == Task("timers", None, k + 1)
               b == Task("notify", TimerSeq[k], 0)
               p == <<a>> \o q
    <3>1. k \in 1..Len(TimerSeq) /\ TimerSeq[k] \in Object
      <4>1. TimerSeq \in Seq(Timer) /\ Len(TimerSeq) \in Nat
        BY KernelAssumption, LenProperties
      <4>2. k \in 1..Len(TimerSeq)
        BY <1>5, <2>2, <4>1
      <4> QED BY <4>1, <4>2, ElementOfSeq DEF Object
    <3>2. a \in GoodTask /\ b \in GoodTask /\ a.op \in Neutral /\ b.op \in Neutral
      BY <1>5, <3>1, TaskTypes DEF Neutral
    <3>3. todo' = (<<b>> \o <<a>>) \o q \/ todo' = (<<>> \o <<a>>) \o q
      BY <1>3, <1>4, <2>2 DEF Timers, Then
    <3> HIDE DEF a, b
    <3>4. p \in Seq(GoodTask) /\ Rests(p, running, status) /\ ~HasTry(p)
      BY <1>2, <1>3, <3>2, NeutralCons
    <3>5. <<b>> \o p \in Seq(GoodTask) /\ Rests(<<b>> \o p, running, status)
      <4> HIDE DEF p
      <4> QED BY <3>2, <3>4, NeutralCons
    <3>6. todo' = <<b>> \o p \/ todo' = p
      <4>1. q \in Seq(GoodTask)
        BY <1>2, <1>3
      <4>2. (<<b>> \o <<a>>) \o q = <<b>> \o (<<a>> \o q) /\ (<<>> \o <<a>>) \o q = <<a>> \o q
        BY <3>2, <4>1, ConsOptional
      <4> QED BY <3>3, <4>2
    <3> QED BY <3>4, <3>5, <3>6
  <2> QED BY <2>1, <2>2
<1>7. TypeOK'
  <2>1. todo' \in Seq([op : Ops, obj : Object \cup {None}, at : Nat])
    BY <1>6, TypeOfTodo
  <2> QED BY <1>1, <2>1 DEF Inv, TypeOK, threadVars, objectVars, queueVars
<1>8. MutexInv'
  BY <1>1 DEF Inv, MutexInv, objectVars
<1>9. PICK p : p = todo'
  OBVIOUS
<1> QED BY <1>1, <1>2, <1>6, <1>7, <1>8, <1>9, QuietStep DEF threadVars, queueVars

(* One event of the interrupt is signalled, or all are. *)
LEMMA InterruptInv == ASSUME Inv, Interrupt PROVE Inv'
<1>1. /\ fault = "none" /\ todo # <<>> /\ Head(todo).op \in Neutral /\ Head(todo).op = "interrupt"
      /\ UNCHANGED <<threadVars, observers, owner, lockCount, available, timerAt, period,
                     queueVars, open, listed, exited, running, fault>>
  BY DEF Interrupt, Doing, Neutral
<1>2. /\ Rests(Tail(todo), running, status) /\ Tail(todo) \in Seq(GoodTask) /\ \A t \in Thread : Agree(t)
      /\ ~HasTry(Tail(todo)) /\ Head(todo) \in GoodTask
  BY <1>1, NeutralHead
<1>3. PICK q : q = Tail(todo)
  OBVIOUS
<1>4. PICK k : k = At
  OBVIOUS
<1>5. k \in Nat /\ k >= 1 /\ k + 1 \in Nat \ {0}
  BY <1>1, <1>2, <1>4 DEF At, GoodTask
<1>6. todo' \in Seq(GoodTask) /\ Rests(todo', running, status) /\ signalled' \in [Event -> BOOLEAN]
  <2>0. signalled \in [Event -> BOOLEAN] /\ Len(VBlankSeq) \in Nat
    BY KernelAssumption, LenProperties DEF Inv, TypeOK
  <2>1. CASE k > Len(VBlankSeq)
    <3>1. todo' = q /\ signalled' = signalled
      BY <1>3, <1>4, <1>5, <2>0, <2>1 DEF Interrupt, Done
    <3> QED BY <1>2, <1>3, <2>0, <3>1
  <2>2. CASE ~(k > Len(VBlankSeq))
    <3> DEFINE a == Task("interrupt", None, k + 1)
               b == Task("notify", VBlankSeq[k], 0)
               p == <<a>> \o q
    <3>1. VBlankSeq[k] \in Event /\ VBlankSeq[k] \in Object
      <4>1. VBlankSeq \in Seq(Event) /\ k \in 1..Len(VBlankSeq)
        BY <1>5, <2>0, <2>2, KernelAssumption
      <4> QED BY <4>1, ElementOfSeq DEF Object
    <3>2. a \in GoodTask /\ b \in GoodTask /\ a.op \in Neutral /\ b.op \in Neutral
      BY <1>5, <3>1, TaskTypes DEF Neutral
    <3>3. todo' = <<b, a>> \o q /\ signalled' = [signalled EXCEPT ![VBlankSeq[k]] = TRUE]
      BY <1>3, <1>4, <2>2 DEF Interrupt, Then
    <3>4. signalled' \in [Event -> BOOLEAN]
      BY <2>0, <3>3
    <3> HIDE DEF a, b
    <3>5. p \in Seq(GoodTask) /\ Rests(p, running, status) /\ ~HasTry(p)
      BY <1>2, <1>3, <3>2, NeutralCons
    <3>6. <<b>> \o p \in Seq(GoodTask) /\ Rests(<<b>> \o p, running, status)
      <4> HIDE DEF p
      <4> QED BY <3>2, <3>5, NeutralCons
    <3>7. <<b, a>> \o q = <<b>> \o p
      <4>1. q \in Seq(GoodTask)
        BY <1>2, <1>3
      <4>2. b \in GoodTask /\ a \in GoodTask
        BY <3>2
      <4> QED BY <4>1, <4>2, ConsTwo
    <3> QED BY <3>3, <3>4, <3>6, <3>7
  <2> QED BY <2>1, <2>2
<1>7. TypeOK'
  <2>1. todo' \in Seq([op : Ops, obj : Object \cup {None}, at : Nat])
    BY <1>6, TypeOfTodo
  <2> QED BY <1>1, <1>6, <2>1 DEF Inv, TypeOK, threadVars, queueVars
<1>8. MutexInv'
  BY <1>1 DEF Inv, MutexInv
<1>9. PICK p : p = todo'
  OBVIOUS
<1> QED BY <1>1, <1>2, <1>6, <1>7, <1>8, <1>9, QuietStep DEF threadVars, queueVars
(* Rotating a queue keeps its entries. *)
LEMMA RotatedProperties ==
    ASSUME NEW S, NEW q \in Seq(S)
    PROVE  /\ Rotated(q) \in Seq(S)
           /\ \A x : Contains(Rotated(q), x) <=> Contains(q, x)
<1>1. CASE q = <<>>
  BY <1>1 DEF Rotated
<1>2. CASE q # <<>>
  <2>1. PICK p, h : p = Tail(q) /\ h = Head(q)
    OBVIOUS
  <2>2. /\ h \in S /\ Contains(q, h) /\ p \in Seq(S)
        /\ \A e : Contains(p, e) => Contains(q, e)
        /\ \A e : Contains(q, e) /\ e # h => Contains(p, e)
    BY <1>2, <2>1, ContainsTail
  <2>3. Append(p, h) \in Seq(S) /\ \A e : Contains(Append(p, h), e) <=> Contains(p, e) \/ e = h
    BY <2>2, ContainsAppend
  <2>4. Rotated(q) = Append(p, h)
    BY <1>2, <2>1 DEF Rotated
  <2> QED BY <2>2, <2>3, <2>4
<1> QED BY <1>1, <1>2

(* The thread that gave up the processor goes to the back of the ready queue. *)
LEMMA RotateInv == ASSUME Inv, Rotate PROVE Inv'
<1>1. /\ fault = "none" /\ todo # <<>> /\ Head(todo).op \in Neutral /\ todo' = Tail(todo)
      /\ UNCHANGED <<threadVars, observers, objectVars, waitingQueue, open, listed, exited, running, fault>>
      /\ readyQueue' = Rotated(readyQueue)
  BY DEF Rotate, Doing, Done, Neutral
<1>2. Rests(Tail(todo), running, status) /\ Tail(todo) \in Seq(GoodTask) /\ \A t \in Thread : Agree(t)
  BY <1>1, NeutralHead
<1>3. Control'
  BY <1>1, <1>2, GoesOn DEF threadVars
<1>4. readyQueue' \in Seq(Thread) /\ \A x : Contains(readyQueue', x) <=> Contains(readyQueue, x)
  <2>1. readyQueue \in Seq(Thread)
    BY DEF Inv, TypeOK
  <2> QED BY <1>1, <2>1, RotatedProperties
<1>5. TypeOK' /\ todo' \in Seq(GoodTask)
  BY <1>1, <1>2, <1>4, TypeOfTodo DEF Inv, TypeOK, threadVars, objectVars
<1>6. ReadyInv'
  BY <1>1, <1>4 DEF Inv, ReadyInv, threadVars
<1>7. RegistrationConsistent'
  BY <1>1 DEF Inv, RegistrationConsistent, threadVars
<1>8. MutexInv' /\ fault' \notin Bookkeeping
  BY <1>1 DEF Inv, MutexInv, objectVars
<1> QED BY <1>3, <1>5, <1>6, <1>7, <1>8 DEF Inv

(* Between two iterations of the dispatcher. *)
LEMMA BetweenIterations ==
    ASSUME Inv, fault = "none", todo = <<>>
    PROVE  /\ \A t \in Thread : Agree(t)
           /\ running # None => status[running] = "Ready"
<1>1. AtRest /\ \A t \in Thread : Agree(t)
  BY HeadCases
<1>2. ~Returns(todo)
  BY DEF Returns
<1> QED BY <1>1, <1>2 DEF AtRest, Rests

(* A single task that belongs to no system call. *)
LEMMA OneTask ==
    ASSUME NEW w \in GoodTask, w.op \in Neutral, NEW r, NEW st, r # None => st[r] = "Ready"
    PROVE  <<w>> \in Seq(GoodTask) /\ Rests(<<w>>, r, st)
<1>1. <<>> \in Seq(GoodTask) /\ Rests(<<>>, r, st) /\ ~HasTry(<<>>)
  BY NothingSettled DEF Rests
<1>2. <<w>> \o <<>> \in Seq(GoodTask) /\ Rests(<<w>> \o <<>>, r, st)
  BY <1>1, NeutralCons
<1>3. <<w>> \o <<>> = <<w>>
  <2>1. <<w>> \in Seq(GoodTask)
    OBVIOUS
  <2> QED BY <2>1, ConcatEmptySeq
<1> QED BY <1>2, <1>3

(* With nobody ready the dispatcher lets the time pass. *)
LEMMA IdleInv == ASSUME Inv, Idle PROVE Inv'
<1> DEFINE w == Task("elapse", None, IdleTicks)
<1>1. /\ fault = "none" /\ todo = <<>> /\ running = None /\ todo' = <<w>>
      /\ UNCHANGED <<threadVars, observers, objectVars, queueVars, open, listed, exited, running, fault>>
  BY DEF Idle
<1>2. w \in GoodTask /\ w.op \in Neutral
  BY KernelAssumption, TaskTypes DEF Neutral
<1> HIDE DEF w
<1>3. \A t \in Thread : Agree(t)
  BY <1>1, BetweenIterations
<1>4. <<w>> \in Seq(GoodTask) /\ Rests(<<w>>, running, status)
  BY <1>1, <1>2, OneTask
<1>5. TypeOK'
  <2>1. todo' \in Seq([op : Ops, obj : Object \cup {None}, at : Nat])
    BY <1>1, <1>4, TypeOfTodo
  <2> QED BY <1>1, <2>1 DEF Inv, TypeOK, threadVars, objectVars, queueVars
<1>6. MutexInv'
  BY <1>1 DEF Inv, MutexInv, objectVars
<1> QED BY <1>1, <1>3, <1>4, <1>5, <1>6, QuietStep DEF threadVars, queueVars

(* The front thread of the ready queue is Ready and waits for nothing. *)
LEMMA DispatchInv == ASSUME Inv, NEW d \in {0, 1}, Dispatch(d) PROVE Inv'
<1>1. /\ fault = "none" /\ todo = <<>> /\ running = None /\ readyQueue # <<>>
      /\ UNCHANGED <<threadVars, observers, objectVars, waitingQueue, open, listed, exited>>
  BY DEF Dispatch
<1>2. PICK t : t = Head(readyQueue)
  OBVIOUS
<1>3. t \in Thread /\ Contains(readyQueue, t)
  <2>1. readyQueue \in Seq(Thread)
    BY DEF Inv, TypeOK
  <2> QED BY <1>1, <1>2, <2>1, ContainsTail
<1>4. status[t] = "Ready"
  BY <1>3 DEF Inv, ReadyInv
<1>5. waitList[t] = <<>> /\ \A u \in Thread : Agree(u)
  <2>1. \A u \in Thread : Agree(u)
    BY <1>1, BetweenIterations
  <2> QED BY <1>3, <1>4, <2>1 DEF Agree
<1> DEFINE w == Task("elapse", None, d)
<1>6. /\ running' = t /\ todo' = <<w>> /\ readyQueue' = readyQueue
      /\ fault' \in {"none", "expired thread in ready queue", "ended thread resumed"}
  BY <1>1, <1>2, <1>4, <1>5 DEF Dispatch
<1>7. w \in GoodTask /\ w.op \in Neutral
  BY TaskTypes DEF Neutral
<1> HIDE DEF w
<1>8. <<w>> \in Seq(GoodTask) /\ Rests(<<w>>, t, status)
  BY <1>4, <1>7, OneTask
<1>9. Control'
  <2>1. Rests(todo', running', status')
    BY <1>1, <1>6, <1>8 DEF threadVars
  <2>2. \A u \in Thread : Agree(u)'
    BY <1>1, <1>5 DEF Agree, threadVars
  <2> QED BY <2>1, <2>2 DEF Control, AtRest
<1>10. TypeOK' /\ todo' \in Seq(GoodTask)
  <2>1. todo' \in Seq([op : Ops, obj : Object \cup {None}, at : Nat])
    BY <1>6, <1>8, TypeOfTodo
  <2>2. fault' \in {"none"} \cup Assertions \cup Errors
    BY <1>6 DEF Assertions
  <2>3. running' \in Thread \cup {None} /\ readyQueue' \in Seq(Thread)
    BY <1>3, <1>6 DEF Inv, TypeOK
  <2> QED BY <1>1, <1>6, <1>8, <2>1, <2>2, <2>3 DEF Inv, TypeOK, threadVars, objectVars
<1>11. ReadyInv' /\ RegistrationConsistent'
  BY <1>1, <1>6, ListsKept DEF threadVars
<1>12. MutexInv'
  BY <1>1 DEF Inv, MutexInv, objectVars
<1>13. fault' \notin Bookkeeping
  BY <1>6 DEF Bookkeeping
<1> QED BY <1>9, <1>10, <1>11, <1>12, <1>13 DEF Inv

(* The system call returns to its thread, or the thread has been put to sleep. *)
LEMMA LeaveInv == ASSUME Inv, Leave PROVE Inv'
<1>1. /\ fault = "none" /\ todo # <<>> /\ Head(todo).op = "leave" /\ todo' = Tail(todo) /\ running' = None
      /\ listed' \in {listed, listed \ {Obj}}
      /\ UNCHANGED <<threadVars, observers, objectVars, queueVars, open, exited, fault>>
  BY DEF Leave, Doing, Done
<1>2. AtRest /\ \A t \in Thread : Agree(t)
  <2>1. Head(todo).op \notin Wakes \cup {"drop"} /\ Head(todo).op \notin {"try", "drop"}
    BY <1>1 DEF Wakes
  <2> QED BY <1>1, <2>1, HeadCases
<1>3. todo' = <<>>
  <2>1. todo \in Seq(GoodTask) /\ Rests(todo, running, status)
    BY <1>2 DEF Inv, AtRest
  <2> QED BY <1>1, <2>1, RestsTail
<1>4. <<>> \in Seq(GoodTask) /\ Rests(<<>>, None, status)
  BY NothingSettled DEF Rests
<1>5. Control'
  <2>1. Rests(todo', running', status')
    BY <1>1, <1>3, <1>4 DEF threadVars
  <2>2. \A t \in Thread : Agree(t)'
    BY <1>1, <1>2 DEF Agree, threadVars
  <2> QED BY <2>1, <2>2 DEF Control, AtRest
<1>6. TypeOK' /\ todo' \in Seq(GoodTask)
  <2>1. todo' \in Seq([op : Ops, obj : Object \cup {None}, at : Nat])
    BY <1>3, <1>4, TypeOfTodo
  <2>2. listed' \subseteq Thread
    BY <1>1 DEF Inv, TypeOK
  <2> QED BY <1>1, <1>3, <1>4, <2>1, <2>2 DEF Inv, TypeOK, threadVars, objectVars, queueVars
<1>7. ReadyInv' /\ RegistrationConsistent'
  BY <1>1, ListsKept DEF threadVars, queueVars
<1>8. MutexInv' /\ fault' \notin Bookkeeping
  BY <1>1 DEF Inv, MutexInv, objectVars
<1> QED BY <1>5, <1>6, <1>7, <1>8 DEF Inv
(* A thread that is woken up waits for nothing and is put into the queue. *)
LEMMA WakeInv == ASSUME Inv, Wake PROVE Inv'
<1>1. /\ fault = "none" /\ todo # <<>> /\ Head(todo).op \in Wakes /\ todo' = Tail(todo)
      /\ UNCHANGED <<waitList, waitForAll, timeoutAt, result, observers, objectVars, waitingQueue,
                     open, listed, exited, running, fault>>
      /\ status' = [status EXCEPT ![Obj] = "Ready"]
      /\ readyQueue' = <<Obj>> \o readyQueue \/ readyQueue' = Append(readyQueue, Obj)
  BY DEF Wake, Doing, Done, Wakes
<1>2. PICK t : t = Obj
  OBVIOUS
<1>3. /\ Head(todo) \in GoodTask /\ Tail(todo) \in Seq(GoodTask)
      /\ Rests(Tail(todo), running, status) /\ waitList[t] = <<>>
      /\ \A u \in Thread : u # t => Agree(u)
  BY <1>1, <1>2, HeadCases DEF Waking, Obj
<1>4. t \in Thread
  BY <1>1, <1>2, <1>3 DEF GoodTask, Obj
<1>5. /\ readyQueue' \in Seq(Thread)
      /\ \A x : Contains(readyQueue', x) <=> Contains(readyQueue, x) \/ x = t
  <2>1. readyQueue \in Seq(Thread)
    BY DEF Inv, TypeOK
  <2>2. CASE readyQueue' = <<t>> \o readyQueue
    BY <1>4, <2>1, <2>2, ConsProperties
  <2>3. CASE readyQueue' = Append(readyQueue, t)
    BY <1>4, <2>1, <2>3, ContainsAppend
  <2> QED BY <1>1, <1>2, <2>2, <2>3
<1>6. /\ status \in [Thread -> Status] /\ status' \in [Thread -> Status]
      /\ \A u \in Thread : status'[u] = IF u = t THEN "Ready" ELSE status[u]
  <2>1. status \in [Thread -> Status]
    BY DEF Inv, TypeOK
  <2> QED BY <1>1, <1>2, <1>4, <2>1 DEF Status
<1>7. Control'
  <2>1. Rests(todo', running', status')
    <3>1. running \in Thread \cup {None}
      BY DEF Inv, TypeOK
    <3>2. running # None => (status[running] = "Ready" => status'[running] = "Ready")
      BY <1>6, <3>1
    <3>3. HasCalls(Tail(todo)) => running \in Thread /\ status'[running] = "Ready" /\ Returns(Tail(todo))
      BY <1>3, <1>6 DEF Rests
    <3>4. Settled(Tail(todo), running) /\ (running # None => status'[running] = "Ready" \/ Returns(Tail(todo)))
      BY <1>3, <3>2 DEF Rests
    <3> QED BY <1>1, <3>3, <3>4 DEF Rests
  <2>2. ASSUME NEW u \in Thread PROVE Agree(u)'
    <3>1. CASE u = t
      BY <1>1, <1>3, <1>6, <3>1 DEF Agree
    <3>2. CASE u # t
      BY <1>1, <1>3, <1>6, <3>2 DEF Agree
    <3> QED BY <3>1, <3>2
  <2> QED BY <2>1, <2>2 DEF Control, AtRest
<1>8. TypeOK' /\ todo' \in Seq(GoodTask)
  <2>1. todo' \in Seq([op : Ops, obj : Object \cup {None}, at : Nat])
    BY <1>1, <1>3, TypeOfTodo
  <2> QED BY <1>1, <1>3, <1>5, <1>6, <2>1 DEF Inv, TypeOK, objectVars
<1>9. ReadyInv'
  BY <1>5, <1>6 DEF Inv, ReadyInv
<1>10. RegistrationConsistent'
  BY <1>1 DEF Inv, RegistrationConsistent
<1>11. MutexInv' /\ fault' \notin Bookkeeping
  BY <1>1 DEF Inv, MutexInv, objectVars
<1> QED BY <1>7, <1>8, <1>9, <1>10, <1>11 DEF Inv

(* A thread is unregistered from an object that leaves its wait list. *)
LEMMA RegistrationRemoved ==
    ASSUME TypeOK, RegistrationConsistent, NEW t \in Thread, NEW o \in Object, Contains(observers[o], t),
           NEW l \in Seq(Object),
           \A x : Occurrences(l, x) = IF x = o THEN Occurrences(waitList[t], x) - 1
                                      ELSE Occurrences(waitList[t], x),
           observers' = Unregister(o, t), waitList' = [waitList EXCEPT ![t] = l]
    PROVE  /\ RegistrationConsistent'
           /\ observers' \in [Object -> Seq(Thread)] /\ waitList' \in [Thread -> Seq(Object)]
<1>1. waitList \in [Thread -> Seq(Object)] /\ observers \in [Object -> Seq(Thread)]
  BY DEF TypeOK
<1>2. PICK p : p = observers[o]
  OBVIOUS
<1>3. p \in Seq(Thread) /\ Contains(p, t)
  BY <1>1, <1>2
<1>4. /\ RemoveFirst(p, t) \in Seq(Thread)
      /\ \A x : Occurrences(RemoveFirst(p, t), x) =
                  IF t = x THEN Occurrences(p, x) - 1 ELSE Occurrences(p, x)
  BY <1>3, OccurrencesRemoveFirst
<1>5. PICK r : r = RemoveFirst(p, t)
  OBVIOUS
<1>6. observers' = [observers EXCEPT ![o] = r]
  BY <1>2, <1>5 DEF Unregister
<1>7. observers' \in [Object -> Seq(Thread)] /\ waitList' \in [Thread -> Seq(Object)]
  BY <1>1, <1>4, <1>5, <1>6
<1>8. ASSUME NEW u \in Thread, NEW x \in Object
      PROVE  Occurrences(observers'[x], u) = Occurrences(waitList'[u], x)
  <2>1. Occurrences(observers[x], u) = Occurrences(waitList[u], x)
    BY DEF RegistrationConsistent
  <2>2. observers'[x] = IF x = o THEN r ELSE observers[x]
    BY <1>1, <1>6
  <2>3. waitList'[u] = IF u = t THEN l ELSE waitList[u]
    BY <1>1
  <2>4. CASE x = o /\ u = t
    BY <1>2, <1>4, <1>5, <2>1, <2>2, <2>3, <2>4
  <2>5. CASE x = o /\ u # t
    BY <1>2, <1>4, <1>5, <2>1, <2>2, <2>3, <2>5
  <2>6. CASE x # o /\ u = t
    BY <2>1, <2>2, <2>3, <2>6
  <2>7. CASE x # o /\ u # t
    BY <2>1, <2>2, <2>3, <2>7
  <2> QED BY <2>4, <2>5, <2>6, <2>7
<1> QED BY <1>7, <1>8 DEF RegistrationConsistent

(* A thread observes exactly what it waits for. *)
LEMMA ObserversWait ==
    ASSUME TypeOK, RegistrationConsistent, NEW t \in Thread, NEW o \in Object
    PROVE  Contains(observers[o], t) <=> Contains(waitList[t], o)
<1>1. waitList[t] \in Seq(Object) /\ observers[o] \in Seq(Thread)
  BY DEF TypeOK
<1>2. PICK p, q : p = observers[o] /\ q = waitList[t]
  OBVIOUS
<1>3. Occurrences(p, t) > 0 <=> Contains(p, t)
  BY <1>1, <1>2, OccurrencesType
<1>4. Occurrences(q, o) > 0 <=> Contains(q, o)
  BY <1>1, <1>2, OccurrencesType
<1>5. Occurrences(p, t) = Occurrences(q, o)
  BY <1>2 DEF RegistrationConsistent
<1> QED BY <1>2, <1>3, <1>4, <1>5

(* One Unregister of a thread that stops waiting, or the end of them. *)
LEMMA DropInv == ASSUME Inv, Drop PROVE Inv'
<1>1. /\ fault = "none" /\ todo # <<>> /\ Head(todo).op = "drop"
      /\ UNCHANGED <<status, waitForAll, timeoutAt, result, objectVars, queueVars, open,
                     listed, exited, running>>
  BY DEF Drop, Doing
<1>2. PICK t : t = Obj
  OBVIOUS
<1>3. Head(todo) \in GoodTask /\ Tail(todo) \in Seq(GoodTask) /\ t \in Thread
  <2>1. Head(todo) \in GoodTask /\ Tail(todo) \in Seq(GoodTask)
    BY <1>1, HeadCases
  <2> QED BY <1>1, <1>2, <2>1 DEF GoodTask, Obj, Calls
<1>4. /\ TypeOK /\ RegistrationConsistent
      /\ waitList \in [Thread -> Seq(Object)] /\ observers \in [Object -> Seq(Thread)]
  BY DEF Inv, TypeOK
<1>5. \/ AtRest /\ t = running /\ status[t] = "Ready" /\ Rests(Tail(todo), running, status)
         /\ \A u \in Thread : u # t => Agree(u)
      \/ /\ Tail(todo) # <<>> /\ Waking(Head(Tail(todo)), Tail(Tail(todo)))
         /\ Head(todo) = Task("drop", Head(Tail(todo)).obj, 0) /\ Head(Tail(todo)).obj = t
  <2>1. CASE AtRest
    <3>1. todo \in Seq(GoodTask) /\ Rests(todo, running, status)
      BY <2>1 DEF AtRest, Inv
    <3>2. Head(todo).obj = running /\ status[running] = "Ready" /\ Rests(Tail(todo), running, status)
      BY <1>1, <3>1, RestsTail DEF Calls
    <3> QED BY <1>2, <2>1, <3>2 DEF AtRest, Obj
  <2>2. CASE ~AtRest
    <3>1. Head(todo).op \notin Wakes
      BY <1>1 DEF Wakes
    <3>2. /\ Tail(todo) # <<>> /\ Waking(Head(Tail(todo)), Tail(Tail(todo)))
          /\ Head(todo) = Task("drop", Head(Tail(todo)).obj, 0)
      BY <1>1, <2>2, <3>1 DEF Inv, Control, Waking
    <3>3. Head(todo).obj = Head(Tail(todo)).obj
      BY <3>2, TaskTypes
    <3> QED BY <1>2, <3>2, <3>3 DEF Obj
  <2> QED BY <2>1, <2>2
<1>6. CASE waitList[t] = <<>>
  <2>1. todo' = Tail(todo) /\ UNCHANGED <<waitList, observers, fault>>
    BY <1>2, <1>6 DEF Drop, Done
  <2>2. Control'
    <3>1. CASE t = running /\ status[t] = "Ready" /\ Rests(Tail(todo), running, status)
               /\ \A u \in Thread : u # t => Agree(u)
      <4>1. \A u \in Thread : Agree(u)
        BY <1>6, <3>1 DEF Agree
      <4>2. UNCHANGED <<status, waitList, running>>
        BY <1>1, <2>1
      <4>3. PICK p : p = Tail(todo)
        OBVIOUS
      <4> QED BY <2>1, <3>1, <4>1, <4>2, <4>3, GoesOn
    <3>2. CASE Tail(todo) # <<>> /\ Waking(Head(Tail(todo)), Tail(Tail(todo))) /\ Head(Tail(todo)).obj = t
      <4>1. \A u \in Thread : Agree(u) => Agree(u)'
        BY <1>1, <2>1 DEF Agree
      <4>2. Waking(Head(todo), Tail(todo))'
        BY <1>1, <2>1, <3>2, <4>1 DEF Waking
      <4>3. todo' # <<>> /\ waitList'[Head(todo').obj] = <<>>
        BY <1>6, <2>1, <3>2
      <4> QED BY <4>2, <4>3 DEF Control
    <3> QED BY <1>5, <3>1, <3>2
  <2>3. TypeOK' /\ todo' \in Seq(GoodTask)
    <3>1. todo' \in Seq([op : Ops, obj : Object \cup {None}, at : Nat])
      BY <1>3, <2>1, TypeOfTodo
    <3> QED BY <1>1, <1>3, <1>4, <2>1, <3>1 DEF TypeOK, objectVars, queueVars
  <2>4. ReadyInv' /\ RegistrationConsistent'
    BY <1>1, <2>1, ListsKept DEF queueVars
  <2>5. MutexInv' /\ fault' \notin Bookkeeping
    BY <1>1, <2>1 DEF Inv, MutexInv, objectVars
  <2> QED BY <2>2, <2>3, <2>4, <2>5 DEF Inv
<1>7. CASE waitList[t] # <<>>
  <2>1. PICK l : l = waitList[t]
    OBVIOUS
  <2>2. PICK o, r : o = Head(l) /\ r = Tail(l)
    OBVIOUS
  <2>3. l \in Seq(Object) /\ l # <<>>
    BY <1>3, <1>4, <1>7, <2>1
  <2>4. /\ o \in Object /\ r \in Seq(Object) /\ Contains(l, o)
        /\ \A x : Occurrences(r, x) = IF o = x THEN Occurrences(l, x) - 1 ELSE Occurrences(l, x)
    BY <2>2, <2>3, OccurrencesTail
  <2>5. Contains(observers[o], t)
    BY <1>3, <1>4, <2>1, <2>4, ObserversWait
  <2>6. /\ fault' = fault /\ observers' = Unregister(o, t) /\ todo' = todo
        /\ waitList' = [waitList EXCEPT ![t] = r]
    BY <1>2, <1>7, <2>1, <2>2, <2>5 DEF Drop
  <2>7. /\ RegistrationConsistent'
        /\ observers' \in [Object -> Seq(Thread)] /\ waitList' \in [Thread -> Seq(Object)]
    BY <1>3, <1>4, <2>1, <2>4, <2>5, <2>6, RegistrationRemoved
  <2>8. \A u \in Thread : u # t /\ Agree(u) => Agree(u)'
    BY <1>1, <1>4, <2>6 DEF Agree
  <2>9. Control'
    <3>1. CASE AtRest /\ t = running /\ \A u \in Thread : u # t => Agree(u)
      <4>1. Rests(todo', running', status')
        BY <1>1, <2>6, <3>1 DEF AtRest
      <4> QED BY <1>1, <2>6, <2>8, <3>1, <4>1 DEF Control, AtRest
    <3>2. CASE /\ Tail(todo) # <<>> /\ Waking(Head(Tail(todo)), Tail(Tail(todo)))
               /\ Head(todo) = Task("drop", Head(Tail(todo)).obj, 0) /\ Head(Tail(todo)).obj = t
      <4>1. \A u \in Thread : u # Head(Tail(todo)).obj => Agree(u)'
        BY <2>8, <3>2 DEF Waking
      <4>2. Waking(Head(Tail(todo)), Tail(Tail(todo)))'
        BY <1>1, <2>6, <3>2, <4>1 DEF Waking
      <4> QED BY <1>1, <2>6, <3>2, <4>2 DEF Control
    <3> QED BY <1>5, <3>1, <3>2
  <2>10. TypeOK' /\ todo' \in Seq(GoodTask)
    BY <1>1, <1>4, <2>6, <2>7 DEF Inv, TypeOK, objectVars, queueVars
  <2>11. ReadyInv'
    BY <1>1 DEF Inv, ReadyInv, queueVars
  <2>12. MutexInv' /\ fault' \notin Bookkeeping
    BY <1>1, <2>6 DEF Inv, MutexInv, objectVars
  <2> QED BY <2>7, <2>9, <2>10, <2>11, <2>12 DEF Inv
<1> QED BY <1>6, <1>7
(* A wake-up of thread t, with or without the end of its waiting, that     *)
(* comes before the rest of the work.                                      *)
LEMMA WakingStep ==
    ASSUME Inv, fault = "none", NEW t \in Thread, NEW w \in GoodTask, w.op \in Wakes, w.obj = t,
           Rests(todo, running, status), UNCHANGED <<status, running>>,
           \A u \in Thread : u # t => Agree(u)',
           \/ todo' = <<w>> \o todo /\ waitList'[t] = <<>>
           \/ todo' = <<Task("drop", t, 0)>> \o (<<w>> \o todo)
    PROVE  todo' \in Seq(GoodTask) /\ Control'
<1>1. todo \in Seq(GoodTask)
  BY DEF Inv
<1>2. PICK p : p = <<w>> \o todo
  OBVIOUS
<1>3. p \in Seq(GoodTask) /\ p # <<>> /\ Head(p) = w /\ Tail(p) = todo
  BY <1>1, <1>2, ConsProperties
<1>4. CASE todo' = p /\ waitList'[t] = <<>>
  <2>1. todo' # <<>> /\ waitList'[Head(todo').obj] = <<>>
    BY <1>3, <1>4
  <2>2. Waking(Head(todo), Tail(todo))'
    BY <1>3, <1>4 DEF Waking
  <2> QED BY <1>3, <1>4, <2>1, <2>2 DEF Control
<1>5. CASE todo' = <<Task("drop", t, 0)>> \o p
  <2> DEFINE d == Task("drop", t, 0)
  <2>1. d \in GoodTask
    BY TaskTypes
  <2> HIDE DEF d
  <2>2. <<d>> \o p \in Seq(GoodTask) /\ <<d>> \o p # <<>> /\ Head(<<d>> \o p) = d /\ Tail(<<d>> \o p) = p
    BY <1>3, <2>1, ConsProperties
  <2>3. todo' \in Seq(GoodTask) /\ todo' # <<>> /\ Head(todo') = d /\ Tail(todo') = p
    BY <1>5, <2>2 DEF d
  <2>4. Waking(Head(Tail(todo)), Tail(Tail(todo)))'
    BY <1>3, <2>3 DEF Waking
  <2>5. Head(todo') = Task("drop", Head(Tail(todo')).obj, 0)
    BY <1>3, <2>3 DEF d
  <2> QED BY <1>3, <2>3, <2>4, <2>5 DEF Control
<1> QED BY <1>2, <1>4, <1>5

(* One iteration of the loop over the waiting threads. *)
LEMMA ExpireInv == ASSUME Inv, Expire PROVE Inv'
<1>1. /\ fault = "none" /\ todo # <<>> /\ Head(todo).op \in Neutral /\ Head(todo).op = "expire"
      /\ UNCHANGED <<status, waitList, waitForAll, timeoutAt, observers, objectVars, readyQueue, open,
                     listed, exited, running, fault>>
  BY DEF Expire, Doing, Neutral
<1>2. /\ Rests(Tail(todo), running, status) /\ Tail(todo) \in Seq(GoodTask) /\ \A t \in Thread : Agree(t)
      /\ ~HasTry(Tail(todo)) /\ Head(todo) \in GoodTask /\ Rests(todo, running, status)
  BY <1>1, NeutralHead
<1>3. PICK k : k = At
  OBVIOUS
<1>4. /\ k \in Nat /\ k >= 1 /\ k + 1 \in Nat \ {0}
      /\ waitingQueue \in Seq(Thread) /\ Len(waitingQueue) \in Nat
      /\ result \in [Thread -> {"ok", "timeout"}] /\ todo \in Seq(GoodTask)
  BY <1>1, <1>2, <1>3, LenProperties DEF At, GoodTask, Inv, TypeOK
<1>5. \A u \in Thread : Agree(u)'
  BY <1>1, <1>2 DEF Agree
<1>6. /\ todo' \in Seq(GoodTask) /\ Control'
      /\ waitingQueue' \in Seq(Thread) /\ result' \in [Thread -> {"ok", "timeout"}]
  <2>1. CASE k > Len(waitingQueue)
    <3>1. todo' = Tail(todo) /\ UNCHANGED <<waitingQueue, result>>
      BY <1>3, <1>4, <2>1 DEF Expire, Done
    <3>2. Control'
      <4>1. PICK p : p = Tail(todo)
        OBVIOUS
      <4> QED BY <1>1, <1>2, <3>1, <4>1, GoesOn
    <3> QED BY <1>2, <1>4, <3>1, <3>2
  <2>2. CASE ~(k > Len(waitingQueue))
    <3>1. k \in 1..Len(waitingQueue)
      BY <1>4, <2>2
    <3>2. PICK t : t = waitingQueue[k]
      OBVIOUS
    <3>3. t \in Thread /\ RemoveAt(waitingQueue, k) \in Seq(Thread)
      BY <1>4, <3>1, <3>2, ElementOfSeq, RemoveAtProperties
    <3>4. CASE ~Alive(t)
      <4>1. todo' = todo /\ waitingQueue' = RemoveAt(waitingQueue, k) /\ result' = result
        BY <1>3, <1>4, <2>2, <3>2, <3>4 DEF Expire
      <4>2. Control'
        <5>1. PICK p : p = todo
          OBVIOUS
        <5> QED BY <1>1, <1>2, <4>1, <5>1, GoesOn
      <4> QED BY <1>4, <3>3, <4>1, <4>2
    <3>5. CASE Alive(t) /\ timeoutAt[t] = 0
      <4> DEFINE w == Task("wakeBack", t, 0)
                 d == Task("drop", t, 0)
      <4>1. /\ waitingQueue' = RemoveAt(waitingQueue, k) /\ todo' = OnTimeout(t) \o todo
            /\ result' = IF status[t] = "Sleeping" THEN [result EXCEPT ![t] = "timeout"] ELSE result
        BY <1>3, <1>4, <2>2, <3>2, <3>5 DEF Expire, Before
      <4>2. result' \in [Thread -> {"ok", "timeout"}]
        BY <1>4, <3>3, <4>1
      <4>3. w \in GoodTask /\ d \in GoodTask /\ w.op \in Wakes /\ w.obj = t
        BY <3>3, TaskTypes DEF Wakes
      <4>4. \/ todo' = (<<d>> \o <<w>>) \o todo
            \/ todo' = (<<>> \o <<w>>) \o todo /\ status[t] # "Sleeping"
        BY <4>1 DEF OnTimeout
      <4>5. status[t] # "Sleeping" => waitList'[t] = <<>>
        BY <1>1, <1>2, <3>3 DEF Agree
      <4> HIDE DEF w
      <4>6. /\ (<<d>> \o <<w>>) \o todo = <<d>> \o (<<w>> \o todo)
            /\ (<<>> \o <<w>>) \o todo = <<w>> \o todo
        <5> HIDE DEF d
        <5> QED BY <1>4, <4>3, ConsOptional
      <4>7. \/ todo' = <<w>> \o todo /\ waitList'[t] = <<>>
            \/ todo' = <<Task("drop", t, 0)>> \o (<<w>> \o todo)
        BY <4>4, <4>5, <4>6
      <4>8. todo' \in Seq(GoodTask) /\ Control'
        BY <1>1, <1>2, <1>5, <3>3, <4>3, <4>7, WakingStep
      <4> QED BY <3>3, <4>1, <4>2, <4>8
    <3>6. CASE Alive(t) /\ timeoutAt[t] # 0
      <4> DEFINE w == Task("expire", None, k + 1)
      <4>1. todo' = <<w>> \o Tail(todo) /\ UNCHANGED <<waitingQueue, result>>
        BY <1>3, <1>4, <2>2, <3>2, <3>6 DEF Expire, Then
      <4>2. w \in GoodTask /\ w.op \in Neutral
        BY <1>4, TaskTypes DEF Neutral
      <4> HIDE DEF w
      <4>3. PICK q : q = Tail(todo)
        OBVIOUS
      <4>4. <<w>> \o q \in Seq(GoodTask) /\ Rests(<<w>> \o q, running, status)
        BY <1>2, <4>2, <4>3, NeutralCons
      <4>5. Control'
        <5>1. PICK p : p = <<w>> \o q
          OBVIOUS
        <5> QED BY <1>1, <1>2, <4>1, <4>3, <4>4, <5>1, GoesOn
      <4> QED BY <1>4, <4>1, <4>3, <4>4, <4>5
    <3> QED BY <3>4, <3>5, <3>6
  <2> QED BY <2>1, <2>2
<1>7. TypeOK'
  <2>1. todo' \in Seq([op : Ops, obj : Object \cup {None}, at : Nat])
    BY <1>6, TypeOfTodo
  <2> QED BY <1>1, <1>6, <2>1 DEF Inv, TypeOK, objectVars
<1>8. ReadyInv' /\ RegistrationConsistent'
  BY <1>1, ListsKept
<1>9. MutexInv' /\ fault' \notin Bookkeeping
  BY <1>1 DEF Inv, MutexInv, objectVars
<1> QED BY <1>6, <1>7, <1>8, <1>9 DEF Inv

(* Every kind of object keeps its type when it is acquired. *)
LEMMA AcquireTypes ==
    ASSUME TypeOK, MutexInv, NEW t \in Thread, NEW o \in Object,
           CanAcquire(t, o) \/ OwnerDestroyed(o), Acquire(t, o)
    PROVE  /\ owner' \in [Mutex -> Thread \cup {None}] /\ lockCount' \in [Mutex -> Nat]
           /\ available' \in [Semaphore -> 0..MaxAvailable] /\ signalled' \in [Event -> BOOLEAN]
           /\ timerAt' \in [Timer -> Nat \cup {Never}] /\ period' \in [Timer -> Nat]
           /\ MutexInv'
<1>1. t # None /\ MaxAvailable \in Nat
  BY KernelAssumption DEF Object
<1>2. /\ owner \in [Mutex -> Thread \cup {None}] /\ lockCount \in [Mutex -> Nat]
      /\ available \in [Semaphore -> 0..MaxAvailable] /\ signalled \in [Event -> BOOLEAN]
      /\ timerAt \in [Timer -> Nat \cup {Never}] /\ period \in [Timer -> Nat]
  BY DEF TypeOK
<1>3. owner' \in [Mutex -> Thread \cup {None}] /\ lockCount' \in [Mutex -> Nat] /\ MutexInv'
  <2>1. CASE o \in Mutex
    <3>1. owner' = [owner EXCEPT ![o] = t] /\ lockCount' = [lockCount EXCEPT ![o] = @ + 1]
      BY <2>1 DEF Acquire
    <3>2. owner' \in [Mutex -> Thread \cup {None}] /\ lockCount' \in [Mutex -> Nat]
      BY <1>2, <2>1, <3>1
    <3>3. ASSUME NEW m \in Mutex PROVE lockCount'[m] > 0 <=> owner'[m] # None
      <4>1. CASE m = o
        BY <1>1, <1>2, <3>1, <4>1
      <4>2. CASE m # o
        BY <1>2, <3>1, <4>2 DEF MutexInv
      <4> QED BY <4>1, <4>2
    <3> QED BY <3>2, <3>3 DEF MutexInv
  <2>2. CASE o \notin Mutex
    <3>1. owner' = owner /\ lockCount' = lockCount
      BY <2>2 DEF Acquire
    <3> QED BY <1>2, <3>1 DEF MutexInv
  <2> QED BY <2>1, <2>2
<1>4. available' \in [Semaphore -> 0..MaxAvailable]
  <2>1. CASE o \in Semaphore
    <3>1. available[o] > 0
      BY <2>1, KernelAssumption DEF CanAcquire, OwnerDestroyed
    <3>2. available[o] \in 0..MaxAvailable /\ available[o] - 1 \in 0..MaxAvailable
      BY <1>1, <1>2, <2>1, <3>1
    <3> QED BY <1>2, <2>1, <3>2 DEF Acquire
  <2>2. CASE o \notin Semaphore
    BY <1>2, <2>2 DEF Acquire
  <2> QED BY <2>1, <2>2
<1>5. signalled' \in [Event -> BOOLEAN]
  BY <1>2 DEF Acquire
<1>6. timerAt' \in [Timer -> Nat \cup {Never}] /\ period' \in [Timer -> Nat]
  <2>1. CASE o \in Timer
    <3>1. ResetType[o] \in {"OneShot", "Sticky", "Pulse"}
      BY <2>1, KernelAssumption
    <3>2. timerAt[o] \in Nat \cup {Never} /\ period[o] \in Nat
      BY <1>2, <2>1
    <3>3. \E x \in Nat \cup {Never} : timerAt' = [timerAt EXCEPT ![o] = x]
      BY <2>1, <3>1, <3>2 DEF Acquire
    <3>4. timerAt' \in [Timer -> Nat \cup {Never}]
      BY <1>2, <3>3
    <3> QED BY <1>2, <3>4 DEF Acquire
  <2>2. CASE o \notin Timer
    BY <1>2, <2>2 DEF Acquire
  <2> QED BY <2>1, <2>2
<1> QED BY <1>3, <1>4, <1>5, <1>6
(* The front observer of an object sleeps, waits for the object, and can  *)
(* acquire it unless the loop ends.                                        *)
LEMMA FrontObserver ==
    ASSUME Inv, Doing("notify"), ~NotifyDone(Obj)
    PROVE  LET o == Obj
               t == Head(observers[o])
           IN  /\ o \in Object /\ t \in Thread /\ observers[o] # <<>>
               /\ Contains(observers[o], t) /\ Contains(waitList[t], o) /\ status[t] = "Sleeping"
               /\ CanAcquire(t, o) \/ OwnerDestroyed(o)
<1>1. fault = "none" /\ todo # <<>> /\ Head(todo).op \in Neutral /\ Head(todo).op = "notify"
  BY DEF Doing, Neutral
<1>2. Head(todo) \in GoodTask /\ \A t \in Thread : Agree(t)
  BY <1>1, NeutralHead
<1>3. PICK o : o = Obj
  OBVIOUS
<1>4. o \in Object
  BY <1>1, <1>2, <1>3 DEF GoodTask, Obj
<1>5. PICK q : q = observers[o]
  OBVIOUS
<1>6. q # <<>> /\ q \in Seq(Thread)
  BY <1>3, <1>4, <1>5 DEF NotifyDone, Inv, TypeOK
<1>7. PICK t : t = Head(q)
  OBVIOUS
<1>8. t \in Thread /\ Contains(q, t)
  BY <1>6, <1>7, ContainsTail
<1>9. Contains(waitList[t], o)
  BY <1>4, <1>5, <1>8, ObserversWait DEF Inv
<1>10. status[t] = "Sleeping"
  <2>1. waitList[t] # <<>>
    BY <1>9 DEF Contains
  <2> QED BY <1>2, <1>8, <2>1 DEF Agree
<1>11. CanAcquire(t, o) \/ OwnerDestroyed(o)
  BY <1>3, <1>5, <1>6, <1>7, <1>10 DEF NotifyDone
<1> QED BY <1>3, <1>4, <1>5, <1>6, <1>7, <1>8, <1>9, <1>10, <1>11

(* One iteration of OnResourceReady: the front observer acquires. *)
LEMMA NotifyNextInv == ASSUME Inv, NotifyNext PROVE Inv'
<1>1. /\ fault = "none" /\ todo # <<>> /\ Head(todo).op \in Neutral /\ Doing("notify") /\ ~NotifyDone(Obj)
      /\ UNCHANGED <<status, waitForAll, timeoutAt, result, queueVars, open, listed, exited, running>>
  BY DEF NotifyNext, Doing, Neutral
<1>2. PICK o, t : o = Obj /\ t = Head(observers[Obj])
  OBVIOUS
<1>3. /\ o \in Object /\ t \in Thread
      /\ Contains(observers[o], t) /\ Contains(waitList[t], o) /\ status[t] = "Sleeping"
      /\ CanAcquire(t, o) \/ OwnerDestroyed(o)
  BY <1>1, <1>2, FrontObserver
<1>4. PICK l : l = RemoveFirst(waitList[t], o)
  OBVIOUS
<1>5. /\ fault' \in {"none", "mutex owner destroyed"} /\ Acquire(t, o) /\ observers' = Unregister(o, t)
      /\ waitList' = [waitList EXCEPT ![t] = l]
      /\ \/ todo' = <<Task("drop", t, 0), Task("wakeFront", t, 0)>> \o todo
         \/ l = <<>> /\ todo' = <<Task("wakeFront", t, 0)>> \o todo
         \/ l # <<>> /\ todo' = todo
  BY <1>1, <1>2, <1>3, <1>4 DEF NotifyNext, Before
<1>6. Rests(todo, running, status) /\ todo \in Seq(GoodTask) /\ \A u \in Thread : Agree(u)
  BY <1>1, NeutralHead DEF Inv
<1>7. TypeOK /\ RegistrationConsistent /\ MutexInv /\ waitList \in [Thread -> Seq(Object)]
  BY DEF Inv, TypeOK
<1>8. /\ l \in Seq(Object)
      /\ \A x : Occurrences(l, x) = IF x = o THEN Occurrences(waitList[t], x) - 1
                                    ELSE Occurrences(waitList[t], x)
  <2>1. PICK r : r = waitList[t]
    OBVIOUS
  <2>2. r \in Seq(Object) /\ Contains(r, o) /\ l = RemoveFirst(r, o)
    BY <1>3, <1>4, <1>7, <2>1
  <2> QED BY <2>1, <2>2, OccurrencesRemoveFirst
<1>9. /\ RegistrationConsistent'
      /\ observers' \in [Object -> Seq(Thread)] /\ waitList' \in [Thread -> Seq(Object)]
  BY <1>3, <1>5, <1>7, <1>8, RegistrationRemoved
<1>10. /\ owner' \in [Mutex -> Thread \cup {None}] /\ lockCount' \in [Mutex -> Nat]
       /\ available' \in [Semaphore -> 0..MaxAvailable] /\ signalled' \in [Event -> BOOLEAN]
       /\ timerAt' \in [Timer -> Nat \cup {Never}] /\ period' \in [Timer -> Nat]
       /\ MutexInv'
  BY <1>3, <1>5, <1>7, AcquireTypes
<1>11. waitList'[t] = l /\ \A u \in Thread : u # t => Agree(u)'
  BY <1>1, <1>3, <1>5, <1>6, <1>7 DEF Agree
<1>12. todo' \in Seq(GoodTask) /\ Control'
  <2> DEFINE w == Task("wakeFront", t, 0)
             d == Task("drop", t, 0)
  <2>1. w \in GoodTask /\ d \in GoodTask /\ w.op \in Wakes /\ w.obj = t
    BY <1>3, TaskTypes DEF Wakes
  <2>2. CASE \/ todo' = <<d, w>> \o todo
             \/ l = <<>> /\ todo' = <<w>> \o todo
    <3>1. <<d, w>> \o todo = <<d>> \o (<<w>> \o todo)
      <4> HIDE DEF d, w
      <4> QED BY <1>6, <2>1, ConsTwo
    <3>2. \/ todo' = <<w>> \o todo /\ waitList'[t] = <<>>
          \/ todo' = <<Task("drop", t, 0)>> \o (<<w>> \o todo)
      BY <1>11, <2>2, <3>1
    <3> HIDE DEF w
    <3> QED BY <1>1, <1>3, <1>6, <1>11, <2>1, <3>2, WakingStep
  <2>3. CASE l # <<>> /\ todo' = todo
    <3>1. \A u \in Thread : Agree(u)'
      BY <1>1, <1>3, <1>11, <2>3 DEF Agree
    <3>2. Rests(todo', running', status')
      BY <1>1, <1>6, <2>3
    <3> QED BY <1>6, <2>3, <3>1, <3>2 DEF Control, AtRest
  <2> QED BY <1>5, <2>2, <2>3
<1>13. TypeOK'
  <2>1. todo' \in Seq([op : Ops, obj : Object \cup {None}, at : Nat])
    BY <1>12, TypeOfTodo
  <2>2. fault' \in {"none"} \cup Assertions \cup Errors
    BY <1>5 DEF Assertions
  <2> QED BY <1>1, <1>7, <1>9, <1>10, <2>1, <2>2 DEF TypeOK, queueVars
<1>14. ReadyInv'
  BY <1>1 DEF Inv, ReadyInv, queueVars
<1>15. fault' \notin Bookkeeping
  BY <1>5 DEF Bookkeeping
<1> QED BY <1>9, <1>10, <1>12, <1>13, <1>14, <1>15 DEF Inv

(* The head of the work is a loop over the wait list of the running thread. *)
LEMMA TryHead ==
    ASSUME Inv, Doing("try")
    PROVE  /\ fault = "none" /\ todo # <<>> /\ todo \in Seq(GoodTask)
           /\ Obj = running /\ running \in Thread /\ status[running] = "Ready"
           /\ At \in Nat /\ At >= 1 /\ At + 1 \in Nat \ {0}
           /\ Tail(todo) \in Seq(GoodTask) /\ Rests(Tail(todo), running, status)
           /\ ~HasTry(Tail(todo)) /\ ~HasCalls(Tail(todo)) /\ Returns(Tail(todo))
           /\ Rests(todo, running, status)
           /\ \A t \in Thread : t # running => Agree(t)
<1>1. fault = "none" /\ todo # <<>> /\ Head(todo).op = "try" /\ todo \in Seq(GoodTask)
  BY DEF Doing, Inv
<1>2. AtRest /\ Head(todo) \in GoodTask
  <2>1. Head(todo).op \notin Wakes \cup {"drop"}
    BY <1>1 DEF Wakes
  <2> QED BY <1>1, <2>1, HeadCases
<1>3. Rests(todo, running, status) /\ \A t \in Thread : t # running => Agree(t)
  BY <1>2 DEF AtRest
<1>4. /\ Tail(todo) \in Seq(GoodTask) /\ Rests(Tail(todo), running, status)
      /\ ~HasTry(Tail(todo)) /\ ~HasCalls(Tail(todo)) /\ Returns(Tail(todo))
      /\ Head(todo).obj = running /\ running \in Thread /\ status[running] = "Ready"
  BY <1>1, <1>3, RestsTail DEF Calls
<1>5. At \in Nat /\ At >= 1 /\ At + 1 \in Nat \ {0}
  BY <1>1, <1>2 DEF GoodTask, At
<1> QED BY <1>1, <1>3, <1>4, <1>5 DEF Obj

(* One iteration of that loop. *)
LEMMA TryInv == ASSUME Inv, Try PROVE Inv'
<1>1. /\ Doing("try") /\ At <= Len(waitList[Obj])
      /\ UNCHANGED <<status, waitForAll, timeoutAt, result, queueVars, open, listed, exited, running>>
  BY DEF Try
<1>2. /\ fault = "none" /\ todo # <<>> /\ todo \in Seq(GoodTask)
      /\ Obj = running /\ running \in Thread /\ status[running] = "Ready"
      /\ At \in Nat /\ At >= 1 /\ At + 1 \in Nat \ {0}
      /\ Tail(todo) \in Seq(GoodTask) /\ Rests(Tail(todo), running, status)
      /\ ~HasTry(Tail(todo)) /\ ~HasCalls(Tail(todo)) /\ Returns(Tail(todo))
      /\ Rests(todo, running, status)
      /\ \A t \in Thread : t # running => Agree(t)
  BY <1>1, TryHead
<1>3. PICK t : t = running
  OBVIOUS
<1>4. PICK l : l = waitList[t]
  OBVIOUS
<1>5. PICK k : k = At
  OBVIOUS
<1>6. TypeOK /\ RegistrationConsistent /\ MutexInv /\ waitList \in [Thread -> Seq(Object)] /\ t \in Thread
  BY <1>2, <1>3 DEF Inv, TypeOK
<1>7. l \in Seq(Object) /\ k \in 1..Len(l)
  <2>1. l \in Seq(Object)
    BY <1>4, <1>6
  <2>2. Len(l) \in Nat
    BY <2>1, LenProperties
  <2> QED BY <1>1, <1>2, <1>3, <1>4, <1>5, <2>1, <2>2
<1>8. PICK o : o = l[k]
  OBVIOUS
<1>9. o \in Object /\ Contains(l, o)
  BY <1>7, <1>8, ElementOfSeq DEF Contains
<1>10. Contains(observers[o], t)
  BY <1>4, <1>6, <1>9, ObserversWait
<1> DEFINE x == Task("try", t, k + 1)
           d == Task("drop", t, 0)
<1>11. /\ fault' \in {"none", "mutex owner destroyed"}
       /\ \/ ~CanAcquire(t, o) /\ todo' = <<x>> \o Tail(todo) /\ UNCHANGED <<waitList, observers, objectVars>>
          \/ /\ CanAcquire(t, o) /\ Acquire(t, o) /\ observers' = Unregister(o, t)
             /\ waitList' = [waitList EXCEPT ![t] = RemoveAt(@, k)]
             /\ todo' = todo \/ todo' = <<d>> \o Tail(todo)
  BY <1>2, <1>3, <1>4, <1>5, <1>8 DEF Try, Then
<1>12. x \in GoodTask /\ d \in GoodTask /\ x.op = "try" /\ d.op = "drop" /\ x.obj = t /\ d.obj = t
  BY <1>2, <1>5, <1>6, TaskTypes
<1> HIDE DEF x, d
<1>13. PICK q : q = Tail(todo)
  OBVIOUS
<1>14. /\ <<x>> \o q \in Seq(GoodTask) /\ Rests(<<x>> \o q, t, status) /\ <<x>> \o q # <<>> /\ Head(<<x>> \o q) = x
       /\ <<d>> \o q \in Seq(GoodTask) /\ Rests(<<d>> \o q, t, status) /\ <<d>> \o q # <<>> /\ Head(<<d>> \o q) = d
  <2>1. q \in Seq(GoodTask) /\ Rests(q, t, status) /\ ~HasTry(q) /\ ~HasCalls(q) /\ Returns(q) /\ status[t] = "Ready"
    BY <1>2, <1>3, <1>13
  <2>2. /\ x.op \notin Wakes /\ x.op # "leave" /\ x.op # "exit"
        /\ d.op \notin Wakes /\ d.op # "leave" /\ d.op # "exit" /\ d.op # "try"
    BY <1>12 DEF Wakes
  <2>3. <<x>> \o q \in Seq(GoodTask) /\ Rests(<<x>> \o q, t, status) /\ <<x>> \o q # <<>> /\ Head(<<x>> \o q) = x
    BY <1>6, <1>12, <2>1, <2>2, RestsCons
  <2>4. <<d>> \o q \in Seq(GoodTask) /\ Rests(<<d>> \o q, t, status) /\ <<d>> \o q # <<>> /\ Head(<<d>> \o q) = d
    BY <1>6, <1>12, <2>1, <2>2, RestsCons
  <2> QED BY <2>3, <2>4
<1>15. /\ todo' \in Seq(GoodTask) /\ Rests(todo', running, status)
       /\ todo' # <<>> /\ Head(todo').op \in {"try", "drop"}
  <2>1. Head(todo).op = "try"
    BY <1>1 DEF Doing
  <2> QED BY <1>2, <1>3, <1>11, <1>12, <1>13, <1>14, <2>1
<1>16. \A u \in Thread : u # t => Agree(u)'
  BY <1>1, <1>2, <1>3, <1>6, <1>11 DEF Agree
<1>17. Control'
  <2>1. Rests(todo', running', status')
    BY <1>1, <1>15
  <2> QED BY <1>1, <1>3, <1>15, <1>16, <2>1 DEF Control, AtRest
<1>18. /\ RegistrationConsistent' /\ MutexInv'
       /\ observers' \in [Object -> Seq(Thread)] /\ waitList' \in [Thread -> Seq(Object)]
       /\ owner' \in [Mutex -> Thread \cup {None}] /\ lockCount' \in [Mutex -> Nat]
       /\ available' \in [Semaphore -> 0..MaxAvailable] /\ signalled' \in [Event -> BOOLEAN]
       /\ timerAt' \in [Timer -> Nat \cup {Never}] /\ period' \in [Timer -> Nat]
  <2>1. CASE UNCHANGED <<waitList, observers, objectVars>>
    <3>1. RegistrationConsistent'
      BY <1>6, <2>1 DEF RegistrationConsistent
    <3>2. MutexInv'
      BY <1>6, <2>1 DEF MutexInv, objectVars
    <3> QED BY <1>6, <2>1, <3>1, <3>2 DEF TypeOK, objectVars
  <2>2. CASE /\ CanAcquire(t, o) /\ Acquire(t, o) /\ observers' = Unregister(o, t)
             /\ waitList' = [waitList EXCEPT ![t] = RemoveAt(@, k)]
    <3>1. PICK r : r = RemoveAt(l, k)
      OBVIOUS
    <3>2. /\ r \in Seq(Object)
          /\ \A y : Occurrences(r, y) = IF o = y THEN Occurrences(l, y) - 1 ELSE Occurrences(l, y)
      BY <1>7, <1>8, <3>1, RemoveAtProperties, OccurrencesRemoveAt
    <3>3. waitList' = [waitList EXCEPT ![t] = r]
      BY <1>4, <2>2, <3>1
    <3>4. /\ RegistrationConsistent'
          /\ observers' \in [Object -> Seq(Thread)] /\ waitList' \in [Thread -> Seq(Object)]
      BY <1>4, <1>6, <1>9, <1>10, <2>2, <3>2, <3>3, RegistrationRemoved
    <3>5. /\ owner' \in [Mutex -> Thread \cup {None}] /\ lockCount' \in [Mutex -> Nat]
          /\ available' \in [Semaphore -> 0..MaxAvailable] /\ signalled' \in [Event -> BOOLEAN]
          /\ timerAt' \in [Timer -> Nat \cup {Never}] /\ period' \in [Timer -> Nat]
          /\ MutexInv'
      BY <1>6, <1>9, <2>2, AcquireTypes
    <3> QED BY <3>4, <3>5
  <2> QED BY <1>11, <2>1, <2>2
<1>19. TypeOK'
  <2>1. todo' \in Seq([op : Ops, obj : Object \cup {None}, at : Nat])
    BY <1>15, TypeOfTodo
  <2>2. fault' \in {"none"} \cup Assertions \cup Errors
    BY <1>11 DEF Assertions
  <2> QED BY <1>1, <1>6, <1>18, <2>1, <2>2 DEF TypeOK, queueVars
<1>20. ReadyInv'
  BY <1>1 DEF Inv, ReadyInv, queueVars
<1>21. fault' \notin Bookkeeping
  BY <1>11 DEF Bookkeeping
<1> QED BY <1>15, <1>17, <1>18, <1>19, <1>20, <1>21 DEF Inv
(* A queue without a thread that is not Ready any more. *)
LEMMA QueueErased ==
    ASSUME Inv, NEW t \in Thread, NEW s \in Status, s # "Ready",
           status' = [status EXCEPT ![t] = s], readyQueue' = Erased(readyQueue, t)
    PROVE  /\ ReadyInv' /\ readyQueue' \in Seq(Thread) /\ status' \in [Thread -> Status]
           /\ \A u \in Thread : status'[u] = IF u = t THEN s ELSE status[u]
<1>1. readyQueue \in Seq(Thread) /\ status \in [Thread -> Status] /\ ReadyInv
  BY DEF Inv, TypeOK
<1>2. /\ readyQueue' \in Seq(Thread)
      /\ \A x : Contains(readyQueue', x) <=> Contains(readyQueue, x) /\ x # t
  BY <1>1, ErasedProperties
<1>3. /\ status' \in [Thread -> Status]
      /\ \A u \in Thread : status'[u] = IF u = t THEN s ELSE status[u]
  BY <1>1
<1>4. ReadyInv'
  BY <1>1, <1>2, <1>3 DEF ReadyInv
<1> QED BY <1>2, <1>3, <1>4

(* The thread goes to sleep, unless there is nothing left to wait for. *)
LEMMA TryDoneInv == ASSUME Inv, TryDone PROVE Inv'
<1>1. /\ Doing("try")
      /\ UNCHANGED <<waitList, waitForAll, timeoutAt, result, observers, objectVars, open, listed, exited,
                     running, fault>>
  BY DEF TryDone
<1>2. /\ fault = "none" /\ todo # <<>> /\ todo \in Seq(GoodTask)
      /\ Obj = running /\ running \in Thread /\ status[running] = "Ready"
      /\ Tail(todo) \in Seq(GoodTask) /\ Rests(Tail(todo), running, status)
      /\ ~HasTry(Tail(todo)) /\ ~HasCalls(Tail(todo)) /\ Returns(Tail(todo))
      /\ \A t \in Thread : t # running => Agree(t)
  BY <1>1, TryHead
<1>3. PICK t : t = running
  OBVIOUS
<1>4. RegistrationConsistent' /\ MutexInv' /\ fault' \notin Bookkeeping
  <2>1. RegistrationConsistent'
    BY <1>1 DEF Inv, RegistrationConsistent
  <2>2. MutexInv' /\ fault' \notin Bookkeeping
    BY <1>1 DEF Inv, MutexInv, objectVars
  <2> QED BY <2>1, <2>2
<1>5. CASE waitList[t] = <<>>
  <2>1. todo' = Tail(todo) /\ UNCHANGED <<status, queueVars>>
    BY <1>2, <1>3, <1>5 DEF TryDone, Done
  <2>2. \A u \in Thread : Agree(u)
    BY <1>2, <1>3, <1>5 DEF Agree
  <2>3. Control'
    <3>1. PICK p : p = Tail(todo)
      OBVIOUS
    <3> QED BY <1>1, <1>2, <2>1, <2>2, <3>1, GoesOn
  <2>4. TypeOK'
    <3>1. todo' \in Seq([op : Ops, obj : Object \cup {None}, at : Nat])
      BY <1>2, <2>1, TypeOfTodo
    <3> QED BY <1>1, <2>1, <3>1 DEF Inv, TypeOK, objectVars, queueVars
  <2>5. ReadyInv'
    BY <2>1 DEF Inv, ReadyInv, queueVars
  <2> QED BY <1>2, <1>4, <2>1, <2>3, <2>4, <2>5 DEF Inv
<1>6. CASE waitList[t] # <<>>
  <2>1. /\ status' = [status EXCEPT ![t] = "Sleeping"] /\ readyQueue' = Erased(readyQueue, t)
        /\ waitingQueue' = Await(t) /\ todo' = Reschedule(t) \o Tail(todo)
    BY <1>2, <1>3, <1>6 DEF TryDone, Then
  <2>2. /\ ReadyInv' /\ readyQueue' \in Seq(Thread) /\ status' \in [Thread -> Status]
        /\ \A u \in Thread : status'[u] = IF u = t THEN "Sleeping" ELSE status[u]
    <3>1. "Sleeping" \in Status /\ "Sleeping" # "Ready"
      BY DEF Status
    <3> QED BY <1>2, <1>3, <2>1, <3>1, QueueErased
  <2>3. waitingQueue' \in Seq(Thread)
    <3>1. waitingQueue \in Seq(Thread) /\ t \in Thread
      BY <1>2, <1>3 DEF Inv, TypeOK
    <3>2. Append(waitingQueue, t) \in Seq(Thread)
      BY <3>1, ContainsAppend
    <3> QED BY <2>1, <3>1, <3>2 DEF Await
  <2>4. todo' \in Seq(GoodTask) /\ Rests(todo', t, status')
    <3>1. PICK q, st : q = Tail(todo) /\ st = status'
      OBVIOUS
    <3>2. q \in Seq(GoodTask) /\ Rests(q, t, st) /\ ~HasTry(q) /\ t \in Thread
      BY <1>2, <1>3, <3>1 DEF Rests
    <3>3. Reschedule(t) \o q \in Seq(GoodTask) /\ Rests(Reschedule(t) \o q, t, st)
      BY <3>2, RescheduleRests
    <3> QED BY <2>1, <3>1, <3>3
  <2>5. Control'
    <3>1. ASSUME NEW u \in Thread PROVE Agree(u)'
      <4>1. CASE u = t
        BY <1>1, <1>6, <2>2, <4>1 DEF Agree
      <4>2. CASE u # t
        BY <1>1, <1>2, <1>3, <2>2, <4>2 DEF Agree
      <4> QED BY <4>1, <4>2
    <3>2. Rests(todo', running', status')
      BY <1>1, <1>3, <2>4
    <3> QED BY <3>1, <3>2 DEF Control, AtRest
  <2>6. TypeOK'
    <3>1. todo' \in Seq([op : Ops, obj : Object \cup {None}, at : Nat])
      BY <2>4, TypeOfTodo
    <3> QED BY <1>1, <2>2, <2>3, <3>1 DEF Inv, TypeOK, objectVars
  <2> QED BY <1>4, <2>2, <2>4, <2>5, <2>6 DEF Inv
<1> QED BY <1>5, <1>6

(* Releasing one lock of a mutex. *)
LEMMA ReleaseTypes ==
    ASSUME TypeOK, MutexInv, NEW m \in Mutex, lockCount[m] > 0, Release(m)
    PROVE  /\ owner' \in [Mutex -> Thread \cup {None}] /\ lockCount' \in [Mutex -> Nat] /\ MutexInv'
           /\ UNCHANGED <<available, signalled, timerAt, period>>
<1>1. /\ owner \in [Mutex -> Thread \cup {None}] /\ lockCount \in [Mutex -> Nat]
      /\ lockCount' = [lockCount EXCEPT ![m] = @ - 1]
      /\ owner' = IF lockCount[m] = 1 THEN [owner EXCEPT ![m] = None] ELSE owner
      /\ UNCHANGED <<available, signalled, timerAt, period>>
  BY DEF TypeOK, Release
<1>2. lockCount[m] \in Nat /\ lockCount[m] - 1 \in Nat
  BY <1>1
<1>3. owner' \in [Mutex -> Thread \cup {None}] /\ lockCount' \in [Mutex -> Nat]
  BY <1>1, <1>2
<1>4. ASSUME NEW n \in Mutex PROVE lockCount'[n] > 0 <=> owner'[n] # None
  <2>1. CASE n = m
    BY <1>1, <1>2, <2>1 DEF MutexInv
  <2>2. CASE n # m
    BY <1>1, <2>2 DEF MutexInv
  <2> QED BY <2>1, <2>2
<1> QED BY <1>1, <1>3, <1>4 DEF MutexInv

(* The exiting thread goes through the mutexes. *)
LEMMA ExitMutexesInv == ASSUME Inv, ExitMutexes PROVE Inv'
<1>1. /\ fault = "none" /\ todo # <<>> /\ Head(todo).op = "exitMutexes" /\ Doing("exitMutexes")
      /\ UNCHANGED <<threadVars, observers, queueVars, open, listed, exited, running>>
  BY DEF ExitMutexes, Doing
<1>2. AtRest /\ (\A t \in Thread : Agree(t)) /\ Head(todo) \in GoodTask
  <2>1. Head(todo).op \notin Wakes \cup {"drop"} /\ Head(todo).op \notin {"try", "drop"}
    BY <1>1 DEF Wakes
  <2> QED BY <1>1, <2>1, HeadCases
<1>3. PICK q : q = Tail(todo)
  OBVIOUS
<1>4. PICK t : t = running
  OBVIOUS
<1>5. PICK k : k = At
  OBVIOUS
<1>6. /\ todo \in Seq(GoodTask) /\ Rests(todo, t, status) /\ Obj = t
      /\ q \in Seq(GoodTask) /\ Rests(q, t, status) /\ ~HasTry(q) /\ Returns(q)
      /\ t \in Thread /\ status[t] = "Ready"
  <2>1. todo \in Seq(GoodTask) /\ Rests(todo, running, status)
    BY <1>2 DEF Inv, AtRest
  <2> QED BY <1>1, <1>3, <1>4, <2>1, RestsTail DEF Calls, Obj
<1>7. k \in Nat /\ k >= 1 /\ k + 1 \in Nat \ {0}
  BY <1>1, <1>2, <1>5 DEF GoodTask, At
<1>8. TypeOK /\ MutexInv /\ Len(MutexSeq) \in Nat
  BY KernelAssumption, LenProperties DEF Inv
<1> DEFINE x == Task("exitMutexes", t, k + 1)
           Types == /\ owner' \in [Mutex -> Thread \cup {None}] /\ lockCount' \in [Mutex -> Nat] /\ MutexInv'
                    /\ UNCHANGED <<available, signalled, timerAt, period>>
           Goal == /\ todo' \in Seq(GoodTask) /\ Rests(todo', t, status) /\ Types
                   /\ fault' \in {"none", "recursive mutex release on thread exit"}
<1>9. ASSUME UNCHANGED objectVars PROVE Types
  BY <1>8, <1>9 DEF TypeOK, MutexInv, objectVars
<1>10. Goal
  <2>1. CASE k > Len(MutexSeq)
    <3>1. todo' = q /\ UNCHANGED <<objectVars, fault>>
      <4>1. ~(At <= Len(MutexSeq))
        BY <1>5, <1>7, <1>8, <2>1
      <4>2. todo' = Tail(todo) /\ UNCHANGED <<objectVars, fault>>
        BY <4>1 DEF ExitMutexes, Done
      <4> QED BY <1>3, <4>2
    <3> QED BY <1>1, <1>6, <1>9, <3>1
  <2>2. CASE ~(k > Len(MutexSeq))
    <3>1. PICK m : m = MutexSeq[k]
      OBVIOUS
    <3>2. m \in Mutex /\ m \in Object
      <4>1. MutexSeq \in Seq(Mutex) /\ k \in 1..Len(MutexSeq)
        BY <1>7, <1>8, <2>2, KernelAssumption
      <4> QED BY <3>1, <4>1, ElementOfSeq DEF Object
    <3> DEFINE n == Task("notify", m, 0)
    <3>3. \/ todo' = <<x>> \o q /\ UNCHANGED <<objectVars, fault>>
          \/ fault' = "recursive mutex release on thread exit" /\ UNCHANGED <<objectVars, todo>>
          \/ lockCount[m] = 1 /\ Release(m) /\ todo' = <<n, x>> \o q /\ fault' = fault
      BY <1>3, <1>5, <1>6, <1>7, <1>8, <2>2, <3>1 DEF ExitMutexes, Then
    <3>4. /\ x \in GoodTask /\ n \in GoodTask /\ n.op \in Neutral
          /\ x.op = "exitMutexes" /\ x.obj = t
      BY <1>6, <1>7, <3>2, TaskTypes DEF Neutral
    <3> HIDE DEF x, n
    <3>5. <<x>> \o q \in Seq(GoodTask) /\ Rests(<<x>> \o q, t, status) /\ ~HasTry(<<x>> \o q)
      <4>1. x.op \notin Wakes /\ x.op # "leave" /\ x.op \notin {"try", "exit"} /\ x.op # "exit" /\ x.op # "try"
        BY <3>4 DEF Wakes
      <4> QED BY <1>6, <3>4, <4>1, RestsCons
    <3>6. PICK p : p = <<x>> \o q
      OBVIOUS
    <3>7. <<n>> \o p \in Seq(GoodTask) /\ Rests(<<n>> \o p, t, status)
      BY <3>4, <3>5, <3>6, NeutralCons
    <3>8. <<n, x>> \o q = <<n>> \o p
      <4>1. q \in Seq(GoodTask)
        BY <1>6
      <4>2. <<n, x>> \o q = <<n>> \o (<<x>> \o q)
        BY <3>4, <4>1, ConsTwo
      <4> QED BY <3>6, <4>2
    <3>9. CASE todo' = <<x>> \o q /\ UNCHANGED <<objectVars, fault>>
      BY <1>1, <1>9, <3>5, <3>9
    <3>10. CASE fault' = "recursive mutex release on thread exit" /\ UNCHANGED <<objectVars, todo>>
      BY <1>6, <1>9, <3>10
    <3>11. CASE lockCount[m] = 1 /\ Release(m) /\ todo' = <<n, x>> \o q /\ fault' = fault
      <4>1. Types
        BY <1>8, <3>2, <3>11, ReleaseTypes
      <4> HIDE DEF Types
      <4> QED BY <1>1, <3>7, <3>8, <3>11, <4>1
    <3> QED BY <3>3, <3>9, <3>10, <3>11
  <2> QED BY <2>1, <2>2
<1>11. Control'
  <2>1. PICK p : p = todo'
    OBVIOUS
  <2> QED BY <1>1, <1>2, <1>4, <1>10, <2>1, GoesOn DEF threadVars
<1>12. TypeOK'
  <2>1. todo' \in Seq([op : Ops, obj : Object \cup {None}, at : Nat])
    BY <1>10, TypeOfTodo
  <2>2. fault' \in {"none"} \cup Assertions \cup Errors
    BY <1>10 DEF Errors
  <2> QED BY <1>1, <1>8, <1>10, <2>1, <2>2 DEF TypeOK, threadVars, queueVars
<1>13. ReadyInv' /\ RegistrationConsistent'
  BY <1>1, ListsKept DEF threadVars, queueVars
<1>14. fault' \notin Bookkeeping
  BY <1>10 DEF Bookkeeping
<1> QED BY <1>10, <1>11, <1>12, <1>13, <1>14 DEF Inv

(* The thread has ended. *)
LEMMA ExitThreadInv == ASSUME Inv, ExitThread PROVE Inv'
<1>1. /\ fault = "none" /\ todo # <<>> /\ Head(todo).op = "exit" /\ todo' = Tail(todo)
      /\ status' = [status EXCEPT ![Obj] = "Stopped"] /\ readyQueue' = Erased(readyQueue, Obj)
      /\ exited' = exited \cup {Obj}
      /\ UNCHANGED <<waitList, waitForAll, timeoutAt, result, observers, objectVars, waitingQueue, open,
                     listed, running, fault>>
  BY DEF ExitThread, Doing, Done
<1>2. AtRest /\ \A t \in Thread : Agree(t)
  <2>1. Head(todo).op \notin Wakes \cup {"drop"} /\ Head(todo).op \notin {"try", "drop"}
    BY <1>1 DEF Wakes
  <2> QED BY <1>1, <2>1, HeadCases
<1>3. PICK t : t = running
  OBVIOUS
<1>4. /\ Obj = t /\ t \in Thread /\ status[t] = "Ready" /\ Tail(todo) \in Seq(GoodTask)
      /\ Rests(Tail(todo), t, status) /\ ~HasCalls(Tail(todo)) /\ Returns(Tail(todo))
  <2>1. todo \in Seq(GoodTask) /\ Rests(todo, running, status)
    BY <1>2 DEF Inv, AtRest
  <2> QED BY <1>1, <1>3, <2>1, RestsTail DEF Calls, Obj
<1>5. /\ ReadyInv' /\ readyQueue' \in Seq(Thread) /\ status' \in [Thread -> Status]
      /\ \A u \in Thread : status'[u] = IF u = t THEN "Stopped" ELSE status[u]
  <2>1. "Stopped" \in Status /\ "Stopped" # "Ready"
    BY DEF Status
  <2> QED BY <1>1, <1>4, <2>1, QueueErased
<1>6. Control'
  <2>1. Rests(todo', running', status')
    BY <1>1, <1>3, <1>4 DEF Rests
  <2>2. \A u \in Thread : Agree(u)'
    BY <1>1, <1>2, <1>4, <1>5 DEF Agree
  <2> QED BY <2>1, <2>2 DEF Control, AtRest
<1>7. TypeOK' /\ todo' \in Seq(GoodTask)
  <2>1. todo' \in Seq([op : Ops, obj : Object \cup {None}, at : Nat])
    BY <1>1, <1>4, TypeOfTodo
  <2>2. exited' \subseteq Thread
    BY <1>1, <1>4 DEF Inv, TypeOK
  <2> QED BY <1>1, <1>4, <1>5, <2>1, <2>2 DEF Inv, TypeOK, objectVars
<1>8. RegistrationConsistent'
  BY <1>1 DEF Inv, RegistrationConsistent
<1>9. MutexInv' /\ fault' \notin Bookkeeping
  BY <1>1 DEF Inv, MutexInv, objectVars
<1> QED BY <1>5, <1>6, <1>7, <1>8, <1>9 DEF Inv
-----------------------------------------------------------------------------
(* The system calls.                                                        *)

(* The work that a system call leaves to do: the return from it, after a   *)
(* Reschedule, after a notification of an object.                          *)
LEMMA ReturnWork ==
    ASSUME NEW t \in Thread, NEW st
    PROVE  LET q == <<Task("leave", t, 0)>>
           IN  /\ <<>> \o q \in Seq(GoodTask) /\ Rests(<<>> \o q, t, st) /\ <<>> \o q = q
               /\ q \in Seq(GoodTask) /\ Rests(q, t, st) /\ ~HasTry(q) /\ ~HasCalls(q) /\ Returns(q)
               /\ Reschedule(t) \in Seq(GoodTask)
               /\ Reschedule(t) \o q \in Seq(GoodTask) /\ Rests(Reschedule(t) \o q, t, st)
               /\ ~HasTry(Reschedule(t) \o q) /\ ~HasCalls(Reschedule(t) \o q) /\ Returns(Reschedule(t) \o q)
               /\ (<<>> \o Reschedule(t)) \o q = Reschedule(t) \o q
               /\ \A o \in Object :
                    /\ (<<Task("notify", o, 0)>> \o Reschedule(t)) \o q \in Seq(GoodTask)
                    /\ Rests((<<Task("notify", o, 0)>> \o Reschedule(t)) \o q, t, st)
                    /\ Notifies((<<Task("notify", o, 0)>> \o Reschedule(t)) \o q, o)
<1>1. PICK q : q = <<Task("leave", t, 0)>>
  OBVIOUS
<1>2. q \in Seq(GoodTask) /\ Rests(q, t, st) /\ ~HasTry(q) /\ ~HasCalls(q) /\ Returns(q)
  BY <1>1, LeaveSettled DEF Rests
<1>3. <<>> \o q = q
  BY <1>2, ConcatEmptySeq
<1>4. PICK s : s = Reschedule(t)
  OBVIOUS
<1>5. s \in Seq(GoodTask)
  <2>1. Task("elapse", None, 1) \in GoodTask /\ Task("rotate", t, 0) \in GoodTask
    BY TaskTypes
  <2> QED BY <1>4, <2>1 DEF Reschedule
<1>6. /\ s \o q \in Seq(GoodTask) /\ Rests(s \o q, t, st) /\ ~HasTry(s \o q)
      /\ ~HasCalls(s \o q) /\ Returns(s \o q)
  BY <1>2, <1>4, RescheduleRests
<1>7. (<<>> \o s) \o q = s \o q
  <2>1. <<>> \o s = s
    BY <1>5, ConcatEmptySeq
  <2> QED BY <2>1
<1>8. ASSUME NEW o \in Object
      PROVE  /\ (<<Task("notify", o, 0)>> \o s) \o q \in Seq(GoodTask)
             /\ Rests((<<Task("notify", o, 0)>> \o s) \o q, t, st)
             /\ Notifies((<<Task("notify", o, 0)>> \o s) \o q, o)
  <2> DEFINE n == Task("notify", o, 0)
  <2>1. n \in GoodTask /\ n.op \in Neutral /\ n.op = "notify" /\ n.obj = o
    BY TaskTypes DEF Neutral
  <2> HIDE DEF n
  <2>2. PICK p : p = s \o q
    OBVIOUS
  <2>3. /\ <<n>> \o p \in Seq(GoodTask) /\ Rests(<<n>> \o p, t, st)
        /\ Notifies(<<n>> \o p, o)
    BY <1>6, <2>1, <2>2, NeutralCons
  <2>4. (<<n>> \o s) \o q = <<n>> \o p
    <3>1. PICK e : e = <<n>>
      OBVIOUS
    <3>2. e \in Seq(GoodTask)
      BY <2>1, <3>1
    <3>3. q \in Seq(GoodTask)
      BY <1>2
    <3>4. (e \o s) \o q = e \o (s \o q)
      BY <1>5, <3>2, <3>3, ConcatAssociative
    <3> QED BY <2>2, <3>1, <3>4
  <2> QED BY <2>3, <2>4 DEF n
<1> QED BY <1>1, <1>2, <1>3, <1>4, <1>5, <1>6, <1>7, <1>8

(* A system call finds its thread Ready and waiting for nothing. *)
LEMMA CallState ==
    ASSUME Inv, NEW t \in Thread, InSVC(t)
    PROVE  /\ fault = "none" /\ running = t /\ todo = <<>> /\ status[t] = "Ready" /\ waitList[t] = <<>>
           /\ \A u \in Thread : Agree(u)
<1>1. fault = "none" /\ running = t /\ todo = <<>> /\ t # None
  BY KernelAssumption DEF InSVC, Object
<1>2. status[t] = "Ready" /\ \A u \in Thread : Agree(u)
  BY <1>1, BetweenIterations
<1> QED BY <1>1, <1>2 DEF Agree

(* A system call that leaves the lists of the threads alone. *)
LEMMA QuietCall ==
    ASSUME Inv, NEW t \in Thread, InSVC(t), TypeOK', MutexInv',
           UNCHANGED <<status, waitList, observers, readyQueue, running, fault>>,
           todo' \in Seq(GoodTask), Rests(todo', t, status)
    PROVE  Inv'
<1>1. running = t /\ \A u \in Thread : Agree(u)
  BY CallState
<1>2. PICK p : p = todo'
  OBVIOUS
<1>3. p \in Seq(GoodTask) /\ todo' = p /\ Rests(p, running, status)
  BY <1>1, <1>2
<1> QED BY <1>1, <1>3, QuietStep

(* The end of a thread puts the release of its mutexes before the exit. *)
LEMMA SVCExitThreadInv == ASSUME Inv, NEW t \in Thread, SVCExitThread(t) PROVE Inv'
<1> DEFINE a == Task("exitMutexes", t, 1)
           b == Task("drop", t, 0)
           c == Task("exit", t, 0)
           n == Task("notify", t, 0)
<1>1. PICK q : q = <<Task("leave", t, 0)>>
  OBVIOUS
<1>2. PICK s : s = Reschedule(t)
  OBVIOUS
<1>3. /\ InSVC(t) /\ todo' = (<<a, b, c, n>> \o s) \o q
      /\ UNCHANGED <<threadVars, observers, objectVars, queueVars, open, listed, exited, running, fault>>
  BY <1>1, <1>2 DEF SVCExitThread, Return
<1>4. PICK p : p = s \o q
  OBVIOUS
<1>5. /\ p \in Seq(GoodTask) /\ Rests(p, t, status) /\ ~HasTry(p) /\ ~HasCalls(p) /\ Returns(p)
      /\ q \in Seq(GoodTask) /\ s \in Seq(GoodTask)
  BY <1>1, <1>2, <1>4, ReturnWork
<1>6. /\ a \in GoodTask /\ b \in GoodTask /\ c \in GoodTask /\ n \in GoodTask
      /\ a.op = "exitMutexes" /\ b.op = "drop" /\ c.op = "exit" /\ n.op = "notify"
      /\ a.obj = t /\ b.obj = t /\ c.obj = t /\ n.obj = t
  BY TaskTypes DEF Object
<1> HIDE DEF a, b, c, n
<1>7. todo' = <<a>> \o (<<b>> \o (<<c>> \o (<<n>> \o p)))
  <2>1. PICK x : x = <<a, b, c, n>>
    OBVIOUS
  <2>2. x \in Seq(GoodTask)
    BY <1>6, <2>1
  <2>3. s \in Seq(GoodTask)
    BY <1>5
  <2>4. q \in Seq(GoodTask)
    BY <1>5
  <2>5. (x \o s) \o q = x \o (s \o q)
    BY <2>2, <2>3, <2>4, ConcatAssociative
  <2>6. p \in Seq(GoodTask)
    BY <1>5
  <2>7. <<a, b, c, n>> \o p = <<a>> \o (<<b>> \o (<<c>> \o (<<n>> \o p)))
    <3>1. a \in GoodTask /\ b \in GoodTask /\ c \in GoodTask /\ n \in GoodTask
      BY <1>6
    <3>2. PICK e : e = <<a>>
      OBVIOUS
    <3>3. PICK u : u = <<b, c, n>>
      OBVIOUS
    <3>4. e \in Seq(GoodTask)
      BY <3>1, <3>2
    <3>5. u \in Seq(GoodTask)
      BY <3>1, <3>3
    <3>6. <<a, b, c, n>> = e \o u
      <4>1. <<a, b, c, n>> = <<a>> \o <<b, c, n>>
        BY FourSplit
      <4> QED BY <3>2, <3>3, <4>1
    <3>7. (e \o u) \o p = e \o (u \o p)
      BY <2>6, <3>4, <3>5, ConcatAssociative
    <3>8. <<b, c, n>> \o p = <<b>> \o (<<c>> \o (<<n>> \o p))
      BY <2>6, <3>1, ConsThree
    <3> QED BY <3>2, <3>3, <3>6, <3>7, <3>8
  <2> QED BY <1>3, <1>4, <2>1, <2>5, <2>7
<1>8. status[t] = "Ready"
  BY <1>3, CallState
<1>9. PICK p1 : p1 = <<n>> \o p
  OBVIOUS
<1>10. /\ p1 \in Seq(GoodTask) /\ Rests(p1, t, status) /\ ~HasTry(p1) /\ ~HasCalls(p1) /\ Returns(p1)
       /\ Notifies(p1, t)
  <2>1. n.op \in Neutral
    BY <1>6 DEF Neutral
  <2> QED BY <1>5, <1>6, <1>9, <2>1, NeutralCons
<1>11. PICK p2 : p2 = <<c>> \o p1
  OBVIOUS
<1>12. p2 \in Seq(GoodTask) /\ Rests(p2, t, status) /\ ~HasTry(p2) /\ Returns(p2)
  <2>1. c.op \notin Wakes /\ c.op # "leave" /\ c.op # "try"
    BY <1>6 DEF Wakes
  <2> QED BY <1>6, <1>8, <1>10, <1>11, <2>1, RestsCons
<1>13. PICK p3 : p3 = <<b>> \o p2
  OBVIOUS
<1>14. p3 \in Seq(GoodTask) /\ Rests(p3, t, status) /\ ~HasTry(p3) /\ Returns(p3)
  <2>1. b.op \notin Wakes /\ b.op # "leave" /\ b.op # "try" /\ b.op # "exit"
    BY <1>6 DEF Wakes
  <2> QED BY <1>6, <1>8, <1>12, <1>13, <2>1, RestsCons
<1>15. <<a>> \o p3 \in Seq(GoodTask) /\ Rests(<<a>> \o p3, t, status)
  <2>1. a.op \notin Wakes /\ a.op # "leave" /\ a.op # "try" /\ a.op # "exit"
    BY <1>6 DEF Wakes
  <2> QED BY <1>6, <1>8, <1>14, <2>1, RestsCons
<1>16. todo' \in Seq(GoodTask) /\ Rests(todo', t, status)
  BY <1>7, <1>9, <1>11, <1>13, <1>15
<1>17. TypeOK'
  <2>1. todo' \in Seq([op : Ops, obj : Object \cup {None}, at : Nat])
    BY <1>16, TypeOfTodo
  <2> QED BY <1>3, <2>1 DEF Inv, TypeOK, threadVars, objectVars, queueVars
<1>18. MutexInv'
  BY <1>3 DEF Inv, MutexInv, objectVars
<1> QED BY <1>3, <1>16, <1>17, <1>18, QuietCall DEF threadVars, queueVars

(* A created thread is ready and listed once. *)
LEMMA SVCCreateThreadInv == ASSUME Inv, NEW t \in Thread, SVCCreateThread(t) PROVE Inv'
<1>1. PICK new \in Thread : /\ status[new] = "Uncreated" /\ status' = [status EXCEPT ![new] = "Ready"]
                            /\ readyQueue' = Append(readyQueue, new)
                            /\ listed' = listed \cup {new} /\ open' = open \cup {new}
  BY DEF SVCCreateThread
<1>2. /\ InSVC(t) /\ todo' = Reschedule(t) \o <<Task("leave", t, 0)>>
      /\ UNCHANGED <<waitList, waitForAll, timeoutAt, result, observers, objectVars, waitingQueue, exited,
                     running, fault>>
  BY DEF SVCCreateThread, Return
<1>3. running = t /\ \A u \in Thread : Agree(u)
  BY <1>2, CallState
<1>4. PICK st : st = status'
  OBVIOUS
<1>5. todo' \in Seq(GoodTask) /\ Rests(todo', t, st)
  BY <1>2, ReturnWork
<1>6. /\ status \in [Thread -> Status] /\ status' \in [Thread -> Status]
      /\ \A u \in Thread : status'[u] = IF u = new THEN "Ready" ELSE status[u]
  <2>1. status \in [Thread -> Status]
    BY DEF Inv, TypeOK
  <2> QED BY <1>1, <2>1 DEF Status
<1>7. readyQueue' \in Seq(Thread) /\ \A x : Contains(readyQueue', x) <=> Contains(readyQueue, x) \/ x = new
  <2>1. readyQueue \in Seq(Thread)
    BY DEF Inv, TypeOK
  <2> QED BY <1>1, <2>1, ContainsAppend
<1>8. Control'
  <2>1. \A u \in Thread : Agree(u)'
    BY <1>1, <1>2, <1>3, <1>6 DEF Agree
  <2>2. Rests(todo', running', status')
    BY <1>2, <1>3, <1>4, <1>5
  <2> QED BY <2>1, <2>2 DEF Control, AtRest
<1>9. TypeOK'
  <2>1. todo' \in Seq([op : Ops, obj : Object \cup {None}, at : Nat])
    BY <1>5, TypeOfTodo
  <2>2. listed' \subseteq Thread /\ open' \subseteq Object
    BY <1>1 DEF Inv, TypeOK, Object
  <2> QED BY <1>2, <1>6, <1>7, <2>1, <2>2 DEF Inv, TypeOK, objectVars
<1>10. ReadyInv'
  BY <1>6, <1>7 DEF Inv, ReadyInv
<1>11. RegistrationConsistent'
  BY <1>2 DEF Inv, RegistrationConsistent
<1>12. MutexInv' /\ fault' \notin Bookkeeping
  BY <1>2 DEF Inv, MutexInv, objectVars
<1> QED BY <1>5, <1>8, <1>9, <1>10, <1>11, <1>12 DEF Inv

(* A sleeping thread has left the ready queue and is registered nowhere. *)
LEMMA SVCSleepThreadInv == ASSUME Inv, NEW t \in Thread, SVCSleepThread(t) PROVE Inv'
<1>1. /\ InSVC(t) /\ todo' = <<>> \o <<Task("leave", t, 0)>>
      /\ status' = [status EXCEPT ![t] = "WaitingForTimeout"] /\ readyQueue' = Erased(readyQueue, t)
      /\ waitingQueue' = Append(waitingQueue, t)
      /\ \E d \in SleepTimes : timeoutAt' = [timeoutAt EXCEPT ![t] = d]
      /\ UNCHANGED <<waitList, waitForAll, result, observers, objectVars, open, listed, exited, running, fault>>
  BY DEF SVCSleepThread, Return
<1>2. running = t /\ waitList[t] = <<>> /\ \A u \in Thread : Agree(u)
  BY <1>1, CallState
<1>3. PICK st : st = status'
  OBVIOUS
<1>4. todo' \in Seq(GoodTask) /\ Rests(todo', t, st)
  BY <1>1, ReturnWork
<1>5. /\ ReadyInv' /\ readyQueue' \in Seq(Thread) /\ status' \in [Thread -> Status]
      /\ \A u \in Thread : status'[u] = IF u = t THEN "WaitingForTimeout" ELSE status[u]
  <2>1. "WaitingForTimeout" \in Status /\ "WaitingForTimeout" # "Ready"
    BY DEF Status
  <2> QED BY <1>1, <2>1, QueueErased
<1>6. Control'
  <2>1. \A u \in Thread : Agree(u)'
    BY <1>1, <1>2, <1>5 DEF Agree
  <2>2. Rests(todo', running', status')
    BY <1>1, <1>2, <1>3, <1>4
  <2> QED BY <2>1, <2>2 DEF Control, AtRest
<1>7. TypeOK'
  <2>1. todo' \in Seq([op : Ops, obj : Object \cup {None}, at : Nat])
    BY <1>4, TypeOfTodo
  <2>2. waitingQueue' \in Seq(Thread)
    BY <1>1, ContainsAppend DEF Inv, TypeOK
  <2>3. timeoutAt' \in [Thread -> Nat \cup {Never}]
    BY <1>1, KernelAssumption DEF Inv, TypeOK
  <2> QED BY <1>1, <1>5, <2>1, <2>2, <2>3 DEF Inv, TypeOK, objectVars
<1>8. RegistrationConsistent'
  BY <1>1 DEF Inv, RegistrationConsistent
<1>9. MutexInv' /\ fault' \notin Bookkeeping
  BY <1>1 DEF Inv, MutexInv, objectVars
<1> QED BY <1>4, <1>5, <1>6, <1>7, <1>8, <1>9 DEF Inv
(* The start of a wait: the thread is registered with what it waits for. *)
LEMMA SVCWaitInv == ASSUME Inv, NEW t \in Thread, SVCWaitSynchronizationN(t) PROVE Inv'
<1>1. /\ InSVC(t) /\ todo' = <<Task("try", t, 1)>> \o <<Task("leave", t, 0)>>
      /\ UNCHANGED <<status, objectVars, queueVars, open, listed, exited, running>>
  BY DEF SVCWaitSynchronizationN, Return
<1>2. fault = "none" /\ running = t /\ status[t] = "Ready" /\ waitList[t] = <<>> /\ \A u \in Thread : Agree(u)
  BY <1>1, CallState
<1>3. PICK objects \in Requests, all \in WaitModes, timeout \in Timeouts :
         /\ timeoutAt' = [timeoutAt EXCEPT ![t] = timeout]
         /\ result' = [result EXCEPT ![t] = "ok"]
         /\ waitForAll' = [waitForAll EXCEPT ![t] = all]
         /\ fault' = fault
         /\ waitList' = [waitList EXCEPT ![t] = objects]
         /\ observers' = [o \in Object |-> observers[o] \o [i \in 1..Occurrences(objects, o) |-> t]]
  BY <1>2 DEF SVCWaitSynchronizationN
<1>4. objects \in Seq(Object)
  BY KernelAssumption
<1>5. waitList \in [Thread -> Seq(Object)] /\ observers \in [Object -> Seq(Thread)] /\ RegistrationConsistent
  BY DEF Inv, TypeOK
<1>6. waitList' \in [Thread -> Seq(Object)] /\ \A u \in Thread : waitList'[u] = IF u = t THEN objects ELSE waitList[u]
  BY <1>3, <1>4, <1>5
<1>7. ASSUME NEW o \in Object
      PROVE  /\ observers'[o] \in Seq(Thread)
             /\ \A u \in Thread : Occurrences(observers'[o], u) = Occurrences(waitList'[u], o)
  <2>1. PICK p, n : p = observers[o] /\ n = Occurrences(objects, o)
    OBVIOUS
  <2>2. p \in Seq(Thread) /\ n \in Nat /\ observers'[o] = p \o [i \in 1..n |-> t]
    <3>1. n \in Nat
      BY <1>4, <2>1, OccurrencesType
    <3> QED BY <1>3, <1>5, <2>1, <3>1
  <2>3. PICK r : r = p \o [i \in 1..n |-> t]
    OBVIOUS
  <2>4. /\ r \in Seq(Thread)
        /\ \A u : Occurrences(r, u) = IF t = u THEN Occurrences(p, u) + n ELSE Occurrences(p, u)
    BY <2>2, <2>3, OccurrencesRepeat
  <2>5. ASSUME NEW u \in Thread PROVE Occurrences(r, u) = Occurrences(waitList'[u], o)
    <3>1. Occurrences(p, u) = Occurrences(waitList[u], o)
      BY <1>5, <2>1 DEF RegistrationConsistent
    <3>2. CASE u = t
      <4>1. PICK e : e = waitList[u]
        OBVIOUS
      <4>2. e \in Seq(Object) /\ e = <<>>
        BY <1>2, <1>5, <3>2, <4>1
      <4>3. Occurrences(e, o) = 0
        BY <4>2, OccurrencesType
      <4> QED BY <1>6, <2>1, <2>2, <2>4, <3>1, <3>2, <4>1, <4>3
    <3>3. CASE u # t
      BY <1>6, <2>4, <3>1, <3>3
    <3> QED BY <3>2, <3>3
  <2> QED BY <2>2, <2>3, <2>4, <2>5
<1>8. RegistrationConsistent' /\ observers' \in [Object -> Seq(Thread)]
  BY <1>3, <1>7 DEF RegistrationConsistent
<1>9. /\ todo' \in Seq(GoodTask) /\ Rests(todo', t, status)
      /\ todo' # <<>> /\ Head(todo').op = "try"
  <2> DEFINE x == Task("try", t, 1)
  <2>1. PICK q : q = <<Task("leave", t, 0)>>
    OBVIOUS
  <2>2. q \in Seq(GoodTask) /\ Rests(q, t, status) /\ ~HasTry(q) /\ ~HasCalls(q) /\ Returns(q)
    BY <2>1, ReturnWork
  <2>3. x \in GoodTask /\ x.op = "try" /\ x.obj = t
    BY TaskTypes
  <2>4. todo' = <<x>> \o q
    BY <1>1, <2>1
  <2> HIDE DEF x
  <2>5. x.op \notin Wakes /\ x.op # "leave" /\ x.op # "exit"
    BY <2>3 DEF Wakes
  <2>6. /\ <<x>> \o q \in Seq(GoodTask) /\ Rests(<<x>> \o q, t, status)
        /\ <<x>> \o q # <<>> /\ Head(<<x>> \o q) = x
    BY <1>2, <2>2, <2>3, <2>5, RestsCons
  <2> QED BY <2>3, <2>4, <2>6
<1>10. Control'
  <2>1. \A u \in Thread : u # t => Agree(u)'
    BY <1>1, <1>2, <1>6 DEF Agree
  <2>2. Rests(todo', running', status')
    BY <1>1, <1>2, <1>9
  <2> QED BY <1>1, <1>2, <1>9, <2>1, <2>2 DEF Control, AtRest
<1>11. TypeOK'
  <2>1. todo' \in Seq([op : Ops, obj : Object \cup {None}, at : Nat])
    BY <1>9, TypeOfTodo
  <2>2. timeoutAt' \in [Thread -> Nat \cup {Never}] /\ waitForAll' \in [Thread -> BOOLEAN]
    BY <1>3, KernelAssumption DEF Inv, TypeOK
  <2>3. result' \in [Thread -> {"ok", "timeout"}]
    BY <1>3 DEF Inv, TypeOK
  <2> QED BY <1>1, <1>3, <1>6, <1>8, <2>1, <2>2, <2>3 DEF Inv, TypeOK, objectVars, queueVars
<1>12. ReadyInv'
  BY <1>1 DEF Inv, ReadyInv, queueVars
<1>13. MutexInv' /\ fault' \notin Bookkeeping
  BY <1>1, <1>3 DEF Inv, MutexInv, objectVars
<1> QED BY <1>8, <1>9, <1>10, <1>11, <1>12, <1>13 DEF Inv

(* A release by the owner counts down, and tells the observers at zero. *)
LEMMA SVCReleaseMutexInv == ASSUME Inv, NEW t \in Thread, SVCReleaseMutex(t) PROVE Inv'
<1>1. InSVC(t) /\ TypeOK /\ MutexInv
  BY DEF SVCReleaseMutex, Inv
<1>2. PICK m \in Mutex :
        \/ Fail("mutex not owned by the current thread")
        \/ /\ lockCount[m] > 0 /\ Release(m) /\ Return(t, OnRelease(m) \o Reschedule(t))
           /\ UNCHANGED <<threadVars, observers, queueVars, open, listed, exited, running, fault>>
  BY DEF SVCReleaseMutex
<1>3. CASE Fail("mutex not owned by the current thread")
  <2>1. /\ fault' = "mutex not owned by the current thread"
        /\ UNCHANGED <<threadVars, observers, objectVars, queueVars, open, listed, exited, running, todo>>
    BY <1>3 DEF Fail
  <2>2. fault' \notin Bookkeeping /\ fault' # "none" /\ fault' \in {"none"} \cup Assertions \cup Errors
    BY <2>1 DEF Bookkeeping, Errors
  <2>3. Control'
    BY <2>2 DEF Control
  <2>4. TypeOK' /\ todo' \in Seq(GoodTask)
    BY <2>1, <2>2 DEF Inv, TypeOK, threadVars, objectVars, queueVars
  <2>5. ReadyInv' /\ RegistrationConsistent'
    BY <2>1, ListsKept DEF threadVars, queueVars
  <2>6. MutexInv'
    BY <2>1 DEF Inv, MutexInv, objectVars
  <2> QED BY <2>2, <2>3, <2>4, <2>5, <2>6 DEF Inv
<1>4. CASE /\ lockCount[m] > 0 /\ Release(m) /\ Return(t, OnRelease(m) \o Reschedule(t))
           /\ UNCHANGED <<threadVars, observers, queueVars, open, listed, exited, running, fault>>
  <2>1. todo' \in Seq(GoodTask) /\ Rests(todo', t, status)
    <3>1. m \in Object
      BY DEF Object
    <3> QED BY <1>4, <3>1, ReturnWork DEF Return, OnRelease
  <2>2. /\ owner' \in [Mutex -> Thread \cup {None}] /\ lockCount' \in [Mutex -> Nat] /\ MutexInv'
        /\ UNCHANGED <<available, signalled, timerAt, period>>
    BY <1>1, <1>4, ReleaseTypes
  <2>3. TypeOK'
    <3>1. todo' \in Seq([op : Ops, obj : Object \cup {None}, at : Nat])
      BY <2>1, TypeOfTodo
    <3> QED BY <1>1, <1>4, <2>2, <3>1 DEF TypeOK, threadVars, queueVars
  <2> QED BY <1>1, <1>4, <2>1, <2>2, <2>3, QuietCall DEF threadVars, queueVars
<1> QED BY <1>2, <1>3, <1>4

(* A release of a semaphore tells its observers. *)
LEMMA SVCReleaseSemaphoreInv == ASSUME Inv, NEW t \in Thread, SVCReleaseSemaphore(t) PROVE Inv'
<1>1. /\ InSVC(t)
      /\ UNCHANGED <<threadVars, observers, owner, lockCount, signalled, timerAt, period, queueVars, open,
                     listed, exited, running, fault>>
  BY DEF SVCReleaseSemaphore
<1>2. PICK s \in Semaphore, times \in 0..MaxAvailable :
         /\ available' = IF available[s] > MaxAvailable - times THEN available
                         ELSE [available EXCEPT ![s] = @ + times]
         /\ Return(t, <<Task("notify", s, 0)>> \o Reschedule(t))
  BY DEF SVCReleaseSemaphore
<1>3. todo' \in Seq(GoodTask) /\ Rests(todo', t, status)
  <2>1. s \in Object
    BY DEF Object
  <2> QED BY <1>2, <2>1, ReturnWork DEF Return
<1>4. available' \in [Semaphore -> 0..MaxAvailable]
  <2>1. available \in [Semaphore -> 0..MaxAvailable] /\ MaxAvailable \in Nat
    BY KernelAssumption DEF Inv, TypeOK
  <2>2. CASE available[s] > MaxAvailable - times
    BY <1>2, <2>1, <2>2
  <2>3. CASE ~(available[s] > MaxAvailable - times)
    <3>1. available[s] + times \in 0..MaxAvailable
      BY <2>1, <2>3
    <3> QED BY <1>2, <2>1, <2>3, <3>1
  <2> QED BY <2>2, <2>3
<1>5. TypeOK'
  <2>1. todo' \in Seq([op : Ops, obj : Object \cup {None}, at : Nat])
    BY <1>3, TypeOfTodo
  <2> QED BY <1>1, <1>4, <2>1 DEF Inv, TypeOK, threadVars, queueVars
<1>6. MutexInv'
  BY <1>1 DEF Inv, MutexInv
<1> QED BY <1>1, <1>3, <1>5, <1>6, QuietCall DEF threadVars, queueVars

(* Signalling and clearing an event. *)
LEMMA SVCEventInv == ASSUME Inv, NEW t \in Thread, SVCSignalEvent(t) \/ SVCClearEvent(t) PROVE Inv'
<1>1. /\ InSVC(t)
      /\ UNCHANGED <<threadVars, observers, owner, lockCount, available, timerAt, period, queueVars, open,
                     listed, exited, running, fault>>
  BY DEF SVCSignalEvent, SVCClearEvent
<1>2. PICK e \in Event, b \in BOOLEAN :
         /\ signalled' = [signalled EXCEPT ![e] = b]
         /\ Return(t, <<Task("notify", e, 0)>> \o Reschedule(t)) \/ Return(t, Reschedule(t))
  BY DEF SVCSignalEvent, SVCClearEvent
<1>3. todo' \in Seq(GoodTask) /\ Rests(todo', t, status)
  <2>1. e \in Object
    BY DEF Object
  <2> QED BY <1>2, <2>1, ReturnWork DEF Return
<1>4. signalled' \in [Event -> BOOLEAN]
  BY <1>2 DEF Inv, TypeOK
<1>5. TypeOK'
  <2>1. todo' \in Seq([op : Ops, obj : Object \cup {None}, at : Nat])
    BY <1>3, TypeOfTodo
  <2> QED BY <1>1, <1>4, <2>1 DEF Inv, TypeOK, threadVars, queueVars
<1>6. MutexInv'
  BY <1>1 DEF Inv, MutexInv
<1> QED BY <1>1, <1>3, <1>5, <1>6, QuietCall DEF threadVars, queueVars

(* A timer that is set notifies nobody yet. *)
LEMMA SVCSetTimerInv == ASSUME Inv, NEW t \in Thread, SVCSetTimer(t) PROVE Inv'
<1>1. /\ InSVC(t)
      /\ UNCHANGED <<threadVars, observers, owner, lockCount, available, signalled, queueVars, open,
                     listed, exited, running, fault>>
  BY DEF SVCSetTimer
<1>2. PICK k \in Timer, initial \in SleepTimes, again \in SleepTimes :
         /\ timerAt' = [timerAt EXCEPT ![k] = initial]
         /\ period' = [period EXCEPT ![k] = again]
         /\ Return(t, (IF initial = 0 THEN <<Task("notify", k, 0)>> ELSE <<>>) \o Reschedule(t))
  BY DEF SVCSetTimer
<1>3. todo' \in Seq(GoodTask) /\ Rests(todo', t, status)
  <2>1. k \in Object
    BY DEF Object
  <2> QED BY <1>2, <2>1, ReturnWork DEF Return
<1>4. timerAt' \in [Timer -> Nat \cup {Never}] /\ period' \in [Timer -> Nat]
  BY <1>2, KernelAssumption DEF Inv, TypeOK
<1>5. TypeOK'
  <2>1. todo' \in Seq([op : Ops, obj : Object \cup {None}, at : Nat])
    BY <1>3, TypeOfTodo
  <2> QED BY <1>1, <1>4, <2>1 DEF Inv, TypeOK, threadVars, queueVars
<1>6. MutexInv'
  BY <1>1 DEF Inv, MutexInv
<1> QED BY <1>1, <1>3, <1>5, <1>6, QuietCall DEF threadVars, queueVars

(* A closed handle leaves the threads that wait for the object registered. *)
LEMMA SVCCloseHandleInv == ASSUME Inv, NEW t \in Thread, SVCCloseHandle(t) PROVE Inv'
<1>1. /\ InSVC(t) /\ TypeOK /\ MutexInv
      /\ UNCHANGED <<threadVars, observers, queueVars, listed, exited, running, fault>>
  BY DEF SVCCloseHandle, Inv
<1>2. PICK o \in open :
         /\ open' = open \ {o}
         /\ \/ /\ o \in Mutex /\ lockCount[o] > 0 /\ Release(o)
               /\ Return(t, <<Task("notify", o, 0)>> \o Reschedule(t))
            \/ UNCHANGED objectVars /\ Return(t, Reschedule(t))
  BY DEF SVCCloseHandle
<1>3. open' \subseteq Object /\ o \in Object
  BY <1>1, <1>2 DEF TypeOK
<1>4. todo' \in Seq(GoodTask) /\ Rests(todo', t, status)
  BY <1>2, <1>3, ReturnWork DEF Return
<1>5. TypeOK' /\ MutexInv'
  <2>1. todo' \in Seq([op : Ops, obj : Object \cup {None}, at : Nat])
    BY <1>4, TypeOfTodo
  <2>2. CASE o \in Mutex /\ lockCount[o] > 0 /\ Release(o)
    <3>1. /\ owner' \in [Mutex -> Thread \cup {None}] /\ lockCount' \in [Mutex -> Nat] /\ MutexInv'
          /\ UNCHANGED <<available, signalled, timerAt, period>>
      BY <1>1, <2>2, ReleaseTypes
    <3> QED BY <1>1, <1>3, <2>1, <3>1 DEF TypeOK, threadVars, queueVars
  <2>3. CASE UNCHANGED objectVars
    <3>1. MutexInv'
      BY <1>1, <2>3 DEF MutexInv, objectVars
    <3> QED BY <1>1, <1>3, <2>1, <2>3, <3>1 DEF TypeOK, threadVars, queueVars, objectVars
  <2> QED BY <1>2, <2>2, <2>3
<1> QED BY <1>1, <1>4, <1>5, QuietCall DEF threadVars, queueVars

(* A call that only lets time pass. *)
LEMMA SVCGetSystemTickInv == ASSUME Inv, NEW t \in Thread, SVCGetSystemTick(t) PROVE Inv'
<1>1. /\ InSVC(t) /\ todo' = <<>> \o <<Task("leave", t, 0)>>
      /\ timerAt'   = [k \in Timer |-> Elapsed(timerAt[k], SystemTicks)]
      /\ timeoutAt' = [u \in Thread |-> Elapsed(timeoutAt[u], SystemTicks)]
      /\ UNCHANGED <<status, waitList, waitForAll, result, observers, owner, lockCount, available,
                     signalled, period, queueVars, open, listed, exited, running, fault>>
  BY DEF SVCGetSystemTick, Return
<1>2. todo' \in Seq(GoodTask) /\ Rests(todo', t, status)
  BY <1>1, ReturnWork
<1>3. timerAt' \in [Timer -> Nat \cup {Never}] /\ timeoutAt' \in [Thread -> Nat \cup {Never}]
  <2>1. SystemTicks \in Nat
    BY KernelAssumption
  <2>2. timerAt \in [Timer -> Nat \cup {Never}] /\ timeoutAt \in [Thread -> Nat \cup {Never}]
    BY DEF Inv, TypeOK
  <2> QED BY <1>1, <2>1, <2>2, ElapsedType
<1>4. TypeOK'
  <2>1. todo' \in Seq([op : Ops, obj : Object \cup {None}, at : Nat])
    BY <1>2, TypeOfTodo
  <2> QED BY <1>1, <1>3, <2>1 DEF Inv, TypeOK, queueVars
<1>5. MutexInv'
  BY <1>1 DEF Inv, MutexInv
<1> QED BY <1>1, <1>2, <1>4, <1>5, QuietCall DEF queueVars
-----------------------------------------------------------------------------
(* The theorems.                                                            *)

(* The initial states satisfy the invariant. *)
LEMMA InitInv == ASSUME Init PROVE Inv
<1>1. /\ Main \in Seq(Thread) /\ None \notin Object /\ Never \in Nat \cup {Never} /\ MaxAvailable \in Nat
  BY KernelAssumption
<1>2. /\ <<>> \in Seq(GoodTask) /\ Rests(<<>>, None, status)
  BY NothingSettled DEF Rests
<1>3. \A t : t \in Range(Main) <=> Contains(Main, t)
  <2>1. DOMAIN Main = 1..Len(Main)
    BY <1>1, LenProperties
  <2> QED BY <2>1 DEF Range, Contains
<1>4. Range(Main) \subseteq Thread
  BY <1>1, ElementOfSeq DEF Range
<1>5. TypeOK
  <2>1. todo \in Seq([op : Ops, obj : Object \cup {None}, at : Nat])
    BY DEF Init
  <2>2. status \in [Thread -> Status]
    BY DEF Init, Status
  <2>3. waitList \in [Thread -> Seq(Object)] /\ observers \in [Object -> Seq(Thread)]
    BY DEF Init
  <2>4. open \subseteq Object /\ listed \subseteq Thread
    BY <1>4 DEF Init, Object
  <2>5. available \in [Semaphore -> 0..MaxAvailable]
    BY <1>1 DEF Init
  <2> QED BY <1>1, <2>1, <2>2, <2>3, <2>4, <2>5 DEF Init, TypeOK
<1>6. ReadyInv
  BY <1>3 DEF Init, ReadyInv
<1>7. MutexInv
  BY DEF Init, MutexInv
<1>8. RegistrationConsistent
  <2>1. <<>> \in Seq(Thread) /\ <<>> \in Seq(Object)
    OBVIOUS
  <2>2. \A t, o : Occurrences(<<>>, t) = 0 /\ Occurrences(<<>>, o) = 0
    BY <2>1, OccurrencesType
  <2> QED BY <2>2 DEF Init, RegistrationConsistent
<1>9. Control
  <2>1. \A t \in Thread : Agree(t)
    BY DEF Init, Agree
  <2>2. todo = <<>> /\ running = None
    BY DEF Init
  <2> QED BY <1>2, <2>1, <2>2 DEF Control, AtRest
<1>10. fault \notin Bookkeeping /\ todo \in Seq(GoodTask)
  BY <1>2 DEF Init, Bookkeeping
<1> QED BY <1>5, <1>6, <1>7, <1>8, <1>9, <1>10 DEF Inv

(* So does every stuttering step. *)
LEMMA StutterInv == ASSUME Inv, UNCHANGED vars PROVE Inv'
<1>1. UNCHANGED <<threadVars, observers, objectVars, queueVars, open, listed, exited, running, todo, fault>>
  BY DEF vars
<1>2. TypeOK' /\ todo' \in Seq(GoodTask)
  BY <1>1 DEF Inv, TypeOK, threadVars, objectVars, queueVars
<1>3. ReadyInv' /\ RegistrationConsistent'
  BY <1>1, ListsKept DEF threadVars, queueVars
<1>4. MutexInv' /\ fault' \notin Bookkeeping
  BY <1>1 DEF Inv, MutexInv, objectVars
<1>5. Control'
  BY <1>1 DEF Inv, Control, AtRest, Waking, Agree, threadVars
<1> QED BY <1>2, <1>3, <1>4, <1>5 DEF Inv

(* Every step keeps the invariant. *)
LEMMA NextInv == ASSUME Inv, [Next]_vars PROVE Inv'
<1>1. CASE KernelStep
  BY <1>1, NotifyStopInv, NotifyNextInv, DropInv, WakeInv, ElapseInv, TimersInv, InterruptInv, ExpireInv,
     RotateInv, TryInv, TryDoneInv, ExitMutexesInv, ExitThreadInv, LeaveInv, IdleInv DEF KernelStep
<1>2. ASSUME NEW d \in {0, 1}, Dispatch(d) PROVE Inv'
  BY <1>2, DispatchInv
<1>3. ASSUME NEW t \in Thread, SystemCall(t) PROVE Inv'
  BY <1>3, SVCCreateThreadInv, SVCExitThreadInv, SVCSleepThreadInv, SVCWaitInv, SVCReleaseMutexInv,
     SVCReleaseSemaphoreInv, SVCEventInv, SVCSetTimerInv, SVCCloseHandleInv, SVCGetSystemTickInv
     DEF SystemCall
<1>4. CASE UNCHANGED vars
  BY <1>4, StutterInv
<1> QED BY <1>1, <1>2, <1>3, <1>4 DEF Next, Halted

(* The invariant holds in every behaviour of the kernel. *)
LEMMA Invariance == Spec => []Inv
<1>1. Init => Inv
  BY InitInv
<1>2. Inv /\ [Next]_vars => Inv'
  BY NextInv
<1> QED BY <1>1, <1>2, PTL DEF Spec

(* Type correctness of the threads, objects and queues of the scheduler.   *)
THEOREM TypeCorrect == Spec => []TypeOK
<1>1. Inv => TypeOK
  BY DEF Inv
<1> QED BY <1>1, Invariance, PTL

(* The wait lists, the observers of the objects, the ready queue and the   *)
(* status of the threads agree between two dispatcher iterations, and the  *)
(* first two at every step of them, however waits, acquisitions, timeouts  *)
(* and exits interleave.                                                   *)
THEOREM ListsHold == Spec => []ListsConsistent
<1>1. Inv => ListsConsistent
  <2> SUFFICES ASSUME Inv PROVE ListsConsistent
    OBVIOUS
  <2>1. todo = <<>> /\ fault = "none" => \A t \in Thread : Agree(t)
    BY BetweenIterations
  <2> QED BY <2>1 DEF Inv, ListsConsistent, SleepersWait, ReadyQueued, ReadyInv, Agree
<1> QED BY <1>1, Invariance, PTL

(* The assertions that guard the scheduler's bookkeeping never fail: an    *)
(* observer sleeps and waits for what it observes, a thread that stops     *)
(* waiting is registered with everything in its wait list, a wait starts   *)
(* with an empty wait list, and no waiting thread is in the ready queue.   *)
THEOREM BookkeepingHolds == Spec => [](fault \notin Bookkeeping)
<1>1. Inv => fault \notin Bookkeeping
  BY DEF Inv
<1> QED BY <1>1, Invariance, PTL

-----------------------------------------------------------------------------
(***************************************************************************)
(* No wake-up is lost, no mutex is left with a dead owner, no assertion of *)
(* the scheduler fails and a thread that has ended stays so (the last two  *)
(* without timeouts or exits), for every number of threads and objects.    *)
(* All follow from invariants over the work that is left of a dispatcher   *)
(* iteration, on top of the invariant above.                               *)
(***************************************************************************)

-----------------------------------------------------------------------------
(* The pending work as a set.                                               *)

Pending(q) == {q[i] : i \in 1..Len(q)}

(* Without the first task. *)
LEMMA PendingTail ==
    ASSUME NEW S, NEW q \in Seq(S), q # <<>>
    PROVE  Pending(q) = {Head(q)} \cup Pending(Tail(q))
<1>1. /\ Len(q) \in Nat /\ Len(q) >= 1 /\ Len(Tail(q)) = Len(q) - 1 /\ Head(q) = q[1]
      /\ \A i \in 1..Len(Tail(q)) : Tail(q)[i] = q[i + 1]
  BY HeadTailProperties, LenProperties, EmptySeq
<1>2. ASSUME NEW w \in Pending(q) PROVE w \in {Head(q)} \cup Pending(Tail(q))
  <2>1. PICK i \in 1..Len(q) : w = q[i]
    BY DEF Pending
  <2>2. i # 1 => i - 1 \in 1..Len(Tail(q)) /\ (i - 1) + 1 = i
    BY <1>1
  <2>3. i # 1 => Tail(q)[i - 1] = w
    BY <1>1, <2>1, <2>2
  <2> QED BY <1>1, <2>1, <2>2, <2>3 DEF Pending
<1>3. ASSUME NEW w \in Pending(Tail(q)) PROVE w \in Pending(q)
  <2>1. PICK i \in 1..Len(Tail(q)) : w = Tail(q)[i]
    BY DEF Pending
  <2>2. i + 1 \in 1..Len(q) /\ q[i + 1] = w
    BY <1>1, <2>1
  <2> QED BY <2>2 DEF Pending
<1>4. Head(q) \in Pending(q)
  <2>1. 1 \in 1..Len(q)
    BY <1>1
  <2> QED BY <1>1, <2>1 DEF Pending
<1> QED BY <1>2, <1>3, <1>4

(* Tasks put before others. *)
LEMMA PendingConcat ==
    ASSUME NEW S, NEW p \in Seq(S), NEW q \in Seq(S)
    PROVE  p \o q \in Seq(S) /\ Pending(p \o q) = Pending(p) \cup Pending(q)
<1> DEFINE r == p \o q
           m == Len(p)
           n == Len(q)
<1>1. /\ r \in Seq(S) /\ Len(r) = m + n /\ m \in Nat /\ n \in Nat
      /\ \A i \in 1..(m + n) : r[i] = IF i <= m THEN p[i] ELSE q[i - m]
  BY ConcatProperties, LenProperties
<1>2. Pending(p) = {p[i] : i \in 1..m} /\ Pending(q) = {q[i] : i \in 1..n} /\ Pending(r) = {r[i] : i \in 1..(m + n)}
  BY <1>1 DEF Pending
<1> HIDE DEF r, m, n
<1>3. ASSUME NEW i \in 1..(m + n) PROVE r[i] \in Pending(p) \cup Pending(q)
  <2>1. CASE i <= m
    <3>1. i \in 1..m /\ r[i] = p[i]
      BY <1>1, <2>1
    <3> QED BY <1>2, <3>1
  <2>2. CASE ~(i <= m)
    <3>1. i - m \in 1..n /\ r[i] = q[i - m]
      BY <1>1, <2>2
    <3> QED BY <1>2, <3>1
  <2> QED BY <2>1, <2>2
<1>4. ASSUME NEW i \in 1..m PROVE p[i] \in Pending(r)
  <2>1. i \in 1..(m + n) /\ r[i] = p[i]
    BY <1>1
  <2> QED BY <1>2, <2>1
<1>5. ASSUME NEW i \in 1..n PROVE q[i] \in Pending(r)
  <2>1. i + m \in 1..(m + n) /\ r[i + m] = q[i]
    BY <1>1
  <2> QED BY <1>2, <2>1
<1>6. Pending(r) = Pending(p) \cup Pending(q)
  BY <1>2, <1>3, <1>4, <1>5
<1> QED BY <1>1, <1>6 DEF r

(* One, two, three and four tasks. *)
LEMMA PendingTuples ==
    /\ Pending(<<>>) = {}
    /\ \A a : Pending(<<a>>) = {a}
    /\ \A a, b : Pending(<<a, b>>) = {a, b}
    /\ \A a, b, c : Pending(<<a, b, c>>) = {a, b, c}
    /\ \A a, b, c, d : Pending(<<a, b, c, d>>) = {a, b, c, d}
<1>1. Pending(<<>>) = {}
  BY DEF Pending
<1>2. \A a : Pending(<<a>>) = {a}
  BY DEF Pending
<1>3. \A a, b : Pending(<<a, b>>) = {a, b}
  BY DEF Pending
<1>4. \A a, b, c : Pending(<<a, b, c>>) = {a, b, c}
  BY DEF Pending
<1>5. \A a, b, c, d : Pending(<<a, b, c, d>>) = {a, b, c, d}
  BY DEF Pending
<1> QED BY <1>1, <1>2, <1>3, <1>4, <1>5

(* What the lists say about the pending work, as sets. *)
LEMMA PendingFacts ==
    ASSUME NEW q
    PROVE  /\ \A o : Notifies(q, o) <=> \E w \in Pending(q) : w.op = "notify" /\ w.obj = o
           /\ HasTry(q) <=> \E w \in Pending(q) : w.op = "try"
           /\ HasCalls(q) <=> \E w \in Pending(q) : w.op \in Calls
           /\ Returns(q) /\ q \in Seq(GoodTask) => \E w \in Pending(q) : w.op = "leave"
<1>1. /\ \A o : Notifies(q, o) <=> \E w \in Pending(q) : w.op = "notify" /\ w.obj = o
      /\ HasTry(q) <=> \E w \in Pending(q) : w.op = "try"
      /\ HasCalls(q) <=> \E w \in Pending(q) : w.op \in Calls
  BY DEF Pending, Notifies, HasTry, HasCalls
<1>2. ASSUME Returns(q), q \in Seq(GoodTask) PROVE \E w \in Pending(q) : w.op = "leave"
  <2>1. Len(q) \in 1..Len(q)
    BY <1>2, LenProperties, EmptySeq DEF Returns
  <2> QED BY <1>2, <2>1 DEF Returns, Pending
<1> QED BY <1>1, <1>2

-----------------------------------------------------------------------------
(* The mutexes of the threads that have ended.                              *)

(* A thread that has ended waits for nothing, is at most about to return   *)
(* from its last system call, and owns no mutex of the handle table: the   *)
(* loop over its mutexes has not yet passed the ones it still owns.        *)
Ended == \A t \in exited : waitList[t] = <<>>
EndedReturns ==
    running \in exited =>
        /\ \E w \in Pending(todo) : w.op = "leave"
        /\ \A w \in Pending(todo) : w.op \notin {"try", "exitMutexes", "exit"}
OwnersLive == \A m \in Mutex \cap open : lockCount[m] > 0 => owner[m] \notin exited
GivesUp ==
    (\E w \in Pending(todo) : w.op = "exit") =>
        \A k \in 1..Len(MutexSeq) :
            MutexSeq[k] \in open /\ owner[MutexSeq[k]] = running =>
                \E w \in Pending(todo) : w.op = "exitMutexes" /\ w.at <= k
ExitInv == Ended /\ (fault = "none" => EndedReturns /\ OwnersLive /\ GivesUp)

(* A step that changes neither the waiting, nor the mutexes, nor what is   *)
(* left of a system call.                                                  *)
LEMMA ExitKept ==
    ASSUME ExitInv, UNCHANGED <<waitList, exited, owner, lockCount, running>>,
           fault' = "none" => fault = "none", Mutex \cap open' \subseteq open,
           \A w \in Pending(todo') : w.op \in {"try", "exitMutexes", "exit"} => w \in Pending(todo),
           \A w \in Pending(todo) : w.op \in {"exitMutexes", "leave"} => w \in Pending(todo')
    PROVE  ExitInv'
<1>1. Ended'
  BY DEF ExitInv, Ended
<1> SUFFICES ASSUME fault' = "none" PROVE EndedReturns' /\ OwnersLive' /\ GivesUp'
  BY <1>1 DEF ExitInv
<1>2. EndedReturns /\ OwnersLive /\ GivesUp
  BY DEF ExitInv
<1>3. EndedReturns'
  BY <1>2 DEF EndedReturns
<1>4. OwnersLive'
  BY <1>2 DEF OwnersLive
<1>5. GivesUp'
  <2> SUFFICES ASSUME NEW v \in Pending(todo'), v.op = "exit", NEW k \in 1..Len(MutexSeq),
                      MutexSeq[k] \in open', owner[MutexSeq[k]] = running
               PROVE  \E w \in Pending(todo') : w.op = "exitMutexes" /\ w.at <= k
    BY DEF GivesUp
  <2>1. MutexSeq[k] \in open
    <3>1. MutexSeq[k] \in Mutex
      BY KernelAssumption, ElementOfSeq
    <3> QED BY <3>1
  <2>2. PICK w \in Pending(todo) : w.op = "exitMutexes" /\ w.at <= k
    BY <1>2, <2>1 DEF GivesUp
  <2> QED BY <2>2
<1> QED BY <1>3, <1>4, <1>5

(* A step keeps the rest of the work, and what is left of a system call.  *)
WorkKept ==
    /\ \A w \in Pending(todo') : w.op \in {"try", "exitMutexes", "exit"} => w \in Pending(todo)
    /\ \A w \in Pending(todo) : w.op \in {"exitMutexes", "leave"} => w \in Pending(todo')
    /\ \A w \in Pending(todo') : w.op # "try"
    /\ \A w \in Pending(todo) : w # Head(todo) => w \in Pending(todo')

(* The first task, which belongs to no system call, makes way for others   *)
(* of that kind or for a wake-up, or these come before it.                 *)
LEMMA NeutralWork ==
    ASSUME Inv, fault = "none", todo # <<>>, Head(todo).op \in Neutral, NEW ts \in Seq(GoodTask),
           \A w \in Pending(ts) : w.op \in Neutral \cup Wakes \cup {"drop"},
           todo' = ts \o Tail(todo) \/ todo' = ts \o todo
    PROVE  WorkKept /\ \A w \in Pending(ts) : w \in Pending(todo')
<1>1. /\ Tail(todo) \in Seq(GoodTask) /\ ~HasTry(Tail(todo)) /\ todo \in Seq(GoodTask)
  BY NeutralHead DEF Inv
<1>2. Pending(todo) = {Head(todo)} \cup Pending(Tail(todo))
  BY <1>1, PendingTail
<1>3. PICK q : q = Tail(todo)
  OBVIOUS
<1>4. \/ Pending(todo') = Pending(ts) \cup Pending(q)
      \/ Pending(todo') = Pending(ts) \cup Pending(todo)
  <2>1. PICK p : p = todo
    OBVIOUS
  <2>2. q \in Seq(GoodTask)
    BY <1>1, <1>3
  <2>3. p \in Seq(GoodTask)
    BY <1>1, <2>1
  <2>4. Pending(ts \o q) = Pending(ts) \cup Pending(q)
    BY <2>2, PendingConcat
  <2>5. Pending(ts \o p) = Pending(ts) \cup Pending(p)
    BY <2>3, PendingConcat
  <2> QED BY <1>3, <2>1, <2>4, <2>5
<1>5. \A w \in Pending(q) : w.op # "try"
  BY <1>1, <1>3, PendingFacts
<1>6. ASSUME NEW w, w.op \in Neutral \cup Wakes \cup {"drop"}
      PROVE  w.op \notin {"try", "exitMutexes", "exit", "leave"}
  BY <1>6 DEF Neutral, Wakes
<1>7. Head(todo).op \notin {"try", "exitMutexes", "exit", "leave"}
  BY DEF Neutral
<1> QED BY <1>2, <1>3, <1>4, <1>5, <1>6, <1>7 DEF WorkKept

(* The first task, which belongs to no system call, is done. *)
LEMMA NeutralDone ==
    ASSUME Inv, fault = "none", todo # <<>>, Head(todo).op \in Neutral, todo' = Tail(todo)
    PROVE  WorkKept
<1>1. /\ Tail(todo) \in Seq(GoodTask) /\ ~HasTry(Tail(todo)) /\ todo \in Seq(GoodTask)
  BY NeutralHead DEF Inv
<1>2. Pending(todo) = {Head(todo)} \cup Pending(Tail(todo))
  BY <1>1, PendingTail
<1>3. \A w \in Pending(Tail(todo)) : w.op # "try"
  BY <1>1, PendingFacts
<1>4. Head(todo).op \notin {"try", "exitMutexes", "exit", "leave"}
  BY DEF Neutral
<1> QED BY <1>2, <1>3, <1>4 DEF WorkKept

(* The loops over timers, interrupts and observers keep the rest of the work. *)
LEMMA QuietWork ==
    ASSUME Inv, NotifyStop \/ Elapse \/ Timers \/ Rotate
    PROVE  WorkKept
<1>1. fault = "none" /\ todo # <<>> /\ Head(todo).op \in Neutral
  BY DEF NotifyStop, Elapse, Timers, Rotate, Doing, Neutral
<1>2. Head(todo) \in GoodTask
  BY <1>1, NeutralHead
<1>3. CASE NotifyStop \/ Rotate
  BY <1>1, <1>3, NeutralDone DEF NotifyStop, Rotate, Done
<1>4. CASE Elapse
  <2>1. PICK a, b, c : a = Task("timers", None, 1) /\ b = Task("interrupt", None, 1) /\ c = Task("expire", None, 1)
    OBVIOUS
  <2>2. /\ a \in GoodTask /\ b \in GoodTask /\ c \in GoodTask
        /\ a.op \in Neutral /\ b.op \in Neutral /\ c.op \in Neutral
    BY <2>1, TaskTypes DEF Neutral
  <2>3. PICK ts : ts \in {<<a, c>>, <<a, b, c>>} /\ todo' = ts \o Tail(todo)
    BY <1>4, <2>1 DEF Elapse, Then
  <2>4. ts \in Seq(GoodTask) /\ \A w \in Pending(ts) : w \in {a, b, c}
    BY <2>2, <2>3, PendingTuples
  <2> QED BY <1>1, <2>2, <2>3, <2>4, NeutralWork
<1>5. CASE Timers
  <2>1. CASE todo' = Tail(todo)
    BY <1>1, <2>1, NeutralDone
  <2>2. CASE todo' # Tail(todo)
    <3>1. PICK k : k = At
      OBVIOUS
    <3>2. k \in Nat \ {0} /\ k + 1 \in Nat \ {0}
      BY <1>2, <1>5, <3>1 DEF Timers, Doing, At, GoodTask
    <3>3. PICK a, b : a = Task("timers", None, k + 1) /\ b = Task("notify", TimerSeq[k], 0)
      OBVIOUS
    <3>4. PICK s : s = (IF timerAt[TimerSeq[k]] = 0 THEN <<b>> ELSE <<>>)
      OBVIOUS
    <3>5. todo' = (s \o <<a>>) \o Tail(todo) /\ k <= Len(TimerSeq)
      BY <1>5, <2>2, <3>1, <3>3, <3>4 DEF Timers, Then, Done
    <3>6. TimerSeq[k] \in Object
      <4>1. TimerSeq \in Seq(Timer) /\ Len(TimerSeq) \in Nat
        BY KernelAssumption, LenProperties
      <4>2. k \in 1..Len(TimerSeq)
        BY <3>2, <3>5, <4>1
      <4> QED BY <4>1, <4>2, ElementOfSeq DEF Object
    <3>7. a \in GoodTask /\ b \in GoodTask /\ a.op \in Neutral /\ b.op \in Neutral
      BY <3>2, <3>3, <3>6, TaskTypes DEF Neutral
    <3>8. PICK e : e = <<a>>
      OBVIOUS
    <3>9. s \in Seq(GoodTask) /\ e \in Seq(GoodTask)
      BY <3>4, <3>7, <3>8
    <3>10. Pending(s) \subseteq {b} /\ Pending(e) = {a}
      BY <3>4, <3>8, PendingTuples
    <3>11. PICK ts : ts = s \o e
      OBVIOUS
    <3>12. ts \in Seq(GoodTask) /\ \A w \in Pending(ts) : w \in {a, b}
      BY <3>9, <3>10, <3>11, PendingConcat
    <3> QED BY <1>1, <3>5, <3>7, <3>8, <3>11, <3>12, NeutralWork
  <2> QED BY <2>1, <2>2
<1> QED BY <1>3, <1>4, <1>5

(* The events of the interrupt are signalled and their observers notified. *)
LEMMA InterruptWork ==
    ASSUME Inv, Interrupt
    PROVE  /\ WorkKept
           /\ \A e \in Event : signalled'[e] # signalled[e] => Notifies(todo', e)
<1>1. fault = "none" /\ todo # <<>> /\ Head(todo).op \in Neutral /\ Head(todo).op = "interrupt"
  BY DEF Interrupt, Doing, Neutral
<1>2. Head(todo) \in GoodTask /\ signalled \in [Event -> BOOLEAN]
  BY <1>1, NeutralHead DEF Inv, TypeOK
<1>3. CASE todo' = Tail(todo) /\ signalled' = signalled
  BY <1>1, <1>3, NeutralDone
<1>4. CASE ~(todo' = Tail(todo) /\ signalled' = signalled)
  <2>1. PICK k : k = At
    OBVIOUS
  <2>2. k \in Nat \ {0} /\ k + 1 \in Nat \ {0}
    BY <1>1, <1>2, <2>1 DEF At, GoodTask
  <2>3. PICK a, b : a = Task("interrupt", None, k + 1) /\ b = Task("notify", VBlankSeq[k], 0)
    OBVIOUS
  <2>4. /\ todo' = <<b, a>> \o Tail(todo) /\ k <= Len(VBlankSeq)
        /\ signalled' = [signalled EXCEPT ![VBlankSeq[k]] = TRUE]
    BY <1>4, <2>1, <2>3 DEF Interrupt, Then, Done
  <2>5. VBlankSeq[k] \in Object
    <3>1. VBlankSeq \in Seq(Event) /\ Len(VBlankSeq) \in Nat
      BY KernelAssumption, LenProperties
    <3>2. k \in 1..Len(VBlankSeq)
      BY <2>2, <2>4, <3>1
    <3> QED BY <3>1, <3>2, ElementOfSeq DEF Object
  <2>6. /\ a \in GoodTask /\ b \in GoodTask /\ a.op \in Neutral /\ b.op \in Neutral
        /\ b.op = "notify" /\ b.obj = VBlankSeq[k]
    BY <2>2, <2>3, <2>5, TaskTypes DEF Neutral
  <2>7. PICK ts : ts = <<b, a>>
    OBVIOUS
  <2>8. ts \in Seq(GoodTask) /\ Pending(ts) = {a, b}
    BY <2>6, <2>7, PendingTuples
  <2>9. WorkKept /\ b \in Pending(todo')
    BY <1>1, <2>4, <2>6, <2>7, <2>8, NeutralWork
  <2>10. Notifies(todo', VBlankSeq[k])
    BY <2>6, <2>9, PendingFacts
  <2> QED BY <1>2, <2>4, <2>9, <2>10
<1> QED BY <1>3, <1>4

(* A due timeout ends a wait before the rest of the work. *)
LEMMA ExpireWork == ASSUME Inv, Expire PROVE WorkKept
<1>1. fault = "none" /\ todo # <<>> /\ Head(todo).op \in Neutral /\ Head(todo).op = "expire"
  BY DEF Expire, Doing, Neutral
<1>2. Head(todo) \in GoodTask /\ waitingQueue \in Seq(Thread) /\ ~HasTry(Tail(todo)) /\ Tail(todo) \in Seq(GoodTask)
  BY <1>1, NeutralHead DEF Inv, TypeOK
<1>3. CASE todo' = Tail(todo)
  BY <1>1, <1>3, NeutralDone
<1>4. CASE todo' = todo
  <2>1. <<>> \in Seq(GoodTask) /\ Pending(<<>>) = {} /\ <<>> \o todo = todo
    BY PendingTuples, ConcatEmptySeq DEF Inv
  <2>2. PICK ts : ts = <<>>
    OBVIOUS
  <2> QED BY <1>1, <1>4, <2>1, <2>2, NeutralWork
<1>5. PICK k : k = At
  OBVIOUS
<1>6. k \in Nat \ {0} /\ k + 1 \in Nat \ {0} /\ Len(waitingQueue) \in Nat
  BY <1>1, <1>2, <1>5, LenProperties DEF At, GoodTask
<1>7. CASE Then(<<Task("expire", None, At + 1)>>)
  <2>1. PICK a : a = Task("expire", None, k + 1)
    OBVIOUS
  <2>2. a \in GoodTask /\ a.op \in Neutral
    BY <1>6, <2>1, TaskTypes DEF Neutral
  <2>3. PICK ts : ts = <<a>>
    OBVIOUS
  <2>4. ts \in Seq(GoodTask) /\ Pending(ts) = {a} /\ todo' = ts \o Tail(todo)
    BY <1>5, <1>7, <2>1, <2>2, <2>3, PendingTuples DEF Then
  <2> QED BY <1>1, <2>2, <2>4, NeutralWork
<1>8. CASE k <= Len(waitingQueue) /\ Before(OnTimeout(waitingQueue[k]))
  <2>1. PICK t : t = waitingQueue[k]
    OBVIOUS
  <2>2. t \in Thread
    <3>1. k \in 1..Len(waitingQueue)
      BY <1>6, <1>8
    <3> QED BY <1>2, <2>1, <3>1, ElementOfSeq
  <2>3. PICK a, b : a = Task("wakeBack", t, 0) /\ b = Task("drop", t, 0)
    OBVIOUS
  <2>4. a \in GoodTask /\ b \in GoodTask /\ a.op \in Wakes /\ b.op = "drop"
    BY <2>2, <2>3, TaskTypes DEF Wakes
  <2>5. PICK s, e : s = (IF status[t] = "Sleeping" THEN <<b>> ELSE <<>>) /\ e = <<a>>
    OBVIOUS
  <2>6. s \in Seq(GoodTask) /\ e \in Seq(GoodTask)
    BY <2>4, <2>5
  <2>7. Pending(s) \subseteq {b} /\ Pending(e) = {a}
    BY <2>5, PendingTuples
  <2>8. PICK ts : ts = s \o e
    OBVIOUS
  <2>9. ts \in Seq(GoodTask) /\ \A w \in Pending(ts) : w \in {a, b}
    BY <2>6, <2>7, <2>8, PendingConcat
  <2>10. todo' = ts \o todo
    BY <1>8, <2>1, <2>3, <2>5, <2>8 DEF Before, OnTimeout
  <2> QED BY <1>1, <2>4, <2>9, <2>10, NeutralWork
<1> QED BY <1>3, <1>4, <1>5, <1>7, <1>8 DEF Expire, Done

(* The loop over the observers goes on, after a wake-up. *)
LEMMA NotifyNextWork ==
    ASSUME Inv, NotifyNext
    PROVE  LET t == Head(observers[Obj])
           IN  /\ WorkKept /\ Pending(todo) \subseteq Pending(todo')
               /\ \/ todo' = todo
                  \/ todo' # <<>> /\ Head(todo').op \in {"drop", "wakeFront"} /\ Head(todo').obj = t
<1>1. fault = "none" /\ todo # <<>> /\ Head(todo).op \in Neutral /\ todo \in Seq(GoodTask)
  BY DEF NotifyNext, Doing, Neutral, Inv
<1>2. PICK t : t = Head(observers[Obj])
  OBVIOUS
<1>3. t \in Thread
  BY <1>2, FrontObserver DEF NotifyNext
<1>4. PICK a, b : a = Task("drop", t, 0) /\ b = Task("wakeFront", t, 0)
  OBVIOUS
<1>5. /\ a \in GoodTask /\ b \in GoodTask /\ a.op = "drop" /\ b.op = "wakeFront" /\ b.op \in Wakes
      /\ a.obj = t /\ b.obj = t
  BY <1>3, <1>4, TaskTypes DEF Wakes
<1>6. todo' = <<a, b>> \o todo \/ todo' = <<b>> \o todo \/ todo' = todo
  BY <1>2, <1>4 DEF NotifyNext, Before
<1>7. PICK z : z = todo
  OBVIOUS
<1>8. z \in Seq(GoodTask)
  BY <1>1, <1>7
<1>9. ASSUME NEW ts \in Seq(GoodTask), ts # <<>>, Pending(ts) \subseteq {a, b}, todo' = ts \o todo
      PROVE  /\ WorkKept /\ Pending(todo) \subseteq Pending(todo')
             /\ todo' # <<>> /\ Head(todo') = Head(ts)
  <2>1. \A w \in Pending(ts) : w.op \in Neutral \cup Wakes \cup {"drop"}
    BY <1>5, <1>9
  <2>2. WorkKept
    BY <1>1, <1>9, <2>1, NeutralWork
  <2>3. Pending(ts \o z) = Pending(ts) \cup Pending(z)
    BY <1>8, PendingConcat
  <2>4. /\ Len(ts) \in Nat /\ Len(ts) >= 1 /\ Len(z) \in Nat /\ Head(ts) = ts[1]
    <3>1. Len(z) \in Nat
      BY <1>8, LenProperties
    <3>2. Len(ts) \in Nat /\ Len(ts) >= 1 /\ Head(ts) = ts[1]
      BY <1>9, LenProperties, EmptySeq, HeadTailProperties
    <3> QED BY <3>1, <3>2
  <2>5. /\ ts \o z \in Seq(GoodTask) /\ Len(ts \o z) = Len(ts) + Len(z)
        /\ \A i \in 1..(Len(ts) + Len(z)) : (ts \o z)[i] = IF i <= Len(ts) THEN ts[i] ELSE z[i - Len(ts)]
    BY <1>8, ConcatProperties
  <2>6. (ts \o z)[1] = ts[1] /\ ts \o z # <<>>
    <3>1. 1 \in 1..(Len(ts) + Len(z)) /\ Len(ts \o z) > 0
      BY <2>4, <2>5
    <3> QED BY <2>4, <2>5, <3>1, EmptySeq
  <2>7. Head(ts \o z) = (ts \o z)[1]
    BY <2>5, <2>6, HeadTailProperties
  <2> QED BY <1>7, <1>9, <2>2, <2>3, <2>4, <2>6, <2>7
<1>10. CASE todo' = todo
  <2>1. <<>> \in Seq(GoodTask) /\ Pending(<<>>) = {} /\ <<>> \o todo = todo
    BY <1>1, PendingTuples, ConcatEmptySeq
  <2>2. PICK ts : ts = <<>>
    OBVIOUS
  <2>3. WorkKept
    BY <1>1, <1>10, <2>1, <2>2, NeutralWork
  <2> QED BY <1>10, <2>3
<1>11. CASE todo' = <<a, b>> \o todo
  <2>1. <<a, b>> \in Seq(GoodTask) /\ <<a, b>> # <<>> /\ Head(<<a, b>>) = a /\ Pending(<<a, b>>) \subseteq {a, b}
    BY <1>5, PendingTuples
  <2> QED BY <1>2, <1>5, <1>9, <1>11, <2>1
<1>12. CASE todo' = <<b>> \o todo
  <2>1. <<b>> \in Seq(GoodTask) /\ <<b>> # <<>> /\ Head(<<b>>) = b /\ Pending(<<b>>) \subseteq {a, b}
    BY <1>5, PendingTuples
  <2> QED BY <1>2, <1>5, <1>9, <1>12, <2>1
<1> QED BY <1>6, <1>10, <1>11, <1>12

(* What is left after the first task, and what comes in its place. *)
LEMMA TailWork ==
    ASSUME Inv, todo # <<>>
    PROVE  /\ todo \in Seq(GoodTask) /\ Tail(todo) \in Seq(GoodTask) /\ Head(todo) \in GoodTask
           /\ Pending(todo) = {Head(todo)} \cup Pending(Tail(todo))
<1>1. todo \in Seq(GoodTask)
  BY DEF Inv
<1> QED BY <1>1, PendingTail, ContainsTail

(* Tasks put in the place of the first. *)
LEMMA ThenWork ==
    ASSUME Inv, todo # <<>>, NEW ts \in Seq(GoodTask), todo' = ts \o Tail(todo)
    PROVE  Pending(todo') = Pending(ts) \cup Pending(Tail(todo))
<1>1. PICK q : q = Tail(todo)
  OBVIOUS
<1>2. q \in Seq(GoodTask)
  BY <1>1, TailWork
<1>3. Pending(ts \o q) = Pending(ts) \cup Pending(q)
  BY <1>2, PendingConcat
<1> QED BY <1>1, <1>3

(* The work of a Reschedule and of the return from a system call. *)
LEMMA ReturnPending ==
    ASSUME NEW t \in Thread
    PROVE  /\ Reschedule(t) \in Seq(GoodTask)
           /\ \A w \in Pending(Reschedule(t)) : w.op \in {"elapse", "rotate"}
           /\ \A s \in Seq(GoodTask) :
                Pending(s \o <<Task("leave", t, 0)>>) = Pending(s) \cup {Task("leave", t, 0)}
           /\ Task("leave", t, 0).op = "leave"
<1> DEFINE a == Task("elapse", None, 1)
           b == Task("rotate", t, 0)
<1>1. a \in GoodTask /\ b \in GoodTask /\ a.op = "elapse" /\ b.op = "rotate" /\ Task("leave", t, 0).op = "leave"
  BY TaskTypes
<1>2. Reschedule(t) = <<a, b>>
  BY DEF Reschedule
<1> HIDE DEF a, b
<1>3. Reschedule(t) \in Seq(GoodTask) /\ Pending(Reschedule(t)) = {a, b}
  BY <1>1, <1>2, PendingTuples
<1>4. PICK l : l = <<Task("leave", t, 0)>>
  OBVIOUS
<1>5. l \in Seq(GoodTask) /\ Pending(l) = {Task("leave", t, 0)}
  <2>1. l \in Seq(GoodTask)
    BY <1>4, LeaveSettled
  <2>2. PICK x : x = Task("leave", t, 0)
    OBVIOUS
  <2>3. Pending(<<x>>) = {x}
    BY PendingTuples
  <2> QED BY <1>4, <2>1, <2>2, <2>3
<1>6. ASSUME NEW s \in Seq(GoodTask) PROVE Pending(s \o l) = Pending(s) \cup Pending(l)
  BY <1>5, PendingConcat
<1> QED BY <1>1, <1>3, <1>4, <1>5, <1>6

(* The work that a system call leaves to do. *)
LEMMA CallWork ==
    ASSUME NEW t \in Thread, NEW s \in Seq(GoodTask)
    PROVE  /\ Return(t, s) => Pending(todo') = Pending(s) \cup {Task("leave", t, 0)}
           /\ Return(t, <<>>) => Pending(todo') = {Task("leave", t, 0)}
           /\ Return(t, Reschedule(t)) => \A w \in Pending(todo') : w.op \in {"elapse", "rotate", "leave"}
           /\ Return(t, s \o Reschedule(t)) =>
                /\ Pending(s) \subseteq Pending(todo')
                /\ \A w \in Pending(todo') : w \in Pending(s) \/ w.op \in {"elapse", "rotate", "leave"}
                /\ Task("leave", t, 0) \in Pending(todo')
<1>1. PICK l, r : l = Task("leave", t, 0) /\ r = Reschedule(t)
  OBVIOUS
<1>2. /\ r \in Seq(GoodTask) /\ \A w \in Pending(r) : w.op \in {"elapse", "rotate"}
      /\ l.op = "leave"
      /\ \A p \in Seq(GoodTask) : Pending(p \o <<l>>) = Pending(p) \cup {l}
  BY <1>1, ReturnPending
<1>3. s \o r \in Seq(GoodTask) /\ Pending(s \o r) = Pending(s) \cup Pending(r)
  BY <1>2, PendingConcat
<1>4. <<>> \in Seq(GoodTask) /\ Pending(<<>>) = {}
  BY PendingTuples
<1>5. Pending(s \o <<l>>) = Pending(s) \cup {l} /\ Pending(r \o <<l>>) = Pending(r) \cup {l}
  BY <1>2
<1>6. Pending((s \o r) \o <<l>>) = Pending(s \o r) \cup {l}
  BY <1>2, <1>3
<1>7. Pending(<<>> \o <<l>>) = Pending(<<>>) \cup {l}
  BY <1>2, <1>4
<1>8. Return(t, s) => Pending(todo') = Pending(s) \cup {l}
  BY <1>1, <1>5 DEF Return
<1>9. Return(t, <<>>) => Pending(todo') = {l}
  BY <1>1, <1>4, <1>7 DEF Return
<1>10. Return(t, r) => \A w \in Pending(todo') : w.op \in {"elapse", "rotate", "leave"}
  BY <1>1, <1>2, <1>5 DEF Return
<1>11. Return(t, s \o r) => Pending(todo') = Pending(s) \cup Pending(r) \cup {l}
  BY <1>1, <1>3, <1>6 DEF Return
<1> QED BY <1>1, <1>2, <1>8, <1>9, <1>10, <1>11

(* The observers of at most one object are notified before a call returns. *)
LEMMA NotifyingCall ==
    ASSUME NEW t \in Thread, NEW o \in Object,
           \/ Return(t, <<>>) \/ Return(t, Reschedule(t)) \/ Return(t, <<>> \o Reschedule(t))
           \/ Return(t, <<Task("notify", o, 0)>> \o Reschedule(t))
    PROVE  /\ \A w \in Pending(todo') : w.op \in {"notify", "elapse", "rotate", "leave"}
           /\ Return(t, <<Task("notify", o, 0)>> \o Reschedule(t)) => Notifies(todo', o)
<1>1. PICK n : n = Task("notify", o, 0)
  OBVIOUS
<1>2. n \in GoodTask /\ n.op = "notify" /\ n.obj = o
  BY <1>1, TaskTypes
<1>3. PICK s, e : s = <<n>> /\ e = <<>>
  OBVIOUS
<1>4. s \in Seq(GoodTask) /\ Pending(s) = {n} /\ e \in Seq(GoodTask) /\ Pending(e) = {}
  BY <1>2, <1>3, PendingTuples
<1>5. /\ Return(t, e) => Pending(todo') = {Task("leave", t, 0)}
      /\ Return(t, Reschedule(t)) => \A w \in Pending(todo') : w.op \in {"elapse", "rotate", "leave"}
      /\ Return(t, e \o Reschedule(t)) =>
           \A w \in Pending(todo') : w \in Pending(e) \/ w.op \in {"elapse", "rotate", "leave"}
  BY <1>3, <1>4, CallWork
<1>6. Return(t, s \o Reschedule(t)) =>
         /\ n \in Pending(todo')
         /\ \A w \in Pending(todo') : w = n \/ w.op \in {"elapse", "rotate", "leave"}
  BY <1>4, CallWork
<1>7. Task("leave", t, 0).op = "leave"
  BY TaskTypes
<1>8. Return(t, s \o Reschedule(t)) => Notifies(todo', o)
  BY <1>2, <1>6, PendingFacts
<1> QED BY <1>1, <1>2, <1>3, <1>4, <1>5, <1>6, <1>7, <1>8

-----------------------------------------------------------------------------
(* Every step keeps ExitInv.                                                *)

(* The loops that belong to no system call end no thread and give no mutex away. *)
LEMMA ExitNeutral ==
    ASSUME Inv, ExitInv, NotifyStop \/ Elapse \/ Timers \/ Rotate \/ Interrupt \/ Expire
    PROVE  ExitInv'
<1>1. WorkKept
  BY QuietWork, InterruptWork, ExpireWork
<1>2. UNCHANGED <<waitList, exited, owner, lockCount, running, fault, open>>
  <2>1. CASE NotifyStop \/ Timers \/ Rotate
    BY <2>1 DEF NotifyStop, Timers, Rotate, threadVars, objectVars, queueVars
  <2>2. CASE Elapse \/ Interrupt \/ Expire
    BY <2>2 DEF Elapse, Interrupt, Expire, threadVars, objectVars, queueVars
  <2> QED BY <2>1, <2>2
<1> QED BY <1>1, <1>2, ExitKept DEF WorkKept

(* A thread that acquires a mutex waited for it, so it has not ended. *)
LEMMA ExitNotifyNext == ASSUME Inv, ExitInv, NotifyNext PROVE ExitInv'
<1>1. WorkKept /\ fault = "none" /\ todo # <<>> /\ Head(todo).op = "notify" /\ Head(todo).op \in Neutral
  BY NotifyNextWork DEF NotifyNext, Doing, Neutral
<1>2. PICK o, t : o = Obj /\ t = Head(observers[o])
  OBVIOUS
<1>3. /\ o \in Object /\ t \in Thread /\ Contains(waitList[t], o) /\ status[t] = "Sleeping"
  BY <1>2, FrontObserver DEF NotifyNext
<1>4. /\ owner' = IF o \in Mutex THEN [owner EXCEPT ![o] = t] ELSE owner
      /\ lockCount' = IF o \in Mutex THEN [lockCount EXCEPT ![o] = @ + 1] ELSE lockCount
      /\ \E l : waitList' = [waitList EXCEPT ![t] = l]
      /\ UNCHANGED <<status, open, exited, running>>
  BY <1>2 DEF NotifyNext, Acquire
<1>5. /\ owner \in [Mutex -> Thread \cup {None}] /\ lockCount \in [Mutex -> Nat]
      /\ waitList \in [Thread -> Seq(Object)] /\ exited \subseteq Thread
  BY DEF Inv, TypeOK
<1>6. waitList[t] # <<>>
  BY <1>3 DEF Contains
<1>7. Ended /\ t \notin exited /\ EndedReturns /\ OwnersLive /\ GivesUp
  BY <1>1, <1>6 DEF ExitInv, Ended
<1>8. Ended'
  BY <1>4, <1>5, <1>7 DEF Ended
<1>9. EndedReturns'
  BY <1>1, <1>4, <1>7 DEF EndedReturns, WorkKept
<1>10. OwnersLive'
  <2> SUFFICES ASSUME NEW m \in Mutex \cap open, lockCount'[m] > 0 PROVE owner'[m] \notin exited
    BY <1>4 DEF OwnersLive
  <2>1. CASE o = m
    BY <1>4, <1>5, <1>7, <2>1
  <2>2. CASE o # m
    <3>1. owner'[m] = owner[m] /\ lockCount'[m] = lockCount[m]
      BY <1>4, <1>5, <2>2
    <3> QED BY <1>7, <3>1 DEF OwnersLive
  <2> QED BY <2>1, <2>2
<1>11. GivesUp'
  <2> SUFFICES ASSUME NEW v \in Pending(todo'), v.op = "exit", NEW k \in 1..Len(MutexSeq),
                      MutexSeq[k] \in open, owner'[MutexSeq[k]] = running
               PROVE  \E w \in Pending(todo') : w.op = "exitMutexes" /\ w.at <= k
    BY <1>4 DEF GivesUp
  <2>1. v \in Pending(todo)
    BY <1>1 DEF WorkKept
  <2>2. t # running
    <3>1. HasCalls(todo) /\ Rests(todo, running, status)
      BY <1>1, <2>1, PendingFacts, NeutralHead DEF Calls
    <3> QED BY <1>3, <3>1 DEF Rests
  <2>3. MutexSeq[k] \in Mutex
    BY KernelAssumption, ElementOfSeq
  <2>4. owner[MutexSeq[k]] = running
    BY <1>4, <1>5, <2>2, <2>3
  <2>5. PICK w \in Pending(todo) : w.op = "exitMutexes" /\ w.at <= k
    BY <1>7, <2>1, <2>4 DEF GivesUp
  <2> QED BY <1>1, <2>5 DEF WorkKept
<1> QED BY <1>8, <1>9, <1>10, <1>11 DEF ExitInv

(* An Unregister, or a wake-up. *)
LEMMA ExitDropWake == ASSUME Inv, ExitInv, Drop \/ Wake PROVE ExitInv'
<1>1. /\ fault = "none" /\ todo # <<>> /\ Head(todo).op \in {"drop"} \cup Wakes
      /\ UNCHANGED <<exited, owner, lockCount, running, open>>
  BY DEF Drop, Wake, Doing, Wakes, objectVars
<1>2. /\ Pending(todo) = {Head(todo)} \cup Pending(Tail(todo)) /\ (todo' = todo \/ todo' = Tail(todo))
  BY <1>1, TailWork DEF Drop, Wake, Done
<1>3. Head(todo).op \notin {"try", "exitMutexes", "exit", "leave"}
  BY <1>1 DEF Wakes
<1>4. CASE waitList' = waitList
  BY <1>1, <1>2, <1>3, <1>4, ExitKept
<1>5. CASE waitList' # waitList
  <2>1. PICK t : t = Obj
    OBVIOUS
  <2>2. waitList[t] # <<>> /\ waitList' = [waitList EXCEPT ![t] = Tail(@)] /\ todo' = todo
    BY <1>5, <2>1 DEF Drop, Wake
  <2>3. Ended /\ EndedReturns /\ OwnersLive /\ GivesUp /\ waitList \in [Thread -> Seq(Object)] /\ exited \subseteq Thread
    BY <1>1 DEF ExitInv, Inv, TypeOK
  <2>4. Ended'
    <3>1. t \notin exited
      BY <2>2, <2>3 DEF Ended
    <3> QED BY <1>1, <2>2, <2>3, <3>1 DEF Ended
  <2>5. EndedReturns' /\ OwnersLive' /\ GivesUp'
    BY <1>1, <2>2, <2>3 DEF EndedReturns, OwnersLive, GivesUp
  <2> QED BY <2>4, <2>5 DEF ExitInv
<1> QED BY <1>4, <1>5

(* The dispatcher resumes no thread that has ended. *)
LEMMA ExitDispatch ==
    ASSUME Inv, ExitInv, Idle \/ Leave \/ \E d \in {0, 1} : Dispatch(d)
    PROVE  ExitInv'
<1>1. Ended /\ (fault = "none" => EndedReturns /\ OwnersLive /\ GivesUp) /\ exited \subseteq Thread /\ None \notin Thread
  BY KernelAssumption DEF ExitInv, Inv, TypeOK, Object
<1>2. /\ UNCHANGED <<waitList, exited, owner, lockCount, open>> /\ fault = "none"
      /\ fault' = "none" => running' \notin exited
  <2>1. CASE Idle
    BY <1>1, <2>1 DEF Idle, threadVars, objectVars
  <2>2. CASE Leave
    BY <1>1, <2>2 DEF Leave, Doing, threadVars, objectVars
  <2>3. ASSUME NEW d \in {0, 1}, Dispatch(d)
        PROVE  /\ UNCHANGED <<waitList, exited, owner, lockCount, open>> /\ fault = "none"
               /\ fault' = "none" => running' \notin exited
    BY <1>1, <2>3 DEF Dispatch, threadVars, objectVars
  <2> QED BY <2>1, <2>2, <2>3
<1>3. \A w \in Pending(todo') : w.op = "elapse"
  <2>1. CASE Leave
    <3>1. fault = "none" /\ todo # <<>> /\ Head(todo).op = "leave" /\ todo' = Tail(todo)
      BY <2>1 DEF Leave, Doing, Done
    <3>2. AtRest
      BY <3>1, HeadCases DEF Wakes
    <3>3. todo' = <<>>
      BY <3>1, <3>2, RestsTail DEF AtRest, Inv
    <3> QED BY <3>3, PendingTuples
  <2>2. PICK n : n = IdleTicks
    OBVIOUS
  <2>3. ASSUME NEW d PROVE Pending(<<Task("elapse", None, d)>>) = {Task("elapse", None, d)} /\ Task("elapse", None, d).op = "elapse"
    <3>1. PICK x : x = Task("elapse", None, d)
      OBVIOUS
    <3> QED BY <3>1, PendingTuples, TaskTypes
  <2>4. CASE Idle
    <3>1. todo' = <<Task("elapse", None, n)>>
      BY <2>2, <2>4 DEF Idle
    <3> QED BY <2>3, <3>1
  <2>5. ASSUME NEW d \in {0, 1}, Dispatch(d) PROVE \A w \in Pending(todo') : w.op = "elapse"
    <3>1. todo' = <<Task("elapse", None, d)>> \/ todo' = <<>>
      BY <2>5 DEF Dispatch
    <3> QED BY <2>3, <3>1, PendingTuples
  <2> QED BY <2>1, <2>4, <2>5
<1>4. Ended'
  BY <1>1, <1>2 DEF Ended
<1>5. ASSUME fault' = "none" PROVE EndedReturns' /\ OwnersLive' /\ GivesUp'
  <2>1. EndedReturns'
    BY <1>2, <1>5 DEF EndedReturns
  <2>2. OwnersLive'
    BY <1>1, <1>2 DEF OwnersLive
  <2>3. GivesUp'
    BY <1>3 DEF GivesUp
  <2> QED BY <2>1, <2>2, <2>3
<1> QED BY <1>4, <1>5 DEF ExitInv

(* A thread in a system call has not ended. *)
LEMMA CallerLives ==
    ASSUME Inv, ExitInv, NEW t \in Thread, InSVC(t)
    PROVE  t \notin exited /\ fault = "none" /\ running = t /\ Ended /\ EndedReturns /\ OwnersLive
<1>1. fault = "none" /\ running = t /\ todo = <<>>
  BY DEF InSVC
<1>2. Pending(todo) = {}
  BY <1>1, PendingTuples
<1>3. Ended /\ EndedReturns /\ OwnersLive
  BY <1>1 DEF ExitInv
<1> QED BY <1>1, <1>2, <1>3 DEF EndedReturns

(* A system call that ends no thread and acquires no mutex. *)
LEMMA ExitCall ==
    ASSUME Inv, ExitInv, NEW t \in Thread, InSVC(t), UNCHANGED <<exited, running>>,
           \A u \in Thread \ {t} : waitList'[u] = waitList[u],
           \A m \in Mutex \cap open' : lockCount'[m] > 0 =>
               m \in open /\ lockCount[m] > 0 /\ owner'[m] = owner[m],
           \A w \in Pending(todo') : w.op # "exit"
    PROVE  ExitInv'
<1>1. t \notin exited /\ running = t /\ Ended /\ OwnersLive /\ exited \subseteq Thread
  BY CallerLives DEF Inv, TypeOK
<1>2. Ended'
  BY <1>1 DEF Ended
<1>3. EndedReturns'
  BY <1>1 DEF EndedReturns
<1>4. OwnersLive'
  BY <1>1 DEF OwnersLive
<1>5. GivesUp'
  BY DEF GivesUp
<1> QED BY <1>2, <1>3, <1>4, <1>5 DEF ExitInv

-----------------------------------------------------------------------------
(* What the system calls change.                                            *)

(* Nobody can acquire an object just because of other objects. *)
LEMMA AcquireKept ==
    ASSUME NEW o \in Object \ Timer, NEW u \in Thread, CanAcquire(u, o)',
           o \in Mutex => lockCount'[o] = lockCount[o] /\ owner'[o] = owner[o],
           o \in Semaphore => (available'[o] > 0 => available[o] > 0),
           o \in Event => (signalled'[o] => signalled[o]),
           o \in Thread => (status'[o] = "Stopped" => status[o] = "Stopped")
    PROVE  CanAcquire(u, o)
BY DEF CanAcquire

(* A system call that neither waits nor ends its thread: what others can   *)
(* acquire because of it is notified, and no mutex gets an owner.          *)
CallEffect(t) ==
    /\ UNCHANGED <<exited, running, waitList, observers, fault>>
    /\ \A w \in Pending(todo') : w.op \in {"notify", "elapse", "rotate", "leave"}
    /\ \A m \in Mutex : owner'[m] \in {owner[m], None}
    /\ \A m \in Mutex \cap open' : lockCount'[m] > 0 =>
           m \in open /\ lockCount[m] > 0 /\ owner'[m] = owner[m]
    /\ \A o \in Object \ Timer, u \in Thread :
           CanAcquire(u, o)' /\ ~CanAcquire(u, o) => Notifies(todo', o)

(* The calls that leave the objects alone. *)
LEMMA PlainCalls ==
    ASSUME Inv, NEW t \in Thread,
           SVCCreateThread(t) \/ SVCSleepThread(t) \/ SVCGetSystemTick(t) \/ SVCClearEvent(t) \/ SVCSetTimer(t)
    PROVE  CallEffect(t)
<1>1. /\ UNCHANGED <<exited, running, waitList, observers, fault, owner, lockCount, available>>
      /\ Mutex \cap open' = Mutex \cap open
      /\ \A e \in Event : signalled'[e] => signalled[e]
      /\ \A u \in Thread : status'[u] = "Stopped" => status[u] = "Stopped"
  <2>0. status \in [Thread -> Status] /\ signalled \in [Event -> BOOLEAN] /\ Mutex \cap Thread = {}
    BY KernelAssumption DEF Inv, TypeOK
  <2>1. CASE SVCCreateThread(t)
    BY <2>0, <2>1 DEF SVCCreateThread, objectVars
  <2>2. CASE SVCSleepThread(t)
    BY <2>0, <2>2 DEF SVCSleepThread, objectVars
  <2>3. CASE SVCGetSystemTick(t) \/ SVCSetTimer(t)
    BY <2>0, <2>3 DEF SVCGetSystemTick, SVCSetTimer, threadVars
  <2>4. CASE SVCClearEvent(t)
    BY <2>0, <2>4 DEF SVCClearEvent, threadVars
  <2> QED BY <2>1, <2>2, <2>3, <2>4
<1>2. \A w \in Pending(todo') : w.op \in {"notify", "elapse", "rotate", "leave"}
  <2>1. CASE Return(t, <<>>) \/ Return(t, Reschedule(t))
    <3>1. t \in Object
      BY DEF Object
    <3> QED BY <2>1, <3>1, NotifyingCall
  <2>2. CASE SVCSetTimer(t)
    <3>1. PICK k \in Timer \cap open : \/ Return(t, <<Task("notify", k, 0)>> \o Reschedule(t))
                                       \/ Return(t, <<>> \o Reschedule(t))
      BY <2>2 DEF SVCSetTimer
    <3>2. k \in Object
      BY DEF Object
    <3> QED BY <3>1, <3>2, NotifyingCall
  <2> QED BY <2>1, <2>2 DEF SVCCreateThread, SVCSleepThread, SVCGetSystemTick, SVCClearEvent
<1>3. \A m \in Mutex : owner'[m] \in {owner[m], None}
  BY <1>1
<1>4. \A m \in Mutex \cap open' : lockCount'[m] > 0 => m \in open /\ lockCount[m] > 0 /\ owner'[m] = owner[m]
  BY <1>1
<1>5. ASSUME NEW o \in Object \ Timer, NEW u \in Thread, CanAcquire(u, o)' PROVE CanAcquire(u, o)
  <2>1. /\ o \in Mutex => lockCount'[o] = lockCount[o] /\ owner'[o] = owner[o]
        /\ o \in Semaphore => (available'[o] > 0 => available[o] > 0)
        /\ o \in Event => (signalled'[o] => signalled[o])
        /\ o \in Thread => (status'[o] = "Stopped" => status[o] = "Stopped")
    BY <1>1
  <2> QED BY <1>5, <2>1, AcquireKept
<1> QED BY <1>1, <1>2, <1>3, <1>4, <1>5 DEF CallEffect

(* The calls that make an event or a semaphore available. *)
LEMMA SignallingCalls ==
    ASSUME Inv, NEW t \in Thread, SVCReleaseSemaphore(t) \/ SVCSignalEvent(t)
    PROVE  CallEffect(t)
<1>1. PICK x \in Object :
        /\ Return(t, <<Task("notify", x, 0)>> \o Reschedule(t))
        /\ UNCHANGED <<exited, running, waitList, observers, fault, owner, lockCount, open, status>>
        /\ \A o \in Semaphore : o # x => available'[o] = available[o]
        /\ \A o \in Event : o # x => signalled'[o] = signalled[o]
  <2>0. available \in [Semaphore -> 0..MaxAvailable] /\ signalled \in [Event -> BOOLEAN]
    BY DEF Inv, TypeOK
  <2>1. CASE SVCReleaseSemaphore(t)
    <3>1. PICK s \in Semaphore \cap open, times \in 0..MaxAvailable :
            /\ available' = IF available[s] > MaxAvailable - times THEN available
                            ELSE [available EXCEPT ![s] = @ + times]
            /\ Return(t, <<Task("notify", s, 0)>> \o Reschedule(t))
      BY <2>1 DEF SVCReleaseSemaphore
    <3>2. s \in Object /\ \A o \in Semaphore : o # s => available'[o] = available[o]
      BY <2>0, <3>1 DEF Object
    <3>3. UNCHANGED <<exited, running, waitList, observers, fault, owner, lockCount, open, status, signalled>>
      BY <2>1 DEF SVCReleaseSemaphore, threadVars
    <3> QED BY <3>1, <3>2, <3>3
  <2>2. CASE SVCSignalEvent(t)
    <3>1. PICK e \in Event \cap open : /\ signalled' = [signalled EXCEPT ![e] = TRUE]
                                       /\ Return(t, <<Task("notify", e, 0)>> \o Reschedule(t))
      BY <2>2 DEF SVCSignalEvent
    <3>2. e \in Object /\ \A o \in Event : o # e => signalled'[o] = signalled[o]
      BY <2>0, <3>1 DEF Object
    <3>3. UNCHANGED <<exited, running, waitList, observers, fault, owner, lockCount, open, status, available>>
      BY <2>2 DEF SVCSignalEvent, threadVars
    <3> QED BY <3>1, <3>2, <3>3
  <2> QED BY <2>1, <2>2
<1>2. /\ \A w \in Pending(todo') : w.op \in {"notify", "elapse", "rotate", "leave"}
      /\ Notifies(todo', x)
  BY <1>1, NotifyingCall
<1>3. ASSUME NEW o \in Object \ Timer, NEW u \in Thread, CanAcquire(u, o)', o # x PROVE CanAcquire(u, o)
  <2>1. /\ o \in Mutex => lockCount'[o] = lockCount[o] /\ owner'[o] = owner[o]
        /\ o \in Semaphore => (available'[o] > 0 => available[o] > 0)
        /\ o \in Event => (signalled'[o] => signalled[o])
        /\ o \in Thread => (status'[o] = "Stopped" => status[o] = "Stopped")
    BY <1>1, <1>3
  <2> QED BY <1>3, <2>1, AcquireKept
<1>4. UNCHANGED <<exited, running, waitList, observers, fault, owner, lockCount, open>>
  BY <1>1
<1> QED BY <1>2, <1>3, <1>4 DEF CallEffect

(* A release of a mutex by its owner. *)
LEMMA ReleaseEffect ==
    ASSUME Inv, NEW m \in Mutex, lockCount[m] > 0, Release(m)
    PROVE  /\ \A x \in Mutex : owner'[x] \in {owner[x], None}
           /\ \A x \in Mutex : lockCount'[x] > 0 => lockCount[x] > 0 /\ owner'[x] = owner[x]
           /\ \A x \in Mutex : x # m => owner'[x] = owner[x] /\ lockCount'[x] = lockCount[x]
           /\ lockCount[m] # 1 => owner'[m] = owner[m] /\ lockCount'[m] > 0
           /\ lockCount[m] = 1 => owner'[m] = None /\ lockCount'[m] = 0
           /\ UNCHANGED <<available, signalled, timerAt, period>>
<1>1. /\ owner \in [Mutex -> Thread \cup {None}] /\ lockCount \in [Mutex -> Nat]
      /\ lockCount' = [lockCount EXCEPT ![m] = @ - 1]
      /\ owner' = IF lockCount[m] = 1 THEN [owner EXCEPT ![m] = None] ELSE owner
      /\ UNCHANGED <<available, signalled, timerAt, period>>
  BY DEF Inv, TypeOK, Release
<1>2. lockCount[m] \in Nat /\ lockCount'[m] = lockCount[m] - 1
  BY <1>1
<1>3. \A x \in Mutex : x # m => owner'[x] = owner[x] /\ lockCount'[x] = lockCount[x]
  BY <1>1
<1>4. lockCount[m] # 1 => owner'[m] = owner[m] /\ lockCount'[m] > 0
  BY <1>1, <1>2
<1>5. lockCount[m] = 1 => owner'[m] = None /\ lockCount'[m] = 0
  BY <1>1, <1>2
<1> QED BY <1>1, <1>2, <1>3, <1>4, <1>5

(* The calls that may release a mutex. *)
LEMMA ReleasingCalls ==
    ASSUME Inv, NEW t \in Thread, (SVCReleaseMutex(t) /\ fault' = "none") \/ SVCCloseHandle(t)
    PROVE  CallEffect(t)
<1>1. /\ UNCHANGED <<exited, running, waitList, observers, fault, status>> /\ open' \subseteq open
      /\ \/ /\ UNCHANGED objectVars /\ Return(t, Reschedule(t))
         \/ \E m \in Mutex : /\ lockCount[m] > 0 /\ Release(m)
                             /\ \/ Return(t, <<Task("notify", m, 0)>> \o Reschedule(t))
                                \/ lockCount[m] # 1 /\ Return(t, <<>> \o Reschedule(t))
  <2>1. CASE SVCReleaseMutex(t) /\ fault' = "none"
    <3>1. PICK m \in Mutex \cap open :
            /\ lockCount[m] > 0 /\ Release(m) /\ Return(t, OnRelease(m) \o Reschedule(t))
            /\ UNCHANGED <<threadVars, observers, queueVars, open, listed, exited, running, fault>>
      BY <2>1 DEF SVCReleaseMutex, Fail
    <3>2. \/ Return(t, <<Task("notify", m, 0)>> \o Reschedule(t))
          \/ lockCount[m] # 1 /\ Return(t, <<>> \o Reschedule(t))
      BY <3>1 DEF OnRelease
    <3> QED BY <3>1, <3>2 DEF threadVars
  <2>2. CASE SVCCloseHandle(t)
    <3>1. PICK o \in Closable \cap open :
            /\ open' = open \ {o}
            /\ IF o \in Mutex /\ lockCount[o] > 0 /\ owner[o] = t
               THEN Release(o) /\ Return(t, <<Task("notify", o, 0)>> \o Reschedule(t))
               ELSE UNCHANGED objectVars /\ Return(t, Reschedule(t))
      BY <2>2 DEF SVCCloseHandle
    <3>2. UNCHANGED <<exited, running, waitList, observers, fault, status>>
      BY <2>2 DEF SVCCloseHandle, threadVars
    <3> QED BY <3>1, <3>2
  <2> QED BY <2>1, <2>2
<1>2. CASE UNCHANGED objectVars /\ Return(t, Reschedule(t))
  <2>1. \A w \in Pending(todo') : w.op \in {"notify", "elapse", "rotate", "leave"}
    <3>1. t \in Object
      BY DEF Object
    <3> QED BY <1>2, <3>1, NotifyingCall
  <2>2. UNCHANGED <<owner, lockCount, available, signalled>>
    BY <1>2 DEF objectVars
  <2>3. ASSUME NEW o \in Object \ Timer, NEW u \in Thread, CanAcquire(u, o)' PROVE CanAcquire(u, o)
    BY <1>1, <2>2, <2>3, AcquireKept
  <2> QED BY <1>1, <2>1, <2>2, <2>3 DEF CallEffect
<1>3. ASSUME NEW m \in Mutex, lockCount[m] > 0, Release(m),
             \/ Return(t, <<Task("notify", m, 0)>> \o Reschedule(t))
             \/ lockCount[m] # 1 /\ Return(t, <<>> \o Reschedule(t))
      PROVE  CallEffect(t)
  <2>1. m \in Object
    BY DEF Object
  <2>2. /\ \A w \in Pending(todo') : w.op \in {"notify", "elapse", "rotate", "leave"}
        /\ lockCount[m] # 1 \/ Notifies(todo', m)
    BY <1>3, <2>1, NotifyingCall
  <2>3. /\ \A x \in Mutex : owner'[x] \in {owner[x], None}
        /\ \A x \in Mutex : lockCount'[x] > 0 => lockCount[x] > 0 /\ owner'[x] = owner[x]
        /\ \A x \in Mutex : x # m => owner'[x] = owner[x] /\ lockCount'[x] = lockCount[x]
        /\ lockCount[m] # 1 => owner'[m] = owner[m] /\ lockCount'[m] > 0
        /\ UNCHANGED <<available, signalled>>
    BY <1>3, ReleaseEffect
  <2>4. ASSUME NEW o \in Object \ Timer, NEW u \in Thread, CanAcquire(u, o)', ~CanAcquire(u, o)
        PROVE  Notifies(todo', o)
    <3>1. CASE o # m
      BY <1>1, <2>3, <2>4, <3>1, AcquireKept
    <3>2. CASE o = m /\ lockCount[m] # 1
      <4>1. m \notin Semaphore \cup Event \cup Timer \cup Thread
        BY KernelAssumption
      <4>2. lockCount'[m] \in Nat /\ lockCount[m] \in Nat
        <5>1. lockCount \in [Mutex -> Nat]
          BY DEF Inv, TypeOK
        <5>2. lockCount'[m] = lockCount[m] - 1
          BY <1>3, <5>1 DEF Release
        <5> QED BY <1>3, <5>1, <5>2
      <4>3. owner'[m] = u
        BY <2>3, <2>4, <3>2, <4>1, <4>2 DEF CanAcquire
      <4> QED BY <2>3, <2>4, <3>2, <4>3 DEF CanAcquire
    <3>3. CASE o = m /\ lockCount[m] = 1
      BY <2>2, <3>3
    <3> QED BY <3>1, <3>2, <3>3
  <2> QED BY <1>1, <2>2, <2>3, <2>4 DEF CallEffect
<1> QED BY <1>1, <1>2, <1>3

-----------------------------------------------------------------------------
(* The rest of the steps keep ExitInv.                                      *)

(* A thread that waits has not ended. *)
LEMMA ExitWait == ASSUME Inv, ExitInv, NEW t \in Thread, SVCWaitSynchronizationN(t) PROVE ExitInv'
<1>1. /\ InSVC(t) /\ UNCHANGED <<exited, running, owner, lockCount, open>>
      /\ Return(t, <<Task("try", t, 1)>>)
      /\ \E l : waitList' = [waitList EXCEPT ![t] = l]
  BY DEF SVCWaitSynchronizationN, objectVars
<1>2. \A u \in Thread \ {t} : waitList'[u] = waitList[u]
  <2>1. waitList \in [Thread -> Seq(Object)]
    BY DEF Inv, TypeOK
  <2> QED BY <1>1, <2>1
<1>3. \A w \in Pending(todo') : w.op # "exit"
  <2>1. PICK a : a = Task("try", t, 1)
    OBVIOUS
  <2>2. a \in GoodTask /\ a.op = "try" /\ Task("leave", t, 0).op = "leave"
    BY <2>1, TaskTypes
  <2>3. PICK s : s = <<a>>
    OBVIOUS
  <2>4. s \in Seq(GoodTask) /\ Pending(s) = {a} /\ Return(t, s)
    BY <1>1, <2>1, <2>2, <2>3, PendingTuples
  <2>5. Pending(todo') = Pending(s) \cup {Task("leave", t, 0)}
    BY <2>4, CallWork
  <2> QED BY <2>2, <2>4, <2>5
<1> QED BY <1>1, <1>2, <1>3, ExitCall

(* A call that ends the thread has all its mutexes before it. *)
LEMMA ExitSVCExit == ASSUME Inv, ExitInv, NEW t \in Thread, SVCExitThread(t) PROVE ExitInv'
<1>1. /\ InSVC(t) /\ UNCHANGED <<waitList, exited, running, owner, lockCount, open>>
      /\ Return(t, <<Task("exitMutexes", t, 1), Task("drop", t, 0),
                     Task("exit", t, 0), Task("notify", t, 0)>> \o Reschedule(t))
  BY DEF SVCExitThread, objectVars, threadVars
<1>2. PICK a, b, c, n : /\ a = Task("exitMutexes", t, 1) /\ b = Task("drop", t, 0)
                        /\ c = Task("exit", t, 0) /\ n = Task("notify", t, 0)
  OBVIOUS
<1>3. /\ a \in GoodTask /\ b \in GoodTask /\ c \in GoodTask /\ n \in GoodTask
      /\ a.op = "exitMutexes" /\ a.at = 1
  BY <1>2, TaskTypes DEF Object
<1>4. PICK s : s = <<a, b, c, n>>
  OBVIOUS
<1>5. s \in Seq(GoodTask) /\ Pending(s) = {a, b, c, n} /\ Return(t, s \o Reschedule(t))
  BY <1>1, <1>2, <1>3, <1>4, PendingTuples
<1>6. a \in Pending(todo')
  BY <1>5, CallWork
<1>7. t \notin exited /\ running = t /\ Ended /\ OwnersLive
  BY <1>1, CallerLives
<1>8. Ended' /\ EndedReturns' /\ OwnersLive'
  BY <1>1, <1>7 DEF Ended, EndedReturns, OwnersLive
<1>9. GivesUp'
  <2>1. \A k \in 1..Len(MutexSeq) : a.at <= k
    BY <1>3
  <2> QED BY <1>3, <1>6, <2>1 DEF GivesUp
<1> QED BY <1>8, <1>9 DEF ExitInv

(* The thread that tries to acquire objects has not ended and is not about *)
(* to.                                                                     *)
LEMMA TryLives ==
    ASSUME Inv, ExitInv, Doing("try")
    PROVE  /\ running \notin exited /\ Ended /\ OwnersLive
           /\ \A w \in Pending(todo) : w.op # "exit"
           /\ \A w \in Pending(Tail(todo)) : w.op # "exit" /\ w.op # "try"
           /\ Pending(todo) = {Head(todo)} \cup Pending(Tail(todo))
<1>1. fault = "none" /\ todo # <<>> /\ Head(todo).op = "try" /\ ~HasCalls(Tail(todo)) /\ ~HasTry(Tail(todo))
  BY TryHead DEF Doing
<1>2. Pending(todo) = {Head(todo)} \cup Pending(Tail(todo))
  BY <1>1, TailWork
<1>3. \A w \in Pending(Tail(todo)) : w.op # "exit" /\ w.op # "try"
  BY <1>1, PendingFacts DEF Calls
<1>4. Ended /\ OwnersLive /\ EndedReturns
  BY <1>1 DEF ExitInv
<1> QED BY <1>1, <1>2, <1>3, <1>4 DEF EndedReturns

(* An acquisition in the loop over a wait list. *)
LEMMA ExitTry == ASSUME Inv, ExitInv, Try PROVE ExitInv'
<1>1. Doing("try") /\ UNCHANGED <<open, exited, running>>
  BY DEF Try
<1>2. /\ running \notin exited /\ Ended /\ OwnersLive
      /\ \A w \in Pending(todo) : w.op # "exit"
      /\ \A w \in Pending(Tail(todo)) : w.op # "exit" /\ w.op # "try"
  BY <1>1, TryLives
<1>3. PICK t, k : t = Obj /\ k = At
  OBVIOUS
<1>4. todo # <<>> /\ t = running /\ t \in Thread /\ k + 1 \in Nat \ {0}
  BY <1>1, <1>3, TryHead
<1>5. PICK o : o = waitList[t][k]
  OBVIOUS
<1>6. /\ \/ UNCHANGED <<waitList, owner, lockCount>>
         \/ /\ \E l : waitList' = [waitList EXCEPT ![t] = l]
            /\ owner' = IF o \in Mutex THEN [owner EXCEPT ![o] = t] ELSE owner
            /\ lockCount' = IF o \in Mutex THEN [lockCount EXCEPT ![o] = @ + 1] ELSE lockCount
      /\ todo' = <<Task("try", t, k + 1)>> \o Tail(todo) \/ todo' = todo \/ todo' = <<Task("drop", t, 0)>> \o Tail(todo)
  BY <1>3, <1>5 DEF Try, Acquire, Then, objectVars
<1>7. /\ owner \in [Mutex -> Thread \cup {None}] /\ lockCount \in [Mutex -> Nat]
      /\ waitList \in [Thread -> Seq(Object)] /\ exited \subseteq Thread
  BY DEF Inv, TypeOK
<1>8. \A w \in Pending(todo') : w.op # "exit"
  <2>1. ASSUME NEW a \in GoodTask, a.op # "exit", todo' = <<a>> \o Tail(todo)
        PROVE  \A w \in Pending(todo') : w.op # "exit"
    <3>1. PICK ts : ts = <<a>>
      OBVIOUS
    <3>2. ts \in Seq(GoodTask) /\ Pending(ts) = {a}
      BY <3>1, PendingTuples
    <3>3. Pending(todo') = Pending(ts) \cup Pending(Tail(todo))
      BY <1>4, <2>1, <3>1, <3>2, ThenWork
    <3> QED BY <1>2, <2>1, <3>2, <3>3
  <2>2. PICK a, b : a = Task("try", t, k + 1) /\ b = Task("drop", t, 0)
    OBVIOUS
  <2>3. a \in GoodTask /\ b \in GoodTask /\ a.op # "exit" /\ b.op # "exit"
    BY <1>4, <2>2, TaskTypes
  <2> QED BY <1>2, <1>6, <2>1, <2>2, <2>3
<1>9. Ended'
  BY <1>1, <1>2, <1>4, <1>6, <1>7 DEF Ended
<1>10. EndedReturns'
  BY <1>1, <1>2 DEF EndedReturns
<1>11. OwnersLive'
  <2> SUFFICES ASSUME NEW m \in Mutex \cap open, lockCount'[m] > 0 PROVE owner'[m] \notin exited
    BY <1>1 DEF OwnersLive
  <2>1. \/ owner'[m] = owner[m] /\ lockCount'[m] = lockCount[m]
        \/ owner'[m] = t
    BY <1>6, <1>7
  <2> QED BY <1>2, <1>4, <2>1 DEF OwnersLive
<1>12. GivesUp'
  BY <1>8 DEF GivesUp
<1> QED BY <1>9, <1>10, <1>11, <1>12 DEF ExitInv

(* The end of that loop: the thread sleeps, or its call returns. *)
LEMMA ExitTryDone == ASSUME Inv, ExitInv, TryDone PROVE ExitInv'
<1>1. Doing("try") /\ UNCHANGED <<waitList, owner, lockCount, open, exited, running>>
  BY DEF TryDone, objectVars
<1>2. /\ running \notin exited /\ Ended /\ OwnersLive
      /\ \A w \in Pending(Tail(todo)) : w.op # "exit" /\ w.op # "try"
  BY <1>1, TryLives
<1>3. todo # <<>> /\ Obj \in Thread
  BY <1>1, TryHead
<1>4. \A w \in Pending(todo') : w.op # "exit"
  <2>1. CASE todo' = Tail(todo)
    BY <1>2, <2>1
  <2>2. CASE todo' = Reschedule(Obj) \o Tail(todo)
    <3>1. PICK ts : ts = Reschedule(Obj)
      OBVIOUS
    <3>2. ts \in Seq(GoodTask) /\ \A w \in Pending(ts) : w.op \in {"elapse", "rotate"}
      BY <1>3, <3>1, ReturnPending
    <3>3. Pending(todo') = Pending(ts) \cup Pending(Tail(todo))
      BY <1>3, <2>2, <3>1, <3>2, ThenWork
    <3> QED BY <1>2, <3>2, <3>3
  <2> QED BY <2>1, <2>2 DEF TryDone, Then, Done
<1>5. Ended' /\ EndedReturns' /\ OwnersLive'
  BY <1>1, <1>2 DEF Ended, EndedReturns, OwnersLive
<1>6. GivesUp'
  BY <1>4 DEF GivesUp
<1> QED BY <1>5, <1>6 DEF ExitInv

(* The loop over the mutexes passes only those that the thread gave up. *)
LEMMA ExitMutexesWork ==
    ASSUME Inv, ExitMutexes
    PROVE  /\ fault = "none" /\ todo # <<>> /\ Head(todo).op = "exitMutexes"
           /\ Obj = running /\ running \in Thread
           /\ Pending(todo) = {Head(todo)} \cup Pending(Tail(todo))
           /\ \A w \in Pending(Tail(todo)) : w.op # "try"
           /\ At \in Nat \ {0}
           /\ \/ /\ At > Len(MutexSeq) /\ UNCHANGED <<objectVars, fault>> /\ todo' = Tail(todo)
              \/ /\ fault' # "none" /\ UNCHANGED <<objectVars, todo>>
              \/ /\ At \in 1..Len(MutexSeq) /\ UNCHANGED <<objectVars, fault>>
                 /\ ~(MutexSeq[At] \in open /\ lockCount[MutexSeq[At]] > 0 /\ owner[MutexSeq[At]] = running)
                 /\ Pending(todo') = {Task("exitMutexes", running, At + 1)} \cup Pending(Tail(todo))
              \/ /\ At \in 1..Len(MutexSeq) /\ MutexSeq[At] \in Mutex \cap open
                 /\ lockCount[MutexSeq[At]] = 1 /\ Release(MutexSeq[At]) /\ fault' = fault
                 /\ Pending(todo') = {Task("notify", MutexSeq[At], 0), Task("exitMutexes", running, At + 1)}
                                        \cup Pending(Tail(todo))
<1>1. fault = "none" /\ todo # <<>> /\ Head(todo).op = "exitMutexes"
  BY DEF ExitMutexes, Doing
<1>2. AtRest /\ todo \in Seq(GoodTask)
  <2>1. Head(todo).op \notin Wakes \cup {"drop"}
    BY <1>1 DEF Wakes
  <2> QED BY <1>1, <2>1, HeadCases DEF Inv
<1>3. Head(todo).obj = running /\ running \in Thread /\ ~HasTry(Tail(todo)) /\ Head(todo) \in GoodTask
  BY <1>1, <1>2, RestsTail DEF AtRest, Calls
<1>4. At \in Nat \ {0} /\ At + 1 \in Nat \ {0} /\ Obj = running
  BY <1>1, <1>3 DEF GoodTask, At, Obj
<1>5. /\ Pending(todo) = {Head(todo)} \cup Pending(Tail(todo))
      /\ \A w \in Pending(Tail(todo)) : w.op # "try"
  BY <1>1, <1>3, TailWork, PendingFacts
<1>6. PICK k, r : k = At /\ r = running
  OBVIOUS
<1>7. PICK a, n, m : a = Task("exitMutexes", r, k + 1) /\ n = Task("notify", m, 0) /\ m = MutexSeq[k]
  OBVIOUS
<1>8. \/ /\ k > Len(MutexSeq) /\ UNCHANGED <<objectVars, fault>> /\ todo' = Tail(todo)
      \/ /\ fault' # "none" /\ UNCHANGED <<objectVars, todo>>
      \/ /\ k <= Len(MutexSeq) /\ UNCHANGED <<objectVars, fault>>
         /\ ~(m \in open /\ lockCount[m] > 0 /\ owner[m] = r) /\ todo' = <<a>> \o Tail(todo)
      \/ /\ k <= Len(MutexSeq) /\ m \in open /\ lockCount[m] = 1 /\ Release(m) /\ fault' = fault
         /\ todo' = <<n, a>> \o Tail(todo)
  BY <1>4, <1>6, <1>7 DEF ExitMutexes, Then, Done
<1>9. k <= Len(MutexSeq) => k \in 1..Len(MutexSeq) /\ m \in Mutex /\ m \in Object
  <2>1. MutexSeq \in Seq(Mutex) /\ Len(MutexSeq) \in Nat
    BY KernelAssumption, LenProperties
  <2>2. k <= Len(MutexSeq) => k \in 1..Len(MutexSeq)
    BY <1>4, <1>6, <2>1
  <2> QED BY <1>7, <2>1, <2>2, ElementOfSeq DEF Object
<1>10. a \in GoodTask /\ (m \in Object => n \in GoodTask)
  BY <1>3, <1>4, <1>6, <1>7, TaskTypes
<1>11. todo' = <<a>> \o Tail(todo) => Pending(todo') = {a} \cup Pending(Tail(todo))
  <2>1. PICK ts : ts = <<a>>
    OBVIOUS
  <2>2. ts \in Seq(GoodTask) /\ Pending(ts) = {a}
    BY <1>10, <2>1, PendingTuples
  <2> QED BY <1>1, <2>1, <2>2, ThenWork
<1>12. m \in Object /\ todo' = <<n, a>> \o Tail(todo) => Pending(todo') = {n, a} \cup Pending(Tail(todo))
  <2>1. PICK ts : ts = <<n, a>>
    OBVIOUS
  <2>2. m \in Object => ts \in Seq(GoodTask) /\ Pending(ts) = {n, a}
    BY <1>10, <2>1, PendingTuples
  <2> QED BY <1>1, <2>1, <2>2, ThenWork
<1> QED BY <1>1, <1>3, <1>4, <1>5, <1>6, <1>7, <1>8, <1>9, <1>11, <1>12

(* One iteration of the loop over the mutexes of a thread that ends. *)
LEMMA ExitExitMutexes == ASSUME Inv, ExitInv, ExitMutexes PROVE ExitInv'
<1>1. PICK k, m, q, r : k = At /\ m = MutexSeq[k] /\ q = Pending(Tail(todo)) /\ r = running
  OBVIOUS
<1>2. PICK a, n : a = Task("exitMutexes", r, k + 1) /\ n = Task("notify", m, 0)
  OBVIOUS
<1>3. a.op = "exitMutexes" /\ a.at = k + 1 /\ n.op = "notify"
  BY <1>2, TaskTypes
<1>4. /\ fault = "none" /\ todo # <<>> /\ Head(todo).op = "exitMutexes" /\ running = r /\ r \in Thread
      /\ Pending(todo) = {Head(todo)} \cup q /\ k \in Nat \ {0} /\ Head(todo).at = k
      /\ \/ /\ k > Len(MutexSeq) /\ UNCHANGED <<objectVars, fault>> /\ Pending(todo') = q
         \/ /\ fault' # "none" /\ UNCHANGED <<objectVars, todo>>
         \/ /\ k \in 1..Len(MutexSeq) /\ UNCHANGED <<objectVars, fault>>
            /\ ~(m \in open /\ lockCount[m] > 0 /\ owner[m] = r)
            /\ Pending(todo') = {a} \cup q
         \/ /\ k \in 1..Len(MutexSeq) /\ m \in Mutex \cap open
            /\ lockCount[m] = 1 /\ Release(m) /\ fault' = fault
            /\ Pending(todo') = {n, a} \cup q
  BY <1>1, <1>2, ExitMutexesWork DEF At
<1>5. Ended /\ EndedReturns /\ OwnersLive /\ GivesUp
  BY <1>4 DEF ExitInv
<1>6. UNCHANGED <<waitList, open, exited, running>>
  BY DEF ExitMutexes, threadVars
<1>7. Ended'
  BY <1>5, <1>6 DEF Ended
<1> SUFFICES ASSUME fault' = "none" PROVE EndedReturns' /\ OwnersLive' /\ GivesUp'
  BY <1>7 DEF ExitInv
<1>8. r \notin exited
  BY <1>4, <1>5 DEF EndedReturns
<1>9. \A x \in Mutex : \/ owner'[x] = owner[x] /\ lockCount'[x] = lockCount[x]
                       \/ x = m /\ owner'[x] = None /\ lockCount'[x] = 0
  BY <1>4, ReleaseEffect DEF objectVars
<1>10. OwnersLive'
  BY <1>5, <1>6, <1>9 DEF OwnersLive
<1>11. EndedReturns'
  BY <1>4, <1>6, <1>8 DEF EndedReturns
<1>12. GivesUp'
  <2> SUFFICES ASSUME NEW v \in Pending(todo'), v.op = "exit", NEW i \in 1..Len(MutexSeq),
                      MutexSeq[i] \in open, owner'[MutexSeq[i]] = r
               PROVE  \E w \in Pending(todo') : w.op = "exitMutexes" /\ w.at <= i
    BY <1>4, <1>6 DEF GivesUp
  <2>1. MutexSeq[i] \in Mutex /\ r # None
    BY <1>4, KernelAssumption, ElementOfSeq DEF Object
  <2>2. owner[MutexSeq[i]] = r /\ owner'[MutexSeq[i]] = owner[MutexSeq[i]]
    BY <1>9, <2>1
  <2>3. v \in Pending(todo)
    BY <1>3, <1>4
  <2>4. PICK w \in Pending(todo) : w.op = "exitMutexes" /\ w.at <= i
    BY <1>4, <1>5, <2>2, <2>3 DEF GivesUp
  <2>5. CASE w \in q
    BY <1>4, <2>4, <2>5
  <2>6. CASE w = Head(todo) /\ k < i
    <3>1. k + 1 <= i /\ ~(k > Len(MutexSeq))
      BY <1>4, <2>6, LenProperties, KernelAssumption
    <3> QED BY <1>3, <1>4, <3>1
  <2>7. CASE w = Head(todo) /\ k = i
    <3>1. m = MutexSeq[i] /\ lockCount[m] > 0
      <4>1. owner[m] # None /\ MutexInv
        BY <1>1, <2>1, <2>2, <2>7 DEF Inv
      <4> QED BY <1>1, <2>1, <2>7, <4>1 DEF MutexInv
    <3>2. owner'[m] = None
      BY <1>4, <2>2, <2>7, <3>1, ReleaseEffect
    <3> QED BY <2>1, <2>2, <3>1, <3>2
  <2> QED BY <1>4, <2>4, <2>5, <2>6, <2>7
<1> QED BY <1>10, <1>11, <1>12

(* The end of the thread: it gave up all its mutexes before. *)
LEMMA ExitExitThread == ASSUME Inv, ExitInv, ExitThread PROVE ExitInv'
<1>1. /\ fault = "none" /\ todo # <<>> /\ Head(todo).op = "exit" /\ todo' = Tail(todo)
      /\ exited' = exited \cup {Obj}
      /\ UNCHANGED <<waitList, owner, lockCount, open, running>>
  BY DEF ExitThread, Doing, Done, objectVars
<1>2. AtRest /\ todo \in Seq(GoodTask) /\ \A t \in Thread : Agree(t)
  <2>1. Head(todo).op \notin Wakes \cup {"drop"} /\ Head(todo).op \notin {"try", "drop"}
    BY <1>1 DEF Wakes
  <2> QED BY <1>1, <2>1, HeadCases DEF Inv
<1>3. /\ Obj = running /\ running \in Thread /\ status[running] = "Ready"
      /\ ~HasCalls(Tail(todo)) /\ Returns(Tail(todo)) /\ Tail(todo) \in Seq(GoodTask)
  BY <1>1, <1>2, RestsTail DEF AtRest, Calls, Obj
<1>4. /\ \A w \in Pending(todo') : w.op \notin {"try", "exitMutexes", "exit"}
      /\ \E w \in Pending(todo') : w.op = "leave"
  BY <1>1, <1>3, PendingFacts DEF Calls
<1>5. Pending(todo) = {Head(todo)} \cup Pending(todo')
  BY <1>1, TailWork
<1>6. Ended /\ EndedReturns /\ OwnersLive /\ GivesUp
  BY <1>1 DEF ExitInv
<1>7. Ended'
  BY <1>1, <1>2, <1>3, <1>6 DEF Ended, Agree
<1>8. EndedReturns'
  BY <1>4 DEF EndedReturns
<1>9. OwnersLive'
  <2> SUFFICES ASSUME NEW m \in Mutex \cap open, lockCount[m] > 0, owner[m] = running PROVE FALSE
    BY <1>1, <1>3, <1>6 DEF OwnersLive
  <2>1. PICK i \in 1..Len(MutexSeq) : MutexSeq[i] = m
    <3>1. MutexSeq \in Seq(Mutex) /\ m \in Range(MutexSeq)
      BY KernelAssumption DEF Mutex
    <3> QED BY <3>1, LenProperties DEF Range
  <2>2. PICK w \in Pending(todo) : w.op = "exitMutexes"
    BY <1>1, <1>5, <1>6, <2>1 DEF GivesUp
  <2> QED BY <1>1, <1>4, <1>5, <2>2
<1>10. GivesUp'
  BY <1>4 DEF GivesUp
<1> QED BY <1>7, <1>8, <1>9, <1>10 DEF ExitInv

(* No thread has ended in the initial states. *)
LEMMA ExitInit == ASSUME Init PROVE ExitInv
<1>1. exited = {} /\ todo = <<>> /\ waitList = [t \in Thread |-> <<>>] /\ lockCount = [m \in Mutex |-> 0]
  BY DEF Init
<1>2. Pending(todo) = {}
  BY <1>1, PendingTuples
<1> QED BY <1>1, <1>2 DEF ExitInv, Ended, EndedReturns, OwnersLive, GivesUp

(* Every step of the kernel keeps ExitInv. *)
LEMMA ExitNext == ASSUME Inv, ExitInv, [Next]_vars PROVE ExitInv'
<1>1. CASE KernelStep
  BY <1>1, ExitNeutral, ExitNotifyNext, ExitDropWake, ExitTry, ExitTryDone, ExitExitMutexes, ExitExitThread,
     ExitDispatch DEF KernelStep
<1>2. CASE \E d \in {0, 1} : Dispatch(d)
  BY <1>2, ExitDispatch
<1>3. ASSUME NEW t \in Thread, SystemCall(t) PROVE ExitInv'
  <2>1. InSVC(t)
    BY <1>3 DEF SystemCall, SVCCreateThread, SVCExitThread, SVCSleepThread, SVCWaitSynchronizationN, SVCReleaseMutex,
                SVCReleaseSemaphore, SVCSignalEvent, SVCClearEvent, SVCSetTimer, SVCCloseHandle, SVCGetSystemTick
  <2>2. CASE CallEffect(t)
    BY <2>1, <2>2, ExitCall DEF CallEffect
  <2>3. CASE SVCReleaseMutex(t) /\ fault' # "none"
    <3>1. UNCHANGED <<waitList, exited>>
      BY <2>3 DEF SVCReleaseMutex, Fail, threadVars
    <3> QED BY <2>3, <3>1 DEF ExitInv, Ended
  <2> QED BY <1>3, <2>2, <2>3, PlainCalls, SignallingCalls, ReleasingCalls, ExitWait, ExitSVCExit DEF SystemCall
<1>4. CASE UNCHANGED vars
  <2>1. UNCHANGED <<waitList, exited, owner, lockCount, running, fault, open, todo>>
    BY <1>4 DEF vars, threadVars, objectVars
  <2> QED BY <2>1, ExitKept
<1> QED BY <1>1, <1>2, <1>3, <1>4 DEF Next, Halted

(* A locked mutex of the handle table has an owner that has not ended, so  *)
(* that somebody can still release it: the loop of OS::ExitThread misses   *)
(* no mutex, whatever threads acquire while it runs.                       *)
THEOREM MutexOwnersLive == Spec => []MutexOwnerLives
<1>1. Init => ExitInv
  BY ExitInit
<1>2. Inv /\ ExitInv /\ [Next]_vars => ExitInv'
  BY ExitNext
<1>3. Inv /\ ExitInv => MutexOwnerLives
  BY DEF Inv, ExitInv, OwnersLive, MutexInv, MutexOwnerLives
<1> QED BY <1>1, <1>2, <1>3, Invariance, PTL DEF Spec

-----------------------------------------------------------------------------
(* No wake-up is lost.                                                      *)

(* The entries of one thread in a list follow each other. *)
Contiguous(q) ==
    \A i, j, k \in 1..Len(q) : i < j /\ j < k /\ q[i] = q[k] => q[j] = q[i]

(* The dispatcher is about to register, unregister or wake the thread t. *)
Busy(t) == /\ todo # <<>> /\ Head(todo).op \in {"try", "drop"} \cup Wakes
           /\ Head(todo).obj = t

(* Whoever could acquire what it waits for is told, or is about to see it. *)
Served ==
    \A o \in Object \ Timer, t \in Thread :
        Contains(observers[o], t) /\ CanAcquire(t, o) => Notifies(todo, o) \/ Busy(t)

(* Only a thread that is registered with a mutex several times waits for a *)
(* mutex that it owns, and then it is the next to acquire it again.        *)
OwnWait ==
    \A m \in Mutex, t \in Thread :
        owner[m] = t /\ Contains(observers[m], t) =>
            \/ Busy(t)
            \/ todo # <<>> /\ Head(todo).op = "notify" /\ Head(todo).obj = m /\ Head(observers[m]) = t

(* The loop over the wait list passes only what it could not acquire. *)
Tried ==
    todo # <<>> /\ Head(todo).op = "try" =>
        \A i \in 1..Len(waitList[Head(todo).obj]) :
            i < Head(todo).at => ~CanAcquire(Head(todo).obj, waitList[Head(todo).obj][i])

(* That loop is the first thing to do, if it is to be done at all. *)
TryFirst == todo # <<>> => \A w \in Pending(Tail(todo)) : w.op # "try"

WakeupInv == /\ \A o \in Object : Contiguous(observers[o])
             /\ fault = "none" => Served /\ OwnWait /\ Tried /\ TryFirst

(* Without one of its entries a list stays contiguous. *)
LEMMA ContiguousRemoveAt ==
    ASSUME NEW S, NEW q \in Seq(S), NEW n \in 1..Len(q), Contiguous(q)
    PROVE  Contiguous(RemoveAt(q, n))
<1>1. PICK r : r = RemoveAt(q, n)
  OBVIOUS
<1>2. /\ Len(r) = Len(q) - 1 /\ Len(q) \in Nat
      /\ \A i \in 1..(Len(q) - 1) : r[i] = IF i < n THEN q[i] ELSE q[i + 1]
  BY <1>1, RemoveAtProperties, LenProperties
<1> DEFINE f(i) == IF i < n THEN i ELSE i + 1
<1>3. \A i \in 1..Len(r) : f(i) \in 1..Len(q) /\ r[i] = q[f(i)]
  BY <1>2
<1>4. \A i, j \in 1..Len(r) : i < j => f(i) < f(j)
  BY <1>2
<1> HIDE DEF f
<1>5. Contiguous(r)
  <2> SUFFICES ASSUME NEW i \in 1..Len(r), NEW j \in 1..Len(r), NEW k \in 1..Len(r), i < j, j < k, r[i] = r[k]
               PROVE  r[j] = r[i]
    BY DEF Contiguous
  <2>1. f(i) < f(j) /\ f(j) < f(k)
    BY <1>4
  <2> QED BY <1>3, <2>1 DEF Contiguous
<1> QED BY <1>1, <1>5

(* Without the first entry of a thread it stays contiguous, too. *)
LEMMA ContiguousRemoveFirst ==
    ASSUME NEW S, NEW q \in Seq(S), NEW e, Contains(q, e), Contiguous(q)
    PROVE  /\ Contiguous(RemoveFirst(q, e))
           /\ \A x : Contains(RemoveFirst(q, e), x) => Contains(q, x)
<1> DEFINE I == {i \in 1..Len(q) : q[i] = e}
<1>1. I # {} /\ I \in SUBSET Nat /\ Len(q) \in Nat
  BY LenProperties DEF Contains
<1>2. Min(I) \in I
  <2> HIDE DEF I
  <2> QED BY <1>1, LeastIndex DEF Min
<1>3. PICK k : k = Min(I)
  OBVIOUS
<1>4. SelectInSeq(q, LAMBDA v : v = e) = k
  BY <1>1, <1>3 DEF SelectInSeq
<1>5. RemoveFirst(q, e) = RemoveAt(q, k)
  BY <1>1, <1>4 DEF RemoveFirst
<1>6. k \in 1..Len(q)
  BY <1>2, <1>3
<1>7. Contiguous(RemoveAt(q, k))
  BY <1>6, ContiguousRemoveAt
<1>8. /\ Len(RemoveAt(q, k)) = Len(q) - 1
      /\ \A i \in 1..(Len(q) - 1) : RemoveAt(q, k)[i] = IF i < k THEN q[i] ELSE q[i + 1]
  BY <1>6, RemoveAtProperties
<1>9. \A x : Contains(RemoveAt(q, k), x) => Contains(q, x)
  <2>1. \A i \in 1..(Len(q) - 1) : i \in 1..Len(q) /\ i + 1 \in 1..Len(q)
    BY <1>1
  <2> QED BY <1>8, <2>1 DEF Contains
<1> QED BY <1>5, <1>7, <1>9

(* If the first thread is listed again, it is listed second. *)
LEMMA ContiguousHead ==
    ASSUME NEW S, NEW q \in Seq(S), q # <<>>, Contiguous(q), Contains(Tail(q), Head(q))
    PROVE  Tail(q) # <<>> /\ Head(Tail(q)) = Head(q)
<1>1. PICK r, h : r = Tail(q) /\ h = Head(q)
  OBVIOUS
<1>2. /\ r \in Seq(S) /\ Len(q) \in Nat /\ Len(r) = Len(q) - 1 /\ h = q[1]
      /\ \A i \in 1..Len(r) : r[i] = q[i + 1]
  BY <1>1, HeadTailProperties, LenProperties, EmptySeq
<1>3. PICK i \in 1..Len(r) : r[i] = h
  BY <1>1 DEF Contains
<1>4. r # <<>> /\ 1 \in 1..Len(r) /\ Head(r) = r[1]
  <2>1. 1 \in 1..Len(r) /\ Len(r) > 0
    BY <1>2, <1>3
  <2> QED BY <1>2, <2>1, EmptySeq, HeadTailProperties
<1>5. q[2] = h
  <2>1. r[1] = q[2] /\ r[i] = q[i + 1] /\ 1 \in 1..Len(q) /\ 2 \in 1..Len(q) /\ i + 1 \in 1..Len(q)
    BY <1>2, <1>3, <1>4
  <2>2. CASE i = 1
    BY <1>3, <2>1, <2>2
  <2>3. CASE i # 1
    <3>1. 1 < 2 /\ 2 < i + 1 /\ q[1] = q[i + 1]
      BY <1>2, <1>3, <2>1, <2>3
    <3> QED BY <1>2, <2>1, <3>1 DEF Contiguous
  <2> QED BY <2>2, <2>3
<1>6. r[1] = q[1 + 1] /\ 1 + 1 = 2
  BY <1>2, <1>4
<1> QED BY <1>1, <1>4, <1>5, <1>6

(* A thread that is not listed may be added any number of times. *)
LEMMA ContiguousRepeat ==
    ASSUME NEW S, NEW q \in Seq(S), NEW t \in S, NEW n \in Nat, Contiguous(q), ~Contains(q, t)
    PROVE  /\ Contiguous(q \o [i \in 1..n |-> t])
           /\ \A x : Contains(q \o [i \in 1..n |-> t], x) /\ x # t => Contains(q, x)
<1> DEFINE b == [i \in 1..n |-> t]
           r == q \o b
           m == Len(q)
<1>1. b \in Seq(S) /\ Len(b) = n /\ \A i \in 1..n : b[i] = t
  OBVIOUS
<1> HIDE DEF b
<1>2. /\ r \in Seq(S) /\ Len(r) = m + Len(b)
      /\ \A i \in 1..(m + Len(b)) : r[i] = IF i <= m THEN q[i] ELSE b[i - m]
  BY <1>1, ConcatProperties
<1>3. m \in Nat /\ \A i \in 1..m : q[i] # t
  BY LenProperties DEF Contains
<1> HIDE DEF r
<1>4. Len(r) = m + n /\ \A i \in 1..(m + n) : r[i] = IF i <= m THEN q[i] ELSE t
  <2>1. ASSUME NEW i \in 1..(m + n), ~(i <= m) PROVE i - m \in 1..n
    BY <1>3, <2>1
  <2> QED BY <1>1, <1>2, <1>3, <2>1
<1>5. Contiguous(r)
  <2> SUFFICES ASSUME NEW i \in 1..Len(r), NEW j \in 1..Len(r), NEW k \in 1..Len(r), i < j, j < k, r[i] = r[k]
               PROVE  r[j] = r[i]
    BY DEF Contiguous
  <2>1. CASE k <= m
    <3>1. i \in 1..m /\ j \in 1..m /\ k \in 1..m /\ r[i] = q[i] /\ r[j] = q[j] /\ r[k] = q[k]
      BY <1>3, <1>4, <2>1
    <3> QED BY <3>1 DEF Contiguous, m
  <2>2. CASE ~(k <= m)
    <3>1. r[i] = t
      BY <1>4, <2>2
    <3>2. ~(i <= m)
      BY <1>3, <1>4, <3>1
    <3>3. ~(j <= m)
      BY <1>3, <3>2
    <3> QED BY <1>4, <3>1, <3>3
  <2> QED BY <2>1, <2>2
<1>6. ASSUME NEW x, Contains(r, x), x # t PROVE Contains(q, x)
  <2>1. PICK i \in 1..(m + n) : r[i] = x
    BY <1>4, <1>6 DEF Contains
  <2>2. i \in 1..m /\ q[i] = x
    BY <1>3, <1>4, <1>6, <2>1
  <2> QED BY <2>2 DEF Contains, m
<1> QED BY <1>5, <1>6 DEF r, b

(* Without a loop over a wait list there is nothing to say about it. *)
LEMMA NoTry ==
    ASSUME Inv', \A w \in Pending(todo') : w.op # "try"
    PROVE  Tried' /\ TryFirst'
<1>1. PICK p : p = todo'
  OBVIOUS
<1>2. p \in Seq(GoodTask)
  BY <1>1 DEF Inv
<1>3. p # <<>> => Pending(p) = {Head(p)} \cup Pending(Tail(p))
  BY <1>2, PendingTail
<1> QED BY <1>1, <1>3 DEF Tried, TryFirst

(* A step that neither registers nor wakes a thread, and notifies what it  *)
(* makes available.                                                        *)
LEMMA WakeupsKept ==
    ASSUME Inv', WakeupInv, fault = "none",
           todo = <<>> \/ Head(todo).op \notin {"try", "drop", "notify"} \cup Wakes,
           UNCHANGED observers, \A m \in Mutex : owner'[m] \in {owner[m], None},
           \A o \in Object \ Timer, u \in Thread :
               CanAcquire(u, o)' /\ ~CanAcquire(u, o) => Notifies(todo', o),
           \A w \in Pending(todo) : w.op = "notify" => w \in Pending(todo'),
           \A w \in Pending(todo') : w.op # "try"
    PROVE  WakeupInv'
<1>1. Served /\ OwnWait /\ \A o \in Object : Contiguous(observers[o])
  BY DEF WakeupInv
<1>2. \A t \in Thread : ~Busy(t)
  BY DEF Busy
<1>3. Served'
  <2> SUFFICES ASSUME NEW o \in Object \ Timer, NEW t \in Thread, Contains(observers[o], t), CanAcquire(t, o)'
               PROVE  Notifies(todo', o)
    BY DEF Served
  <2>1. CASE CanAcquire(t, o)
    <3>1. Notifies(todo, o)
      BY <1>1, <1>2, <2>1 DEF Served
    <3>2. PICK w \in Pending(todo) : w.op = "notify" /\ w.obj = o
      BY <3>1, PendingFacts
    <3> QED BY <3>2, PendingFacts
  <2>2. CASE ~CanAcquire(t, o)
    BY <2>2
  <2> QED BY <2>1, <2>2
<1>4. OwnWait'
  <2>1. ASSUME NEW m \in Mutex, NEW t \in Thread, owner'[m] = t, Contains(observers[m], t) PROVE FALSE
    <3>1. owner[m] = t
      BY <2>1, KernelAssumption DEF Object
    <3> QED BY <1>1, <1>2, <2>1, <3>1 DEF OwnWait
  <2> QED BY <2>1 DEF OwnWait
<1>5. Tried' /\ TryFirst'
  BY NoTry
<1>6. \A o \in Object : Contiguous(observers'[o])
  BY <1>1
<1> QED BY <1>3, <1>4, <1>5, <1>6 DEF WakeupInv

(* The loops of OS::ElapseTime. *)
LEMMA WakeupsNeutral ==
    ASSUME Inv, Inv', WakeupInv, Elapse \/ Timers \/ Rotate \/ Interrupt \/ Expire
    PROVE  WakeupInv'
<1>1. /\ fault = "none" /\ todo # <<>>
      /\ Head(todo).op \in {"elapse", "timers", "rotate", "interrupt", "expire"}
  BY DEF Elapse, Timers, Rotate, Interrupt, Expire, Doing
<1>2. Head(todo).op \notin {"try", "drop", "notify"} \cup Wakes
  BY <1>1 DEF Wakes
<1>3. WorkKept
  BY QuietWork, InterruptWork, ExpireWork
<1>4. /\ UNCHANGED <<observers, owner, lockCount, available, status>>
      /\ \A e \in Event : signalled'[e] # signalled[e] => Notifies(todo', e)
  <2>1. CASE Timers \/ Rotate
    BY <2>1 DEF Timers, Rotate, threadVars, objectVars, queueVars
  <2>2. CASE Elapse \/ Expire
    BY <2>2 DEF Elapse, Expire, threadVars, objectVars, queueVars
  <2>3. CASE Interrupt
    BY <2>3, InterruptWork DEF Interrupt, threadVars, objectVars, queueVars
  <2> QED BY <2>1, <2>2, <2>3
<1>5. ASSUME NEW o \in Object \ Timer, NEW u \in Thread, CanAcquire(u, o)', ~CanAcquire(u, o)
      PROVE  Notifies(todo', o)
  <2>1. CASE o \in Event /\ signalled'[o] # signalled[o]
    BY <1>4, <2>1
  <2>2. CASE ~(o \in Event /\ signalled'[o] # signalled[o])
    BY <1>4, <1>5, <2>2, AcquireKept
  <2> QED BY <2>1, <2>2
<1>6. \A w \in Pending(todo) : w.op = "notify" => w \in Pending(todo')
  BY <1>2, <1>3 DEF WorkKept
<1>7. \A m \in Mutex : owner'[m] \in {owner[m], None}
  BY <1>4
<1>8. \A w \in Pending(todo') : w.op # "try"
  BY <1>3 DEF WorkKept
<1> QED BY <1>1, <1>2, <1>4, <1>5, <1>6, <1>7, <1>8, WakeupsKept

(* The work of the dispatcher between the system calls. *)
LEMMA DispatchWork ==
    ASSUME Inv, Idle \/ Leave \/ \E d \in {0, 1} : Dispatch(d)
    PROVE  /\ fault = "none" /\ UNCHANGED <<observers, objectVars, status>>
           /\ todo = <<>> \/ Head(todo).op = "leave"
           /\ \A w \in Pending(todo) : w.op = "leave"
           /\ \A w \in Pending(todo') : w.op = "elapse"
<1>1. ASSUME NEW d PROVE Pending(<<Task("elapse", None, d)>>) = {Task("elapse", None, d)} /\ Task("elapse", None, d).op = "elapse"
  <2>1. PICK x : x = Task("elapse", None, d)
    OBVIOUS
  <2> QED BY <2>1, PendingTuples, TaskTypes
<1>2. Pending(<<>>) = {}
  BY PendingTuples
<1>3. CASE Leave
  <2>1. /\ fault = "none" /\ todo # <<>> /\ Head(todo).op = "leave" /\ todo' = Tail(todo)
        /\ UNCHANGED <<observers, objectVars, status>>
    BY <1>3 DEF Leave, Doing, Done, threadVars
  <2>2. AtRest
    BY <2>1, HeadCases DEF Wakes
  <2>3. todo' = <<>>
    BY <2>1, <2>2, RestsTail DEF AtRest, Inv
  <2>4. Pending(todo) = {Head(todo)} \cup Pending(Tail(todo))
    BY <2>1, TailWork
  <2> QED BY <1>2, <2>1, <2>3, <2>4
<1>4. CASE Idle
  <2>1. PICK n : n = IdleTicks
    OBVIOUS
  <2>2. /\ fault = "none" /\ todo = <<>> /\ todo' = <<Task("elapse", None, n)>>
        /\ UNCHANGED <<observers, objectVars, status>>
    BY <1>4, <2>1 DEF Idle, threadVars
  <2> QED BY <1>1, <1>2, <2>2
<1>5. ASSUME NEW d \in {0, 1}, Dispatch(d)
      PROVE  /\ fault = "none" /\ UNCHANGED <<observers, objectVars, status>> /\ todo = <<>>
             /\ \A w \in Pending(todo') : w.op = "elapse"
  <2>1. /\ todo' = <<Task("elapse", None, d)>> \/ todo' = <<>>
        /\ fault = "none" /\ UNCHANGED <<observers, objectVars, status>> /\ todo = <<>>
    BY <1>5 DEF Dispatch, threadVars
  <2> QED BY <1>1, <1>2, <2>1
<1> QED BY <1>2, <1>3, <1>4, <1>5

(* A thread is resumed only with nothing left to do. *)
LEMMA WakeupsDispatch ==
    ASSUME Inv, Inv', WakeupInv, Idle \/ Leave \/ \E d \in {0, 1} : Dispatch(d)
    PROVE  WakeupInv'
<1>1. /\ fault = "none" /\ UNCHANGED <<observers, objectVars, status>>
      /\ todo = <<>> \/ Head(todo).op = "leave"
      /\ \A w \in Pending(todo) : w.op = "leave"
      /\ \A w \in Pending(todo') : w.op = "elapse"
  BY DispatchWork
<1>2. UNCHANGED <<owner, lockCount, available, signalled>>
  BY <1>1 DEF objectVars
<1>3. ASSUME NEW o \in Object \ Timer, NEW u \in Thread, CanAcquire(u, o)' PROVE CanAcquire(u, o)
  BY <1>1, <1>2, <1>3, AcquireKept
<1>4. todo = <<>> \/ Head(todo).op \notin {"try", "drop", "notify"} \cup Wakes
  BY <1>1 DEF Wakes
<1>5. \A w \in Pending(todo) : w.op = "notify" => w \in Pending(todo')
  BY <1>1
<1>6. \A w \in Pending(todo') : w.op # "try"
  BY <1>1
<1>7. \A m \in Mutex : owner'[m] \in {owner[m], None}
  BY <1>2
<1> QED BY <1>1, <1>3, <1>4, <1>5, <1>6, <1>7, WakeupsKept

(* The system calls that do not wait. *)
LEMMA WakeupsCall ==
    ASSUME Inv', WakeupInv, NEW t \in Thread, InSVC(t), CallEffect(t)
    PROVE  WakeupInv'
<1>1. fault = "none" /\ todo = <<>>
  BY DEF InSVC
<1>2. Pending(todo) = {}
  BY <1>1, PendingTuples
<1>3. \A w \in Pending(todo') : w.op # "try"
  BY DEF CallEffect
<1>4. /\ UNCHANGED observers /\ \A m \in Mutex : owner'[m] \in {owner[m], None}
      /\ \A o \in Object \ Timer, u \in Thread : CanAcquire(u, o)' /\ ~CanAcquire(u, o) => Notifies(todo', o)
  BY DEF CallEffect
<1> QED BY <1>1, <1>2, <1>3, <1>4, WakeupsKept

(* The end of a thread: its mutexes and its observers are notified. *)
LEMMA WakeupsSVCExit ==
    ASSUME Inv, Inv', WakeupInv, NEW t \in Thread, SVCExitThread(t)
    PROVE  WakeupInv'
<1>1. /\ fault = "none" /\ todo = <<>> /\ UNCHANGED <<observers, owner, lockCount, available, signalled, status>>
      /\ Return(t, <<Task("exitMutexes", t, 1), Task("drop", t, 0),
                     Task("exit", t, 0), Task("notify", t, 0)>> \o Reschedule(t))
  BY DEF SVCExitThread, InSVC, objectVars, threadVars
<1>2. PICK a, b, c, n : /\ a = Task("exitMutexes", t, 1) /\ b = Task("drop", t, 0)
                        /\ c = Task("exit", t, 0) /\ n = Task("notify", t, 0)
  OBVIOUS
<1>3. /\ a \in GoodTask /\ b \in GoodTask /\ c \in GoodTask /\ n \in GoodTask
      /\ a.op # "try" /\ b.op # "try" /\ c.op # "try" /\ n.op # "try"
  BY <1>2, TaskTypes DEF Object
<1>4. PICK s : s = <<a, b, c, n>>
  OBVIOUS
<1>5. s \in Seq(GoodTask) /\ Pending(s) = {a, b, c, n} /\ Return(t, s \o Reschedule(t))
  BY <1>1, <1>2, <1>3, <1>4, PendingTuples
<1>6. \A w \in Pending(todo') : w \in Pending(s) \/ w.op \in {"elapse", "rotate", "leave"}
  BY <1>5, CallWork
<1>7. \A w \in Pending(todo') : w.op # "try"
  BY <1>3, <1>5, <1>6
<1>8. ASSUME NEW o \in Object \ Timer, NEW u \in Thread, CanAcquire(u, o)' PROVE CanAcquire(u, o)
  BY <1>1, <1>8, AcquireKept
<1>9. Pending(todo) = {} /\ \A m \in Mutex : owner'[m] \in {owner[m], None}
  BY <1>1, PendingTuples
<1> QED BY <1>1, <1>7, <1>8, <1>9, WakeupsKept

(* A mutex that is given up is notified. *)
LEMMA WakeupsExitMutexes == ASSUME Inv, Inv', WakeupInv, ExitMutexes PROVE WakeupInv'
<1>1. PICK k, m, q, r : k = At /\ m = MutexSeq[k] /\ q = Pending(Tail(todo)) /\ r = running
  OBVIOUS
<1>2. PICK a, n : a = Task("exitMutexes", r, k + 1) /\ n = Task("notify", m, 0)
  OBVIOUS
<1>3. a.op = "exitMutexes" /\ n.op = "notify" /\ n.obj = m
  BY <1>2, TaskTypes
<1>4. /\ fault = "none" /\ todo # <<>> /\ Head(todo).op = "exitMutexes"
      /\ Pending(todo) = {Head(todo)} \cup q /\ \A w \in q : w.op # "try"
      /\ \/ /\ UNCHANGED <<objectVars, fault>> /\ Pending(todo') = q
         \/ fault' # "none"
         \/ UNCHANGED <<objectVars, fault>> /\ Pending(todo') = {a} \cup q
         \/ /\ m \in Mutex /\ lockCount[m] = 1 /\ Release(m)
            /\ Pending(todo') = {n, a} \cup q
  BY <1>1, <1>2, ExitMutexesWork
<1>5. UNCHANGED <<observers, status>>
  BY DEF ExitMutexes, threadVars
<1>6. CASE fault' # "none"
  BY <1>5, <1>6 DEF WakeupInv
<1>7. CASE fault' = "none"
  <2>1. \A w \in Pending(todo') : w.op # "try"
    BY <1>3, <1>4, <1>7
  <2>2. \A w \in Pending(todo) : w.op = "notify" => w \in Pending(todo')
    BY <1>4, <1>7
  <2>3. Head(todo).op \notin {"try", "drop", "notify"} \cup Wakes
    BY <1>4 DEF Wakes
  <2>4. CASE UNCHANGED objectVars
    <3>1. UNCHANGED <<owner, lockCount, available, signalled>>
      BY <2>4 DEF objectVars
    <3>2. ASSUME NEW o \in Object \ Timer, NEW u \in Thread, CanAcquire(u, o)' PROVE CanAcquire(u, o)
      BY <1>5, <3>1, <3>2, AcquireKept
    <3>3. \A x \in Mutex : owner'[x] \in {owner[x], None}
      BY <3>1
    <3> QED BY <1>4, <1>5, <2>1, <2>2, <2>3, <3>2, <3>3, WakeupsKept
  <2>5. CASE m \in Mutex /\ lockCount[m] = 1 /\ Release(m) /\ Pending(todo') = {n, a} \cup q
    <3>1. /\ \A x \in Mutex : owner'[x] \in {owner[x], None}
          /\ \A x \in Mutex : x # m => owner'[x] = owner[x] /\ lockCount'[x] = lockCount[x]
          /\ UNCHANGED <<available, signalled>>
      BY <2>5, ReleaseEffect
    <3>2. Notifies(todo', m)
      BY <1>3, <2>5, PendingFacts
    <3>3. ASSUME NEW o \in Object \ Timer, NEW u \in Thread, CanAcquire(u, o)', o # m PROVE CanAcquire(u, o)
      BY <1>5, <3>1, <3>3, AcquireKept
    <3> QED BY <1>4, <1>5, <2>1, <2>2, <2>3, <3>1, <3>2, <3>3, WakeupsKept
  <2> QED BY <1>4, <1>7, <2>4, <2>5
<1> QED BY <1>6, <1>7

(* The end of the thread notifies those who wait for it. *)
LEMMA WakeupsExitThread == ASSUME Inv, Inv', WakeupInv, ExitThread PROVE WakeupInv'
<1>1. /\ fault = "none" /\ todo # <<>> /\ Head(todo).op = "exit" /\ todo' = Tail(todo)
      /\ status' = [status EXCEPT ![Obj] = "Stopped"]
      /\ UNCHANGED <<observers, owner, lockCount, available, signalled>>
  BY DEF ExitThread, Doing, Done, objectVars
<1>2. AtRest /\ todo \in Seq(GoodTask) /\ status \in [Thread -> Status]
  <2>1. Head(todo).op \notin Wakes \cup {"drop"}
    BY <1>1 DEF Wakes
  <2> QED BY <1>1, <2>1, HeadCases DEF Inv, TypeOK
<1>3. /\ Obj = running /\ running \in Thread /\ ~HasTry(Tail(todo)) /\ Notifies(Tail(todo), running)
  BY <1>1, <1>2, RestsTail DEF AtRest, Calls, Obj
<1>4. \A w \in Pending(todo') : w.op # "try"
  BY <1>1, <1>3, PendingFacts
<1>5. \A w \in Pending(todo) : w.op = "notify" => w \in Pending(todo')
  BY <1>1, TailWork
<1>6. Head(todo).op \notin {"try", "drop", "notify"} \cup Wakes
  BY <1>1 DEF Wakes
<1>7. ASSUME NEW o \in Object \ Timer, NEW u \in Thread, CanAcquire(u, o)', o # running PROVE CanAcquire(u, o)
  <2>1. o \in Thread => status'[o] = status[o]
    BY <1>1, <1>2, <1>3, <1>7
  <2> QED BY <1>1, <1>7, <2>1, AcquireKept
<1>8. \A m \in Mutex : owner'[m] \in {owner[m], None}
  BY <1>1
<1>9. Notifies(todo', running)
  BY <1>1, <1>3
<1> QED BY <1>1, <1>4, <1>5, <1>6, <1>7, <1>8, <1>9, WakeupsKept

(* The loop over the observers ends when nobody can acquire the object. *)
LEMMA WakeupsNotifyStop == ASSUME Inv, Inv', WakeupInv, NotifyStop PROVE WakeupInv'
<1>1. /\ fault = "none" /\ todo # <<>> /\ Head(todo).op = "notify" /\ todo' = Tail(todo)
      /\ UNCHANGED <<observers, owner, lockCount, available, signalled, status, fault>>
      /\ NotifyDone(Obj)
  BY DEF NotifyStop, Doing, Done, objectVars, threadVars
<1>2. WorkKept
  BY QuietWork
<1>3. /\ Served /\ OwnWait /\ \A o \in Object : Contiguous(observers[o])
      /\ \A t \in Thread : ~Busy(t)
  BY <1>1 DEF WakeupInv, Busy, Wakes
<1>4. PICK o : o = Obj
  OBVIOUS
<1>5. o = Head(todo).obj /\ o \in Object /\ observers \in [Object -> Seq(Thread)]
  <2>1. Head(todo) \in GoodTask
    BY <1>1, TailWork
  <2> QED BY <1>1, <1>4, <2>1 DEF Obj, GoodTask, Inv, TypeOK
<1>6. observers[o] # <<>> => Head(observers[o]) \in Thread /\ ~CanAcquire(Head(observers[o]), o)
  BY <1>1, <1>4, <1>5, ContainsTail DEF NotifyDone
<1>7. ASSUME NEW m \in Mutex, NEW t \in Thread, owner[m] = t, Contains(observers[m], t) PROVE FALSE
  <2>1. Head(todo).obj = m /\ Head(observers[m]) = t
    BY <1>3, <1>7 DEF OwnWait
  <2>2. CanAcquire(t, m)
    BY <1>7 DEF CanAcquire
  <2>3. observers[m] # <<>>
    BY <1>7 DEF Contains
  <2> QED BY <1>5, <1>6, <2>1, <2>2, <2>3
<1>8. ASSUME NEW t \in Thread, Contains(observers[o], t), CanAcquire(t, o), o \notin Timer PROVE FALSE
  <2>1. observers[o] # <<>>
    BY <1>8 DEF Contains
  <2>2. PICK h : h = Head(observers[o])
    OBVIOUS
  <2>3. h \in Thread /\ ~CanAcquire(h, o)
    BY <1>6, <2>1, <2>2
  <2>4. o \in Mutex /\ owner[o] = t
    BY <1>8, <2>3 DEF CanAcquire
  <2> QED BY <1>7, <1>8, <2>4
<1>9. Served'
  <2> SUFFICES ASSUME NEW x \in Object \ Timer, NEW t \in Thread, Contains(observers[x], t), CanAcquire(t, x)'
               PROVE  Notifies(todo', x)
    BY <1>1 DEF Served
  <2>1. CanAcquire(t, x)
    BY <1>1, AcquireKept
  <2>2. x # o
    BY <1>8, <2>1
  <2>3. PICK w \in Pending(todo) : w.op = "notify" /\ w.obj = x
    BY <1>3, <2>1, PendingFacts DEF Served
  <2>4. w \in Pending(todo')
    BY <1>2, <1>5, <2>2, <2>3 DEF WorkKept
  <2> QED BY <2>3, <2>4, PendingFacts
<1>10. OwnWait'
  BY <1>1, <1>7 DEF OwnWait
<1>11. Tried' /\ TryFirst'
  BY <1>2, NoTry DEF WorkKept
<1> QED BY <1>1, <1>3, <1>9, <1>10, <1>11 DEF WakeupInv

(* An acquisition lets nobody else acquire anything. *)
LEMMA AcquireEffect ==
    ASSUME Inv, NEW t \in Thread, NEW o \in Object, Acquire(t, o), UNCHANGED status
    PROVE  /\ \A x \in Object, u \in Thread :
                x # o => (CanAcquire(u, x)' <=> CanAcquire(u, x))
           /\ \A u \in Thread : u # t /\ o \notin Timer /\ CanAcquire(u, o)' => CanAcquire(u, o)
           /\ \A m \in Mutex : m # o => owner'[m] = owner[m]
           /\ o \in Mutex => owner'[o] = t
<1>1. /\ owner \in [Mutex -> Thread \cup {None}] /\ lockCount \in [Mutex -> Nat]
      /\ available \in [Semaphore -> 0..MaxAvailable] /\ signalled \in [Event -> BOOLEAN]
      /\ timerAt \in [Timer -> Nat \cup {Never}] /\ MaxAvailable \in Nat
  BY KernelAssumption DEF Inv, TypeOK
<1>2. /\ \A m \in Mutex : m # o => owner'[m] = owner[m] /\ lockCount'[m] = lockCount[m]
      /\ o \in Mutex => owner'[o] = t /\ lockCount'[o] = lockCount[o] + 1 /\ lockCount[o] \in Nat
  BY <1>1 DEF Acquire
<1>3. /\ \A s \in Semaphore : s # o => available'[s] = available[s]
      /\ o \in Semaphore => available'[o] = available[o] - 1 /\ available[o] \in Int
  BY <1>1 DEF Acquire
<1>4. /\ \A e \in Event : e # o => signalled'[e] = signalled[e]
      /\ o \in Event => (signalled'[o] => signalled[o])
  BY <1>1 DEF Acquire
<1>5. \A k \in Timer : k # o => timerAt'[k] = timerAt[k]
  BY <1>1 DEF Acquire
<1>6. \A x \in Object, u \in Thread : x # o => (CanAcquire(u, x)' <=> CanAcquire(u, x))
  BY <1>2, <1>3, <1>4, <1>5 DEF CanAcquire
<1>7. ASSUME NEW u \in Thread, u # t, o \notin Timer, CanAcquire(u, o)' PROVE CanAcquire(u, o)
  <2>1. CASE o \in Mutex
    <3>1. o \notin Semaphore \cup Event \cup Timer \cup Thread
      BY <2>1, KernelAssumption
    <3> QED BY <1>2, <1>7, <2>1, <3>1 DEF CanAcquire
  <2>2. CASE o \notin Mutex
    BY <1>3, <1>4, <1>7, <2>2 DEF CanAcquire
  <2> QED BY <2>1, <2>2
<1> QED BY <1>2, <1>6, <1>7

(* The registrations that an Unregister leaves. *)
LEMMA UnregisterEffect ==
    ASSUME Inv, WakeupInv, NEW t \in Thread, NEW o \in Object, Contains(observers[o], t),
           observers' = Unregister(o, t)
    PROVE  /\ \A x \in Object : Contiguous(observers'[x])
           /\ \A x \in Object : \A u : Contains(observers'[x], u) => Contains(observers[x], u)
           /\ \A x \in Object : x # o => observers'[x] = observers[x]
           /\ observers'[o] = RemoveFirst(observers[o], t)
<1>1. observers \in [Object -> Seq(Thread)] /\ \A x \in Object : Contiguous(observers[x])
  BY DEF Inv, TypeOK, WakeupInv
<1>2. /\ \A x \in Object : x # o => observers'[x] = observers[x]
      /\ observers'[o] = RemoveFirst(observers[o], t)
  BY <1>1 DEF Unregister
<1>3. PICK q : q = observers[o]
  OBVIOUS
<1>4. q \in Seq(Thread) /\ Contains(q, t) /\ Contiguous(q)
  BY <1>1, <1>3
<1>5. Contiguous(RemoveFirst(q, t)) /\ \A u : Contains(RemoveFirst(q, t), u) => Contains(q, u)
  BY <1>4, ContiguousRemoveFirst
<1> QED BY <1>1, <1>2, <1>3, <1>5

(* The front observer acquires the object; registered once more, it is     *)
(* again at the front.                                                     *)
LEMMA WakeupsNotifyNext == ASSUME Inv, Inv', WakeupInv, NotifyNext PROVE WakeupInv'
<1>1. PICK o, t : o = Obj /\ t = Head(observers[o])
  OBVIOUS
<1>2. /\ o \in Object /\ t \in Thread /\ observers[o] # <<>>
      /\ Contains(observers[o], t)
  BY <1>1, FrontObserver DEF NotifyNext
<1>3. /\ fault = "none" /\ todo # <<>> /\ Head(todo).op = "notify" /\ Head(todo).obj = o
      /\ UNCHANGED status /\ Acquire(t, o) /\ observers' = Unregister(o, t)
  BY <1>1 DEF NotifyNext, Doing, Obj
<1>4. /\ WorkKept /\ Pending(todo) \subseteq Pending(todo')
      /\ \/ todo' = todo
         \/ todo' # <<>> /\ Head(todo').op \in {"drop", "wakeFront"} /\ Head(todo').obj = t
  BY <1>1, NotifyNextWork
<1>5. /\ \A x \in Object : Contiguous(observers'[x])
      /\ \A x \in Object : \A u : Contains(observers'[x], u) => Contains(observers[x], u)
      /\ \A x \in Object : x # o => observers'[x] = observers[x]
      /\ observers'[o] = RemoveFirst(observers[o], t)
  BY <1>2, <1>3, UnregisterEffect
<1>6. /\ \A x \in Object \ Timer, u \in Thread : x # o => (CanAcquire(u, x)' <=> CanAcquire(u, x))
      /\ \A m \in Mutex : m # o => owner'[m] = owner[m]
      /\ o \in Mutex => owner'[o] = t
  BY <1>2, <1>3, AcquireEffect
<1>7. Served /\ OwnWait /\ \A u \in Thread : ~Busy(u)
  BY <1>3 DEF WakeupInv, Busy, Wakes
<1>8. Notifies(todo', o)
  <2>1. Head(todo) \in Pending(todo')
    BY <1>3, <1>4, TailWork
  <2> QED BY <1>3, <2>1, PendingFacts
<1>9. Served'
  <2> SUFFICES ASSUME NEW x \in Object \ Timer, NEW u \in Thread, Contains(observers'[x], u), CanAcquire(u, x)'
               PROVE  Notifies(todo', x)
    BY DEF Served
  <2>1. CASE x = o
    BY <1>8, <2>1
  <2>2. CASE x # o
    <3>1. Notifies(todo, x)
      BY <1>5, <1>6, <1>7, <2>2 DEF Served
    <3> QED BY <1>4, <3>1, PendingFacts
  <2> QED BY <2>1, <2>2
<1>10. OwnWait'
  <2> SUFFICES ASSUME NEW m \in Mutex, NEW u \in Thread, owner'[m] = u, Contains(observers'[m], u)
               PROVE  \/ Busy(u)'
                      \/ todo' # <<>> /\ Head(todo').op = "notify" /\ Head(todo').obj = m /\ Head(observers'[m]) = u
    BY DEF OwnWait
  <2>1. CASE m # o
    <3>1. m \in Object /\ owner[m] = u /\ Contains(observers[m], u)
      BY <1>5, <1>6, <2>1 DEF Object
    <3> QED BY <1>3, <1>7, <2>1, <3>1 DEF OwnWait
  <2>2. CASE m = o /\ todo' # todo
    BY <1>4, <1>6, <2>2 DEF Busy, Wakes
  <2>3. CASE m = o /\ todo' = todo
    <3>1. PICK q : q = observers[o]
      OBVIOUS
    <3>2. q \in Seq(Thread) /\ q # <<>> /\ Contiguous(q) /\ t = Head(q) /\ u = t
      BY <1>1, <1>2, <1>6, <2>3, <3>1 DEF Inv, TypeOK, WakeupInv
    <3>3. RemoveFirst(q, t) = Tail(q)
      BY <3>2, RemoveHead
    <3>4. Contains(Tail(q), Head(q))
      BY <1>5, <2>3, <3>1, <3>2, <3>3
    <3>5. Head(Tail(q)) = Head(q)
      BY <3>2, <3>4, ContiguousHead
    <3> QED BY <1>3, <1>5, <2>3, <3>1, <3>2, <3>3, <3>5
  <2> QED BY <2>1, <2>2, <2>3
<1>11. Tried' /\ TryFirst'
  BY <1>4, NoTry DEF WorkKept
<1> QED BY <1>5, <1>9, <1>10, <1>11 DEF WakeupInv

(* A thread that waits for nothing observes nothing. *)
LEMMA NotWaiting ==
    ASSUME Inv, NEW t \in Thread, waitList[t] = <<>>, NEW o \in Object
    PROVE  ~Contains(observers[o], t)
<1>1. Contains(observers[o], t) <=> Contains(waitList[t], o)
  BY ObserversWait DEF Inv
<1>2. ~Contains(<<>>, o)
  BY DEF Contains
<1> QED BY <1>1, <1>2

(* The work on a thread that waits for nothing any more comes to its end. *)
LEMMA WakeupsBusyDone ==
    ASSUME Inv, Inv', WakeupInv, fault = "none", todo # <<>>, NEW t \in Thread,
           Head(todo).op \in {"try", "drop"} \cup Wakes, Head(todo).obj = t, todo' = Tail(todo),
           waitList[t] = <<>>, UNCHANGED <<observers, owner, lockCount, available, signalled>>,
           \A u \in Thread : status'[u] = "Stopped" => status[u] = "Stopped"
    PROVE  WakeupInv'
<1>1. /\ Served /\ OwnWait /\ TryFirst /\ \A o \in Object : Contiguous(observers[o])
      /\ \A u \in Thread : u # t => ~Busy(u)
  BY DEF WakeupInv, Busy
<1>2. Head(todo).op # "notify" /\ Pending(todo) = {Head(todo)} \cup Pending(todo')
  BY TailWork DEF Wakes
<1>3. Served'
  <2> SUFFICES ASSUME NEW x \in Object \ Timer, NEW u \in Thread, Contains(observers[x], u), CanAcquire(u, x)'
               PROVE  Notifies(todo', x)
    BY DEF Served
  <2>1. u # t
    BY NotWaiting
  <2>2. CanAcquire(u, x)
    BY AcquireKept
  <2>3. PICK w \in Pending(todo) : w.op = "notify" /\ w.obj = x
    BY <1>1, <2>1, <2>2, PendingFacts DEF Served
  <2> QED BY <1>2, <2>3, PendingFacts
<1>4. OwnWait'
  <2>1. ASSUME NEW m \in Mutex, NEW u \in Thread, owner[m] = u, Contains(observers[m], u) PROVE FALSE
    <3>1. u # t
      BY <2>1, NotWaiting DEF Object
    <3> QED BY <1>1, <1>2, <2>1, <3>1 DEF OwnWait
  <2> QED BY <2>1 DEF OwnWait
<1>5. Tried' /\ TryFirst'
  BY <1>1, NoTry DEF TryFirst
<1> QED BY <1>1, <1>3, <1>4, <1>5 DEF WakeupInv

(* An Unregister takes the thread out of all lists. *)
LEMMA WakeupsDrop == ASSUME Inv, Inv', WakeupInv, Drop PROVE WakeupInv'
<1>1. PICK t : t = Obj
  OBVIOUS
<1>2. /\ fault = "none" /\ todo # <<>> /\ Head(todo).op = "drop" /\ Head(todo).obj = t
      /\ UNCHANGED <<status, owner, lockCount, available, signalled>>
  BY <1>1 DEF Drop, Doing, Obj, objectVars
<1>3. t \in Thread
  <2>1. Head(todo) \in GoodTask
    BY <1>2, TailWork
  <2> QED BY <1>2, <2>1 DEF GoodTask, Calls
<1>4. CASE waitList[t] = <<>>
  <2>1. todo' = Tail(todo) /\ UNCHANGED observers
    BY <1>1, <1>4 DEF Drop, Done
  <2> QED BY <1>2, <1>3, <1>4, <2>1, WakeupsBusyDone
<1>5. CASE waitList[t] # <<>>
  <2>1. PICK l : l = waitList[t]
    OBVIOUS
  <2>2. PICK o : o = Head(l)
    OBVIOUS
  <2>3. observers' = Unregister(o, t) /\ todo' = todo
    BY <1>1, <1>5, <2>1, <2>2 DEF Drop
  <2>4. o \in Object /\ Contains(l, o)
    <3>1. l \in Seq(Object) /\ l # <<>>
      BY <1>3, <1>5, <2>1 DEF Inv, TypeOK
    <3> QED BY <2>2, <3>1, ContainsTail
  <2>5. Contains(observers[o], t)
    BY <1>3, <2>1, <2>4, ObserversWait DEF Inv
  <2>6. /\ \A x \in Object : Contiguous(observers'[x])
        /\ \A x \in Object : \A u : Contains(observers'[x], u) => Contains(observers[x], u)
    BY <1>3, <2>3, <2>4, <2>5, UnregisterEffect
  <2>7. Served /\ OwnWait /\ TryFirst
    BY <1>2 DEF WakeupInv
  <2>8. \A u \in Thread : Busy(u) => Busy(u)'
    BY <2>3 DEF Busy
  <2>9. Served'
    <3> SUFFICES ASSUME NEW x \in Object \ Timer, NEW u \in Thread, Contains(observers'[x], u), CanAcquire(u, x)'
                 PROVE  Notifies(todo', x) \/ Busy(u)'
      BY DEF Served
    <3>1. CanAcquire(u, x)
      BY <1>2, AcquireKept
    <3> QED BY <2>3, <2>6, <2>7, <2>8, <3>1 DEF Served
  <2>10. OwnWait'
    <3> SUFFICES ASSUME NEW m \in Mutex, NEW u \in Thread, owner'[m] = u, Contains(observers'[m], u) PROVE Busy(u)'
      BY DEF OwnWait
    <3>1. m \in Object
      BY DEF Object
    <3> QED BY <1>2, <2>6, <2>7, <2>8, <3>1 DEF OwnWait
  <2>11. Tried' /\ TryFirst'
    BY <1>2, <2>3, <2>7 DEF Tried, TryFirst
  <2> QED BY <2>6, <2>9, <2>10, <2>11 DEF WakeupInv
<1> QED BY <1>4, <1>5

(* A woken thread waits for nothing. *)
LEMMA WakeupsWake == ASSUME Inv, Inv', WakeupInv, Wake PROVE WakeupInv'
<1>1. PICK t : t = Obj
  OBVIOUS
<1>2. /\ fault = "none" /\ todo # <<>> /\ Head(todo).op \in Wakes /\ Head(todo).obj = t
      /\ todo' = Tail(todo) /\ status' = [status EXCEPT ![t] = "Ready"]
      /\ UNCHANGED <<observers, owner, lockCount, available, signalled>>
  BY <1>1 DEF Wake, Doing, Wakes, Obj, Done, objectVars
<1>3. t \in Thread /\ waitList[t] = <<>> /\ status \in [Thread -> Status]
  <2>1. Head(todo) \in GoodTask /\ waitList[Head(todo).obj] = <<>>
    BY <1>2, HeadCases
  <2> QED BY <1>2, <2>1 DEF GoodTask, Inv, TypeOK
<1>4. \A u \in Thread : status'[u] = "Stopped" => status[u] = "Stopped"
  BY <1>2, <1>3
<1> QED BY <1>2, <1>3, <1>4, WakeupsBusyDone

(* A wait registers its thread before it looks at the objects. *)
LEMMA WakeupsWait ==
    ASSUME Inv, Inv', WakeupInv, NEW t \in Thread, SVCWaitSynchronizationN(t)
    PROVE  WakeupInv'
<1>1. /\ InSVC(t) /\ UNCHANGED <<status, owner, lockCount, available, signalled>>
      /\ todo' = <<Task("try", t, 1)>> \o <<Task("leave", t, 0)>>
  BY DEF SVCWaitSynchronizationN, objectVars, Return
<1>2. fault = "none" /\ todo = <<>> /\ waitList[t] = <<>>
  BY <1>1, CallState
<1>3. PICK objects : /\ objects \in Seq(Object)
                     /\ observers' = [o \in Object |-> observers[o] \o [i \in 1..Occurrences(objects, o) |-> t]]
  BY KernelAssumption DEF SVCWaitSynchronizationN
<1>4. ASSUME NEW o \in Object
      PROVE  /\ Contiguous(observers'[o])
             /\ \A u : Contains(observers'[o], u) /\ u # t => Contains(observers[o], u)
  <2>1. PICK q, n : q = observers[o] /\ n = Occurrences(objects, o)
    OBVIOUS
  <2>2. n \in Nat
    BY <1>3, <2>1, OccurrencesType
  <2>3. q \in Seq(Thread) /\ Contiguous(q) /\ ~Contains(q, t)
    BY <1>2, <2>1, NotWaiting DEF Inv, TypeOK, WakeupInv
  <2>4. observers'[o] = q \o [i \in 1..n |-> t]
    BY <1>3, <2>1
  <2>5. /\ Contiguous(q \o [i \in 1..n |-> t])
        /\ \A x : Contains(q \o [i \in 1..n |-> t], x) /\ x # t => Contains(q, x)
    BY <2>2, <2>3, ContiguousRepeat
  <2> QED BY <2>1, <2>4, <2>5
<1>5. PICK a, l : a = Task("try", t, 1) /\ l = <<Task("leave", t, 0)>>
  OBVIOUS
<1>6. a \in GoodTask /\ a.op = "try" /\ a.obj = t /\ a.at = 1 /\ l \in Seq(GoodTask)
  BY <1>5, TaskTypes, LeaveSettled
<1>7. todo' # <<>> /\ Head(todo') = a /\ Tail(todo') = l
  <2>1. l \in Seq(GoodTask)
    BY <1>6
  <2>2. <<a>> \o l # <<>> /\ Head(<<a>> \o l) = a /\ Tail(<<a>> \o l) = l
    BY <1>6, <2>1, ConsProperties
  <2> QED BY <1>1, <1>5, <2>2
<1>8. Busy(t)' /\ Served /\ OwnWait /\ (\A u \in Thread : ~Busy(u)) /\ \A o : ~Notifies(todo, o)
  BY <1>2, <1>6, <1>7, NothingSettled DEF WakeupInv, Busy
<1>9. Served'
  <2> SUFFICES ASSUME NEW x \in Object \ Timer, NEW u \in Thread, Contains(observers'[x], u), CanAcquire(u, x)', u # t
               PROVE  FALSE
    BY <1>8 DEF Served
  <2>1. CanAcquire(u, x) /\ Contains(observers[x], u)
    BY <1>1, <1>4, AcquireKept
  <2> QED BY <1>8, <2>1 DEF Served
<1>10. OwnWait'
  <2> SUFFICES ASSUME NEW m \in Mutex, NEW u \in Thread, owner'[m] = u, Contains(observers'[m], u), u # t
               PROVE  FALSE
    BY <1>8 DEF OwnWait
  <2>1. owner[m] = u /\ Contains(observers[m], u)
    BY <1>1, <1>4 DEF Object
  <2> QED BY <1>2, <1>8, <2>1 DEF OwnWait
<1>11. Tried'
  BY <1>6, <1>7 DEF Tried
<1>12. TryFirst'
  <2>1. \A w \in Pending(l) : w.op # "try"
    BY <1>5, LeaveSettled, PendingFacts
  <2> QED BY <1>7, <2>1 DEF TryFirst
<1> QED BY <1>4, <1>9, <1>10, <1>11, <1>12 DEF WakeupInv

(* After the loop the thread sleeps on what it could not acquire. *)
LEMMA WakeupsTryDone == ASSUME Inv, Inv', WakeupInv, TryDone PROVE WakeupInv'
<1>1. PICK t : t = Obj
  OBVIOUS
<1>2. /\ fault = "none" /\ todo # <<>> /\ Head(todo).op = "try" /\ Head(todo).obj = t
      /\ UNCHANGED <<waitList, observers, owner, lockCount, available, signalled>>
      /\ Doing("try") /\ Head(todo).at > Len(waitList[t])
  BY <1>1 DEF TryDone, Doing, Obj, At, objectVars
<1>3. t \in Thread /\ Head(todo).at \in Nat
  BY <1>1, <1>2, TryHead DEF At
<1>4. CASE waitList[t] = <<>>
  <2>1. todo' = Tail(todo) /\ UNCHANGED status
    BY <1>1, <1>4 DEF TryDone, Done
  <2> QED BY <1>2, <1>3, <1>4, <2>1, WakeupsBusyDone
<1>5. CASE waitList[t] # <<>>
  <2>1. todo' = Reschedule(t) \o Tail(todo) /\ status' = [status EXCEPT ![t] = "Sleeping"]
    BY <1>1, <1>5 DEF TryDone, Then
  <2>2. status \in [Thread -> Status] /\ waitList[t] \in Seq(Object)
    BY <1>3 DEF Inv, TypeOK
  <2>3. PICK ts : ts = Reschedule(t)
    OBVIOUS
  <2>4. ts \in Seq(GoodTask) /\ \A w \in Pending(ts) : w.op \in {"elapse", "rotate"}
    BY <1>3, <2>3, ReturnPending
  <2>5. Pending(todo') = Pending(ts) \cup Pending(Tail(todo)) /\ Pending(todo) = {Head(todo)} \cup Pending(Tail(todo))
    BY <1>2, <2>1, <2>3, <2>4, ThenWork, TailWork
  <2>6. /\ Served /\ OwnWait /\ Tried /\ TryFirst /\ \A o \in Object : Contiguous(observers[o])
        /\ \A u \in Thread : u # t => ~Busy(u)
    BY <1>2 DEF WakeupInv, Busy
  <2>7. ASSUME NEW o \in Object, Contains(observers[o], t) PROVE ~CanAcquire(t, o)
    <3>1. Contains(waitList[t], o)
      BY <1>3, <2>7, ObserversWait DEF Inv
    <3>2. PICK i \in 1..Len(waitList[t]) : waitList[t][i] = o
      BY <3>1 DEF Contains
    <3>3. i < Head(todo).at
      BY <1>2, <1>3, <2>2, LenProperties
    <3> QED BY <1>2, <2>6, <3>2, <3>3 DEF Tried
  <2>8. Served'
    <3> SUFFICES ASSUME NEW x \in Object \ Timer, NEW u \in Thread, Contains(observers[x], u), CanAcquire(u, x)'
                 PROVE  Notifies(todo', x)
      BY <1>2 DEF Served
    <3>1. CanAcquire(u, x)
      <4>1. x \in Thread => (status'[x] = "Stopped" => status[x] = "Stopped")
        BY <1>3, <2>1, <2>2
      <4> QED BY <1>2, <4>1, AcquireKept
    <3>2. u # t
      BY <2>7, <3>1
    <3>3. PICK w \in Pending(todo) : w.op = "notify" /\ w.obj = x
      BY <2>6, <3>1, <3>2, PendingFacts DEF Served
    <3> QED BY <1>2, <2>5, <3>3, PendingFacts
  <2>9. OwnWait'
    <3>1. ASSUME NEW m \in Mutex, NEW u \in Thread, owner[m] = u, Contains(observers[m], u) PROVE FALSE
      <4>1. CanAcquire(u, m) /\ m \in Object
        BY <3>1 DEF CanAcquire, Object
      <4>2. u # t
        BY <2>7, <3>1, <4>1
      <4> QED BY <1>2, <2>6, <3>1, <4>2 DEF OwnWait
    <3> QED BY <1>2, <3>1 DEF OwnWait
  <2>10. Tried' /\ TryFirst'
    <3>1. \A w \in Pending(todo') : w.op # "try"
      BY <1>2, <2>4, <2>5, <2>6 DEF TryFirst
    <3> QED BY <3>1, NoTry
  <2> QED BY <1>2, <2>6, <2>8, <2>9, <2>10 DEF WakeupInv
<1> QED BY <1>4, <1>5

(* One iteration of the loop: the object is passed, or acquired for good. *)
LEMMA WakeupsTry == ASSUME Inv, Inv', WakeupInv, Try PROVE WakeupInv'
<1>1. PICK t, k : t = Obj /\ k = At
  OBVIOUS
<1>2. PICK l : l = waitList[t]
  OBVIOUS
<1>3. PICK o : o = l[k]
  OBVIOUS
<1>4. /\ fault = "none" /\ todo # <<>> /\ Head(todo).op = "try" /\ Head(todo).obj = t /\ Head(todo).at = k
      /\ UNCHANGED status /\ Doing("try") /\ k <= Len(l)
      /\ \/ /\ ~CanAcquire(t, o) /\ todo' = <<Task("try", t, k + 1)>> \o Tail(todo)
            /\ UNCHANGED <<waitList, observers, owner, lockCount, available, signalled, timerAt>>
         \/ /\ CanAcquire(t, o) /\ Acquire(t, o) /\ observers' = Unregister(o, t)
            /\ waitList' = [waitList EXCEPT ![t] = RemoveAt(@, k)]
            /\ todo' = todo \/ todo' = <<Task("drop", t, 0)>> \o Tail(todo)
  BY <1>1, <1>2, <1>3 DEF Try, Doing, Obj, At, Then, objectVars
<1>5. t \in Thread /\ k \in Nat /\ k >= 1 /\ Tail(todo) \in Seq(GoodTask)
  BY <1>1, <1>4, TryHead
<1>6. l \in Seq(Object) /\ Len(l) \in Nat /\ k \in 1..Len(l) /\ o \in Object /\ Contains(observers[o], t)
  <2>1. l \in Seq(Object) /\ waitList \in [Thread -> Seq(Object)]
    BY <1>2, <1>5 DEF Inv, TypeOK
  <2>2. Len(l) \in Nat /\ k \in 1..Len(l)
    BY <1>4, <1>5, <2>1, LenProperties
  <2>3. o \in Object /\ Contains(l, o)
    BY <1>3, <2>1, <2>2, ElementOfSeq DEF Contains
  <2> QED BY <1>2, <1>5, <2>1, <2>2, <2>3, ObserversWait DEF Inv
<1>7. /\ Served /\ OwnWait /\ Tried /\ TryFirst /\ \A x \in Object : Contiguous(observers[x])
      /\ \A u \in Thread : u # t => ~Busy(u)
  BY <1>4 DEF WakeupInv, Busy
<1>8. Pending(todo) = {Head(todo)} \cup Pending(Tail(todo))
  BY <1>4, TailWork
<1>9. PICK a, b, q : a = Task("try", t, k + 1) /\ b = Task("drop", t, 0) /\ q = Tail(todo)
  OBVIOUS
<1>10. /\ a \in GoodTask /\ b \in GoodTask /\ q \in Seq(GoodTask) /\ a.op = "try" /\ b.op = "drop"
       /\ a.obj = t /\ b.obj = t /\ a.at = k + 1
  BY <1>5, <1>9, TaskTypes
<1>11. ASSUME NEW c \in GoodTask, todo' = <<c>> \o q
       PROVE  todo' # <<>> /\ Head(todo') = c /\ Tail(todo') = q
  <2>1. q \in Seq(GoodTask)
    BY <1>10
  <2> QED BY <1>11, <2>1, ConsProperties
<1>12. /\ todo' # <<>> /\ Tail(todo') = Tail(todo) /\ Busy(t)' /\ Head(todo').op \in {"try", "drop"}
       /\ \A w \in Pending(todo) : w.op = "notify" => w \in Pending(todo')
  <2>1. /\ todo' # <<>> /\ Tail(todo') = Tail(todo) /\ Head(todo').op \in {"try", "drop"} /\ Head(todo').obj = t
    BY <1>4, <1>9, <1>10, <1>11
  <2>2. Busy(t)'
    BY <2>1 DEF Busy
  <2>3. Pending(todo') = {Head(todo')} \cup Pending(Tail(todo'))
    <3>1. PICK p : p = todo'
      OBVIOUS
    <3>2. p \in Seq(GoodTask)
      BY <3>1 DEF Inv
    <3> QED BY <2>1, <3>1, <3>2, PendingTail
  <2> QED BY <1>4, <1>8, <2>1, <2>2, <2>3
<1>13. TryFirst'
  BY <1>4, <1>7, <1>12 DEF TryFirst
<1>14. CASE ~CanAcquire(t, o)
  <2>1. /\ UNCHANGED <<waitList, observers, owner, lockCount, available, signalled, timerAt>>
        /\ todo' = <<a>> \o q
    BY <1>4, <1>9, <1>14
  <2>2. \A x, u : CanAcquire(u, x)' <=> CanAcquire(u, x)
    BY <1>4, <2>1 DEF CanAcquire
  <2>3. Served'
    <3> SUFFICES ASSUME NEW x \in Object \ Timer, NEW u \in Thread, Contains(observers[x], u), CanAcquire(u, x), u # t
                 PROVE  Notifies(todo', x)
      BY <1>12, <2>1, <2>2 DEF Served
    <3>1. PICK w \in Pending(todo) : w.op = "notify" /\ w.obj = x
      BY <1>7, PendingFacts DEF Served
    <3> QED BY <1>12, <3>1, PendingFacts
  <2>4. OwnWait'
    <3> SUFFICES ASSUME NEW m \in Mutex, NEW u \in Thread, owner[m] = u, Contains(observers[m], u), u # t
                 PROVE  FALSE
      BY <1>12, <2>1 DEF OwnWait
    <3> QED BY <1>4, <1>7 DEF OwnWait
  <2>5. Tried'
    <3>1. Head(todo') = a
      BY <1>10, <1>11, <2>1
    <3> SUFFICES ASSUME NEW i \in 1..Len(l), i < k + 1 PROVE ~CanAcquire(t, l[i])
      BY <1>2, <1>10, <2>1, <2>2, <3>1 DEF Tried
    <3>2. CASE i = k
      BY <1>3, <1>14, <3>2
    <3>3. CASE i # k
      <4>1. i < k
        BY <1>5, <3>3
      <4> QED BY <1>2, <1>4, <1>7, <4>1 DEF Tried
    <3> QED BY <3>2, <3>3
  <2> QED BY <1>7, <1>13, <2>1, <2>3, <2>4, <2>5 DEF WakeupInv
<1>15. CASE CanAcquire(t, o)
  <2>1. /\ Acquire(t, o) /\ observers' = Unregister(o, t)
        /\ waitList' = [waitList EXCEPT ![t] = RemoveAt(@, k)]
        /\ todo' = todo \/ todo' = <<b>> \o q
    BY <1>4, <1>9, <1>15
  <2>2. /\ \A x \in Object : Contiguous(observers'[x])
        /\ \A x \in Object : \A u : Contains(observers'[x], u) => Contains(observers[x], u)
    BY <1>5, <1>6, <2>1, UnregisterEffect
  <2>3. /\ \A x \in Object, u \in Thread : x # o => (CanAcquire(u, x)' <=> CanAcquire(u, x))
        /\ \A u \in Thread : u # t /\ o \notin Timer /\ CanAcquire(u, o)' => CanAcquire(u, o)
        /\ \A m \in Mutex : m # o => owner'[m] = owner[m]
        /\ o \in Mutex => owner'[o] = t
    BY <1>4, <1>5, <1>6, <2>1, AcquireEffect
  <2>4. Served'
    <3> SUFFICES ASSUME NEW x \in Object \ Timer, NEW u \in Thread, Contains(observers'[x], u), CanAcquire(u, x)', u # t
                 PROVE  Notifies(todo', x)
      BY <1>12 DEF Served
    <3>1. CanAcquire(u, x) /\ Contains(observers[x], u)
      BY <2>2, <2>3
    <3>2. PICK w \in Pending(todo) : w.op = "notify" /\ w.obj = x
      BY <1>7, <3>1, PendingFacts DEF Served
    <3> QED BY <1>12, <3>2, PendingFacts
  <2>5. OwnWait'
    <3> SUFFICES ASSUME NEW m \in Mutex, NEW u \in Thread, owner'[m] = u, Contains(observers'[m], u), u # t
                 PROVE  FALSE
      BY <1>12 DEF OwnWait
    <3>1. owner[m] = u /\ Contains(observers[m], u)
      BY <2>2, <2>3 DEF Object
    <3> QED BY <1>4, <1>7, <3>1 DEF OwnWait
  <2>6. Tried'
    <3>1. CASE todo' = <<b>> \o q
      <4>1. Head(todo').op # "try"
        BY <1>10, <1>11, <3>1
      <4> QED BY <4>1 DEF Tried
    <3>2. CASE todo' = todo
      <4>1. PICK r : r = RemoveAt(l, k)
        OBVIOUS
      <4>2. /\ waitList'[t] = r
            /\ Len(r) = Len(l) - 1 /\ \A i \in 1..(Len(l) - 1) : r[i] = IF i < k THEN l[i] ELSE l[i + 1]
        <5>1. waitList \in [Thread -> Seq(Object)]
          BY DEF Inv, TypeOK
        <5>2. waitList'[t] = r
          BY <1>2, <1>5, <2>1, <4>1, <5>1
        <5> QED BY <1>6, <4>1, <5>2, RemoveAtProperties
      <4> SUFFICES ASSUME NEW i \in 1..Len(r), i < k PROVE ~CanAcquire(t, r[i])'
        BY <1>4, <3>2, <4>2 DEF Tried
      <4>3. i \in 1..Len(l) /\ r[i] = l[i]
        BY <1>6, <4>2
      <4>4. ~CanAcquire(t, l[i])
        BY <1>2, <1>4, <1>7, <4>3 DEF Tried
      <4>5. l[i] # o /\ l[i] \in Object
        BY <1>6, <1>15, <4>3, <4>4, ElementOfSeq
      <4>6. PICK x : x = l[i]
        OBVIOUS
      <4>7. ~CanAcquire(t, x)'
        BY <1>5, <2>3, <4>4, <4>5, <4>6
      <4> QED BY <4>3, <4>6, <4>7
    <3> QED BY <2>1, <3>1, <3>2
  <2> QED BY <1>13, <2>2, <2>4, <2>5, <2>6 DEF WakeupInv
<1> QED BY <1>14, <1>15

(* Nobody waits in the initial states. *)
LEMMA WakeupsInit == ASSUME Init PROVE WakeupInv
<1>1. todo = <<>> /\ observers = [o \in Object |-> <<>>]
  BY DEF Init
<1>2. Contiguous(<<>>) /\ \A u : ~Contains(<<>>, u)
  BY DEF Contiguous, Contains
<1>3. \A o \in Object : observers[o] = <<>>
  BY <1>1
<1>4. Served
  BY <1>2, <1>3 DEF Served
<1>5. OwnWait
  <2>1. \A m \in Mutex : m \in Object
    BY DEF Object
  <2> QED BY <1>2, <1>3, <2>1 DEF OwnWait
<1>6. Tried /\ TryFirst
  BY <1>1 DEF Tried, TryFirst
<1> QED BY <1>2, <1>3, <1>4, <1>5, <1>6 DEF WakeupInv

(* A stuttering step keeps the invariant. *)
LEMMA WakeupsStutter == ASSUME WakeupInv, UNCHANGED vars PROVE WakeupInv'
<1>1. UNCHANGED <<waitList, observers, owner, lockCount, available, signalled, timerAt, status, todo, fault>>
  BY DEF vars, threadVars, objectVars
<1>2. /\ \A x, u : CanAcquire(u, x)' <=> CanAcquire(u, x)
      /\ \A u : Busy(u)' <=> Busy(u)
  BY <1>1 DEF CanAcquire, Busy
<1>3. Served => Served'
  BY <1>1, <1>2 DEF Served
<1>4. OwnWait => OwnWait'
  BY <1>1, <1>2 DEF OwnWait
<1>5. (Tried => Tried') /\ (TryFirst => TryFirst')
  BY <1>1, <1>2 DEF Tried, TryFirst
<1> QED BY <1>1, <1>3, <1>4, <1>5 DEF WakeupInv

(* Every step of the kernel keeps WakeupInv. *)
LEMMA WakeupsNext == ASSUME Inv, Inv', WakeupInv, [Next]_vars PROVE WakeupInv'
<1>1. CASE KernelStep
  BY <1>1, WakeupsNotifyStop, WakeupsNotifyNext, WakeupsDrop, WakeupsWake, WakeupsNeutral, WakeupsTry, WakeupsTryDone,
     WakeupsExitMutexes, WakeupsExitThread, WakeupsDispatch DEF KernelStep
<1>2. CASE \E d \in {0, 1} : Dispatch(d)
  BY <1>2, WakeupsDispatch
<1>3. ASSUME NEW t \in Thread, SystemCall(t) PROVE WakeupInv'
  <2>1. InSVC(t)
    BY <1>3 DEF SystemCall, SVCCreateThread, SVCExitThread, SVCSleepThread, SVCWaitSynchronizationN, SVCReleaseMutex,
                SVCReleaseSemaphore, SVCSignalEvent, SVCClearEvent, SVCSetTimer, SVCCloseHandle, SVCGetSystemTick
  <2>2. CASE CallEffect(t)
    BY <2>1, <2>2, WakeupsCall
  <2>3. CASE SVCReleaseMutex(t) /\ fault' # "none"
    <3>1. UNCHANGED observers
      BY <2>3 DEF SVCReleaseMutex, Fail
    <3> QED BY <2>3, <3>1 DEF WakeupInv
  <2> QED BY <1>3, <2>2, <2>3, PlainCalls, SignallingCalls, ReleasingCalls, WakeupsWait, WakeupsSVCExit DEF SystemCall
<1>4. CASE UNCHANGED vars
  BY <1>4, WakeupsStutter
<1> QED BY <1>1, <1>2, <1>3, <1>4 DEF Next, Halted

(* No lost wake-up: whenever the dispatcher goes on to the next thread, no *)
(* thread is registered with a mutex, semaphore, event or thread that it   *)
(* could acquire, whatever happened while its wait was set up, while the   *)
(* observers of an object were told or while a thread ended.               *)
THEOREM NoWakeupLost == Spec => []NoLostWakeup
<1>1. Init => WakeupInv
  BY WakeupsInit
<1>2. Inv /\ Inv' /\ WakeupInv /\ [Next]_vars => WakeupInv'
  BY WakeupsNext
<1>3. Inv /\ WakeupInv => NoLostWakeup
  <2> SUFFICES ASSUME Inv, WakeupInv, todo = <<>>, fault = "none", NEW o \in Object \ Timer, NEW t \in Range(observers[o]),
                      CanAcquire(t, o)
               PROVE  FALSE
    BY DEF NoLostWakeup
  <2>1. observers[o] \in Seq(Thread)
    BY DEF Inv, TypeOK
  <2>2. t \in Thread /\ Contains(observers[o], t)
    BY <2>1, LenProperties, ElementOfSeq DEF Range, Contains
  <2>3. ~Notifies(todo, o) /\ ~Busy(t)
    BY NothingSettled DEF Busy
  <2> QED BY <2>2, <2>3 DEF WakeupInv, Served
<1> QED BY <1>1, <1>2, <1>3, Invariance, PTL DEF Spec

-----------------------------------------------------------------------------
(* The threads that exist.                                                  *)

(* A thread that has been created is listed by its process until it ends;  *)
(* one that has not is unknown to the scheduler: nothing waits, runs, owns *)
(* a mutex or is woken up before SVCCreateThread.                          *)
Living ==
    \A t \in Thread :
        /\ status[t] = "Stopped" => t \in exited
        /\ status[t] # "Uncreated" => t \in listed \cup exited
        /\ status[t] = "Uncreated" =>
             waitList[t] = <<>> /\ running # t /\ ~Contains(waitingQueue, t)
OwnersCreated == \A m \in Mutex : owner[m] # None => status[owner[m]] # "Uncreated"
WakesCreated == \A w \in Pending(todo) : w.op \in Wakes => status[w.obj] # "Uncreated"
LifeInv == Living /\ OwnersCreated /\ WakesCreated

(* The mutexes that the dispatcher is going to look at are in the handle   *)
(* table, or their owners have not ended and are not about to.             *)
Tries(q) == \E w \in Pending(q) : w.op = "try"
Exits(q) == \E w \in Pending(q) : w.op = "exit"
TriesOpen ==
    Tries(todo) => running \in Thread /\ \A m \in Mutex \ open : ~Contains(waitList[running], m)
NotifiesOwned ==
    \A w \in Pending(todo) : w.op = "notify" /\ w.obj \in Mutex =>
        w.obj \in open \/ (owner[w.obj] \notin exited /\ ~Exits(todo))
ReachInv == fault = "none" => TriesOpen /\ NotifiesOwned

(* Without timeouts nobody is in waiting_queue but the threads that        *)
(* SVCSleepThread put there, once each, and a thread that has ended stays  *)
(* so.                                                                     *)
EndedStopped == \A t \in exited : status[t] = "Stopped"
QueueSleeps == \A t \in Thread : Contains(waitingQueue, t) => status[t] = "WaitingForTimeout"
WakesWaiting == \A w \in Pending(todo) : w.op \in Wakes => ~Contains(waitingQueue, w.obj) /\ w.obj \notin exited
TriesUntimed == Tries(todo) => running \in Thread /\ timeoutAt[running] = Never
FinalInv == EndedStopped /\ QueueSleeps /\ Distinct(waitingQueue) /\ WakesWaiting /\ TriesUntimed

-----------------------------------------------------------------------------
(* The tasks that a step adds.                                              *)

(* What the loops of the dispatcher add belongs to no system call, and     *)
(* notifies timers and events.                                             *)
LEMMA QuietNew ==
    ASSUME Inv, NotifyStop \/ Elapse \/ Timers \/ Rotate \/ Interrupt
    PROVE  \A w \in Pending(todo') :
              w \in Pending(todo) \/ (w.op \in Neutral /\ (w.op = "notify" => w.obj \notin Mutex))
<1>1. fault = "none" /\ todo # <<>> /\ Head(todo).op \in Neutral
  BY DEF NotifyStop, Elapse, Timers, Rotate, Interrupt, Doing, Neutral
<1>2. Head(todo) \in GoodTask /\ Pending(todo) = {Head(todo)} \cup Pending(Tail(todo))
  BY <1>1, TailWork
<1>3. CASE todo' = Tail(todo)
  BY <1>2, <1>3
<1>4. ASSUME NEW ts \in Seq(GoodTask), todo' = ts \o Tail(todo),
             \A w \in Pending(ts) : w.op \in Neutral /\ (w.op = "notify" => w.obj \notin Mutex)
      PROVE  \A w \in Pending(todo') :
                w \in Pending(todo) \/ (w.op \in Neutral /\ (w.op = "notify" => w.obj \notin Mutex))
  BY <1>1, <1>2, <1>4, ThenWork
<1>5. CASE Elapse
  <2>1. PICK a, b, c : a = Task("timers", None, 1) /\ b = Task("interrupt", None, 1) /\ c = Task("expire", None, 1)
    OBVIOUS
  <2>2. /\ a \in GoodTask /\ b \in GoodTask /\ c \in GoodTask
        /\ a.op = "timers" /\ b.op = "interrupt" /\ c.op = "expire"
    BY <2>1, TaskTypes
  <2>3. PICK ts : ts \in {<<a, c>>, <<a, b, c>>} /\ todo' = ts \o Tail(todo)
    BY <1>5, <2>1 DEF Elapse, Then
  <2>4. ts \in Seq(GoodTask) /\ \A w \in Pending(ts) : w \in {a, b, c}
    BY <2>2, <2>3, PendingTuples
  <2>5. \A w \in Pending(ts) : w.op \in Neutral /\ w.op # "notify"
    BY <2>2, <2>4 DEF Neutral
  <2> QED BY <1>4, <2>3, <2>4, <2>5
<1>6. CASE Timers /\ todo' # Tail(todo)
  <2>1. PICK k : k = At
    OBVIOUS
  <2>2. k \in Nat \ {0} /\ k + 1 \in Nat \ {0}
    BY <1>2, <1>6, <2>1 DEF Timers, Doing, At, GoodTask
  <2>3. PICK a, b : a = Task("timers", None, k + 1) /\ b = Task("notify", TimerSeq[k], 0)
    OBVIOUS
  <2>4. PICK s : s = (IF timerAt[TimerSeq[k]] = 0 THEN <<b>> ELSE <<>>)
    OBVIOUS
  <2>5. todo' = (s \o <<a>>) \o Tail(todo) /\ k <= Len(TimerSeq)
    BY <1>6, <2>1, <2>3, <2>4 DEF Timers, Then, Done
  <2>6. TimerSeq[k] \in Timer
    <3>1. TimerSeq \in Seq(Timer) /\ Len(TimerSeq) \in Nat
      BY KernelAssumption, LenProperties
    <3>2. k \in 1..Len(TimerSeq)
      BY <2>2, <2>5, <3>1
    <3> QED BY <3>1, <3>2, ElementOfSeq
  <2>7. TimerSeq[k] \in Object /\ TimerSeq[k] \notin Mutex
    BY <2>6, KernelAssumption DEF Object
  <2>8. a \in GoodTask /\ b \in GoodTask /\ a.op = "timers" /\ b.op = "notify" /\ b.obj = TimerSeq[k]
    BY <2>2, <2>3, <2>7, TaskTypes
  <2>9. PICK e : e = <<a>>
    OBVIOUS
  <2>10. s \in Seq(GoodTask) /\ e \in Seq(GoodTask)
    BY <2>4, <2>8, <2>9
  <2>11. Pending(s) \subseteq {b} /\ Pending(e) = {a}
    BY <2>4, <2>9, PendingTuples
  <2>12. PICK ts : ts = s \o e
    OBVIOUS
  <2>13. ts \in Seq(GoodTask) /\ \A w \in Pending(ts) : w \in {a, b}
    BY <2>10, <2>11, <2>12, PendingConcat
  <2>14. \A w \in Pending(ts) : w.op \in Neutral /\ (w.op = "notify" => w.obj \notin Mutex)
    BY <2>7, <2>8, <2>13 DEF Neutral
  <2> QED BY <1>4, <2>5, <2>9, <2>12, <2>13, <2>14
<1>7. CASE Interrupt /\ todo' # Tail(todo)
  <2>1. PICK k : k = At
    OBVIOUS
  <2>2. k \in Nat \ {0} /\ k + 1 \in Nat \ {0}
    BY <1>2, <1>7, <2>1 DEF Interrupt, Doing, At, GoodTask
  <2>3. PICK a, b : a = Task("interrupt", None, k + 1) /\ b = Task("notify", VBlankSeq[k], 0)
    OBVIOUS
  <2>4. todo' = <<b, a>> \o Tail(todo) /\ k <= Len(VBlankSeq)
    BY <1>7, <2>1, <2>3 DEF Interrupt, Then, Done
  <2>5. VBlankSeq[k] \in Event
    <3>1. VBlankSeq \in Seq(Event) /\ Len(VBlankSeq) \in Nat
      BY KernelAssumption, LenProperties
    <3>2. k \in 1..Len(VBlankSeq)
      BY <2>2, <2>4, <3>1
    <3> QED BY <3>1, <3>2, ElementOfSeq
  <2>6. VBlankSeq[k] \in Object /\ VBlankSeq[k] \notin Mutex
    BY <2>5, KernelAssumption DEF Object
  <2>7. a \in GoodTask /\ b \in GoodTask /\ a.op = "interrupt" /\ b.op = "notify" /\ b.obj = VBlankSeq[k]
    BY <2>2, <2>3, <2>6, TaskTypes
  <2>8. PICK ts : ts = <<b, a>>
    OBVIOUS
  <2>9. ts \in Seq(GoodTask) /\ Pending(ts) = {b, a}
    BY <2>7, <2>8, PendingTuples
  <2>10. \A w \in Pending(ts) : w.op \in Neutral /\ (w.op = "notify" => w.obj \notin Mutex)
    BY <2>6, <2>7, <2>9 DEF Neutral
  <2> QED BY <1>4, <2>4, <2>8, <2>9, <2>10
<1> QED BY <1>3, <1>5, <1>6, <1>7 DEF NotifyStop, Rotate, Timers, Interrupt, Done

(* An entry of a list taken out. *)
LEMMA ContainsRemoveAt ==
    ASSUME NEW S, NEW q \in Seq(S), NEW k \in 1..Len(q)
    PROVE  /\ \A x : Contains(RemoveAt(q, k), x) => Contains(q, x)
           /\ Distinct(q) => Distinct(RemoveAt(q, k)) /\ ~Contains(RemoveAt(q, k), q[k])
<1>1. PICK r, n : r = RemoveAt(q, k) /\ n = Len(q)
  OBVIOUS
<1>2. /\ Len(r) = n - 1 /\ n \in Nat /\ k \in Nat /\ 1 <= k /\ k <= n
      /\ \A i \in 1..(n - 1) : r[i] = IF i < k THEN q[i] ELSE q[i + 1]
  BY <1>1, RemoveAtProperties, LenProperties
<1>3. \A i \in 1..(n - 1) : \E j \in 1..n : r[i] = q[j] /\ j # k /\ j = (IF i < k THEN i ELSE i + 1)
  <2> SUFFICES ASSUME NEW i \in 1..(n - 1)
               PROVE  \E j \in 1..n : r[i] = q[j] /\ j # k /\ j = (IF i < k THEN i ELSE i + 1)
    OBVIOUS
  <2>1. CASE i < k
    <3>1. i \in 1..n /\ r[i] = q[i] /\ i # k
      BY <1>2, <2>1
    <3> QED BY <2>1, <3>1
  <2>2. CASE ~(i < k)
    <3>1. i + 1 \in 1..n /\ r[i] = q[i + 1] /\ i + 1 # k
      BY <1>2, <2>2
    <3> QED BY <2>2, <3>1
  <2> QED BY <2>1, <2>2
<1>4. \A x : Contains(r, x) => Contains(q, x)
  BY <1>1, <1>2, <1>3 DEF Contains
<1>5. ASSUME Distinct(q) PROVE Distinct(r) /\ ~Contains(r, q[k])
  <2>1. ~Contains(r, q[k])
    BY <1>1, <1>2, <1>3, <1>5 DEF Contains, Distinct
  <2>2. ASSUME NEW i \in 1..(n - 1), NEW j \in 1..(n - 1), r[i] = r[j] PROVE i = j
    <3>1. PICK a \in 1..n : r[i] = q[a] /\ a = (IF i < k THEN i ELSE i + 1)
      BY <1>3
    <3>2. PICK b \in 1..n : r[j] = q[b] /\ b = (IF j < k THEN j ELSE j + 1)
      BY <1>3
    <3>3. a = b
      BY <1>1, <1>5, <2>2, <3>1, <3>2 DEF Distinct
    <3> QED BY <1>2, <3>1, <3>2, <3>3
  <2> QED BY <1>2, <2>1, <2>2 DEF Distinct
<1> QED BY <1>1, <1>4, <1>5

(* OnResourceAcquired wakes the observer. *)
LEMMA NotifyNextNew ==
    ASSUME Inv, NotifyNext
    PROVE  \A w \in Pending(todo') :
              w \in Pending(todo) \/ (w.op \in {"drop", "wakeFront"} /\ w.obj = Head(observers[Obj]))
<1>1. todo \in Seq(GoodTask)
  BY DEF Inv
<1>2. PICK t, z : t = Head(observers[Obj]) /\ z = todo
  OBVIOUS
<1>3. t \in Thread
  BY <1>2, FrontObserver DEF NotifyNext
<1>4. PICK a, b : a = Task("drop", t, 0) /\ b = Task("wakeFront", t, 0)
  OBVIOUS
<1>5. a \in GoodTask /\ b \in GoodTask /\ a.op = "drop" /\ b.op = "wakeFront" /\ a.obj = t /\ b.obj = t
  BY <1>3, <1>4, TaskTypes
<1>6. todo' = <<a, b>> \o z \/ todo' = <<b>> \o z \/ todo' = z
  BY <1>2, <1>4 DEF NotifyNext, Before
<1>7. ASSUME NEW ts \in Seq(GoodTask), Pending(ts) \subseteq {a, b}, todo' = ts \o z
      PROVE  \A w \in Pending(todo') : w \in Pending(z) \/ w \in {a, b}
  <2>1. z \in Seq(GoodTask)
    BY <1>1, <1>2
  <2>2. Pending(ts \o z) = Pending(ts) \cup Pending(z)
    BY <2>1, PendingConcat
  <2> QED BY <1>7, <2>2
<1>8. /\ <<a, b>> \in Seq(GoodTask) /\ Pending(<<a, b>>) \subseteq {a, b}
      /\ <<b>> \in Seq(GoodTask) /\ Pending(<<b>>) \subseteq {a, b}
  BY <1>5, PendingTuples
<1>9. PICK p, q : p = <<a, b>> /\ q = <<b>>
  OBVIOUS
<1> QED BY <1>2, <1>5, <1>6, <1>7, <1>8, <1>9

(* A due timeout wakes its thread. *)
LEMMA ExpireNew ==
    ASSUME Inv, Expire
    PROVE  \/ /\ waitingQueue' = waitingQueue
              /\ \A w \in Pending(todo') : w \in Pending(todo) \/ w.op = "expire"
           \/ /\ At \in 1..Len(waitingQueue) /\ waitingQueue' = RemoveAt(waitingQueue, At)
              /\ \A w \in Pending(todo') :
                    w \in Pending(todo) \/ (w.op \in {"drop", "wakeBack"} /\ w.obj = waitingQueue[At])
<1>1. fault = "none" /\ todo # <<>> /\ Head(todo).op = "expire"
  BY DEF Expire, Doing
<1>2. /\ Head(todo) \in GoodTask /\ Pending(todo) = {Head(todo)} \cup Pending(Tail(todo))
      /\ todo \in Seq(GoodTask) /\ waitingQueue \in Seq(Thread)
  BY <1>1, TailWork DEF Inv, TypeOK
<1>3. PICK k, z : k = At /\ z = todo
  OBVIOUS
<1>4. k \in Nat \ {0} /\ k + 1 \in Nat \ {0} /\ Len(waitingQueue) \in Nat
  BY <1>1, <1>2, <1>3, LenProperties DEF At, GoodTask
<1>5. k <= Len(waitingQueue) => k \in 1..Len(waitingQueue)
  BY <1>4
<1>6. CASE todo' = Tail(todo) /\ waitingQueue' = waitingQueue
  BY <1>2, <1>6
<1>7. CASE k <= Len(waitingQueue) /\ waitingQueue' = RemoveAt(waitingQueue, k) /\ todo' = todo
  BY <1>3, <1>5, <1>7
<1>8. CASE waitingQueue' = waitingQueue /\ Then(<<Task("expire", None, k + 1)>>)
  <2>1. PICK a : a = Task("expire", None, k + 1)
    OBVIOUS
  <2>2. a \in GoodTask /\ a.op = "expire"
    BY <1>4, <2>1, TaskTypes
  <2>3. PICK ts : ts = <<a>>
    OBVIOUS
  <2>4. ts \in Seq(GoodTask) /\ Pending(ts) = {a} /\ todo' = ts \o Tail(todo)
    BY <1>8, <2>1, <2>2, <2>3, PendingTuples DEF Then
  <2>5. Pending(todo') = Pending(ts) \cup Pending(Tail(todo))
    BY <1>1, <2>4, ThenWork
  <2> QED BY <1>2, <1>8, <2>2, <2>4, <2>5
<1>9. CASE k <= Len(waitingQueue) /\ waitingQueue' = RemoveAt(waitingQueue, k) /\ Before(OnTimeout(waitingQueue[k]))
  <2>1. PICK t : t = waitingQueue[k]
    OBVIOUS
  <2>2. t \in Thread
    BY <1>2, <1>5, <1>9, <2>1, ElementOfSeq
  <2>3. PICK a, b : a = Task("drop", t, 0) /\ b = Task("wakeBack", t, 0)
    OBVIOUS
  <2>4. a \in GoodTask /\ b \in GoodTask /\ a.op = "drop" /\ b.op = "wakeBack" /\ a.obj = t /\ b.obj = t
    BY <2>2, <2>3, TaskTypes
  <2>5. PICK s, e : s = (IF status[t] = "Sleeping" THEN <<a>> ELSE <<>>) /\ e = <<b>>
    OBVIOUS
  <2>6. s \in Seq(GoodTask) /\ Pending(s) \subseteq {a} /\ e \in Seq(GoodTask) /\ Pending(e) = {b}
    <3>1. \/ s = <<a>> /\ Pending(s) = {a}
          \/ s = <<>> /\ Pending(s) = {}
      BY <2>5, PendingTuples
    <3>2. s \in Seq(GoodTask) /\ e \in Seq(GoodTask)
      BY <2>4, <2>5, <3>1
    <3>3. Pending(e) = {b}
      BY <2>5, PendingTuples
    <3> QED BY <3>1, <3>2, <3>3
  <2>7. todo' = (s \o e) \o z
    BY <1>3, <1>9, <2>1, <2>3, <2>5 DEF Before, OnTimeout
  <2>8. PICK ts : ts = s \o e
    OBVIOUS
  <2>9. ts \in Seq(GoodTask) /\ Pending(ts) \subseteq {a, b}
    BY <2>6, <2>8, PendingConcat
  <2>10. z \in Seq(GoodTask)
    BY <1>2, <1>3
  <2>11. Pending(ts \o z) = Pending(ts) \cup Pending(z)
    BY <2>9, <2>10, PendingConcat
  <2>12. \A w \in Pending(todo') : w \in Pending(todo) \/ w \in {a, b}
    BY <1>3, <2>7, <2>8, <2>9, <2>11
  <2> QED BY <1>3, <1>5, <1>9, <2>1, <2>4, <2>12
<1> QED BY <1>3, <1>6, <1>7, <1>8, <1>9 DEF Expire, Done

-----------------------------------------------------------------------------
(* Steps that leave the threads where they are.                             *)

(* No thread starts or ends; what is woken up sleeps, and what acquires a  *)
(* mutex exists.                                                           *)
Calm ==
    /\ UNCHANGED <<status, exited, waitingQueue>>
    /\ listed \subseteq listed' \cup exited
    /\ \A m \in Mutex : owner'[m] \in {owner[m], None} \/ (owner'[m] \in Thread /\ status[owner'[m]] # "Uncreated")
    /\ \A t \in Thread : waitList[t] = <<>> => waitList'[t] = <<>>
    /\ \A t \in Thread : timeoutAt[t] = Never => timeoutAt'[t] = Never
    /\ running' = running \/ (~Tries(todo') /\ (running' \in Thread => status[running'] # "Uncreated"))
    /\ Tries(todo') => Tries(todo)
    /\ \A w \in Pending(todo') : w.op \in Wakes => w \in Pending(todo) \/ status[w.obj] = "Sleeping"

(* No handle of a mutex is opened or closed; who gets a mutex has not      *)
(* ended, and the mutexes that are to be notified are in the handle table. *)
Steady ==
    /\ exited' = exited /\ Mutex \cap open' = Mutex \cap open
    /\ \A m \in Mutex : owner'[m] = owner[m] \/ owner'[m] \notin exited
    /\ Tries(todo') => /\ Tries(todo) /\ running' = running
                       /\ \A t \in Thread : \A o : Contains(waitList'[t], o) => Contains(waitList[t], o)
    /\ Exits(todo') => Exits(todo)
    /\ \A w \in Pending(todo') : w.op = "notify" /\ w.obj \in Mutex => w \in Pending(todo) \/ w.obj \in open

(* What has to be shown of a step for LifeInv. *)
LEMMA LifeStep ==
    ASSUME Inv, Inv', LifeInv, exited \subseteq exited',
           \A t \in Thread : \/ status'[t] = status[t]
                             \/ /\ status'[t] # "Uncreated" /\ (status'[t] = "Stopped" => t \in exited')
                                /\ status[t] # "Uncreated" \/ t \in listed',
           listed \subseteq listed' \cup exited',
           \A t \in Thread : status'[t] = "Uncreated" =>
               waitList'[t] = <<>> /\ running' # t /\ ~Contains(waitingQueue', t),
           \A m \in Mutex : owner'[m] \in {owner[m], None} \/ (owner'[m] \in Thread /\ status[owner'[m]] # "Uncreated"),
           \A w \in Pending(todo') : w.op \in Wakes => w \in Pending(todo) \/ status[w.obj] # "Uncreated"
    PROVE  LifeInv'
<1>1. \A t \in Thread : status[t] # "Uncreated" => status'[t] # "Uncreated"
  OBVIOUS
<1>2. Living'
  <2> SUFFICES ASSUME NEW t \in Thread
               PROVE  /\ status'[t] = "Stopped" => t \in exited'
                      /\ status'[t] # "Uncreated" => t \in listed' \cup exited'
    BY DEF Living
  <2>1. /\ status[t] = "Stopped" => t \in exited
        /\ status[t] # "Uncreated" => t \in listed \cup exited
    BY DEF LifeInv, Living
  <2> QED BY <2>1
<1>3. OwnersCreated'
  <2> SUFFICES ASSUME NEW m \in Mutex, owner'[m] # None PROVE status'[owner'[m]] # "Uncreated"
    BY DEF OwnersCreated
  <2>1. owner[m] # None => owner[m] \in Thread /\ status[owner[m]] # "Uncreated"
    BY DEF Inv, TypeOK, LifeInv, OwnersCreated
  <2> QED BY <1>1, <2>1
<1>4. WakesCreated'
  <2> SUFFICES ASSUME NEW w \in Pending(todo'), w.op \in Wakes PROVE status'[w.obj] # "Uncreated"
    BY DEF WakesCreated
  <2>1. PICK p : p = todo'
    OBVIOUS
  <2>2. p \in Seq(GoodTask)
    BY <2>1 DEF Inv
  <2>3. w \in GoodTask
    BY <2>1, <2>2, LenProperties, ElementOfSeq DEF Pending
  <2>4. w.obj \in Thread
    BY <2>3 DEF GoodTask
  <2>5. w \in Pending(todo) => status[w.obj] # "Uncreated"
    BY DEF LifeInv, WakesCreated
  <2> QED BY <1>1, <2>4, <2>5
<1> QED BY <1>2, <1>3, <1>4 DEF LifeInv

(* Calm steps keep what holds of the threads. *)
LEMMA LifeCalm == ASSUME Inv, Inv', LifeInv, Calm PROVE LifeInv'
<1>1. \A t \in Thread : status'[t] = "Uncreated" =>
         waitList'[t] = <<>> /\ running' # t /\ ~Contains(waitingQueue', t)
  BY DEF Calm, LifeInv, Living
<1>2. \A w \in Pending(todo') : w.op \in Wakes => w \in Pending(todo) \/ status[w.obj] # "Uncreated"
  BY DEF Calm
<1>3. /\ exited \subseteq exited' /\ listed \subseteq listed' \cup exited'
      /\ \A t \in Thread : status'[t] = status[t]
      /\ \A m \in Mutex : owner'[m] \in {owner[m], None} \/ (owner'[m] \in Thread /\ status[owner'[m]] # "Uncreated")
  BY DEF Calm
<1> QED BY <1>1, <1>2, <1>3, LifeStep

(* They wake nobody who has ended. *)
LEMMA FinalCalm == ASSUME Inv, FinalInv, Calm PROVE FinalInv'
<1>1. EndedStopped' /\ QueueSleeps' /\ Distinct(waitingQueue)'
  BY DEF FinalInv, Calm, EndedStopped, QueueSleeps
<1>2. WakesWaiting'
  <2> SUFFICES ASSUME NEW w \in Pending(todo'), w.op \in Wakes
               PROVE  ~Contains(waitingQueue, w.obj) /\ w.obj \notin exited
    BY DEF Calm, WakesWaiting
  <2>1. waitingQueue \in Seq(Thread) /\ \A t : Contains(waitingQueue, t) => t \in Thread
    <3>1. waitingQueue \in Seq(Thread)
      BY DEF Inv, TypeOK
    <3> QED BY <3>1, LenProperties, ElementOfSeq DEF Contains
  <2> QED BY <2>1 DEF FinalInv, Calm, WakesWaiting, EndedStopped, QueueSleeps
<1>3. TriesUntimed'
  <2> SUFFICES ASSUME Tries(todo') PROVE running \in Thread /\ timeoutAt'[running] = Never /\ running' = running
    BY DEF TriesUntimed
  <2>1. Tries(todo) /\ running' = running
    BY DEF Calm
  <2> QED BY <2>1 DEF FinalInv, TriesUntimed, Calm
<1> QED BY <1>1, <1>2, <1>3 DEF FinalInv

(* Steady steps look at mutexes with living owners only. *)
LEMMA ReachSteady == ASSUME ReachInv, Steady, fault' = "none" => fault = "none" PROVE ReachInv'
<1> SUFFICES ASSUME fault' = "none" PROVE TriesOpen' /\ NotifiesOwned'
  BY DEF ReachInv
<1>1. TriesOpen /\ NotifiesOwned
  BY DEF ReachInv
<1>2. TriesOpen'
  BY <1>1 DEF Steady, TriesOpen
<1>3. NotifiesOwned'
  <2> SUFFICES ASSUME NEW w \in Pending(todo'), w.op = "notify", w.obj \in Mutex
               PROVE  w.obj \in open' \/ (owner'[w.obj] \notin exited' /\ ~Exits(todo'))
    BY DEF NotifiesOwned
  <2>1. w \in Pending(todo) => w.obj \in open \/ (owner[w.obj] \notin exited /\ ~Exits(todo))
    BY <1>1 DEF NotifiesOwned
  <2> QED BY <2>1 DEF Steady
<1> QED BY <1>2, <1>3

(* The loops of the dispatcher. *)
LEMMA CalmLoops ==
    ASSUME Inv, NotifyStop \/ Elapse \/ Timers \/ Rotate \/ Interrupt
    PROVE  Calm /\ Steady
<1>1. WorkKept
  BY QuietWork, InterruptWork
<1>2. \A w \in Pending(todo') :
         w \in Pending(todo) \/ (w.op \in Neutral /\ (w.op = "notify" => w.obj \notin Mutex))
  BY QuietNew
<1>3. UNCHANGED <<status, waitList, exited, waitingQueue, listed, open, owner, running>>
  <2>1. CASE NotifyStop \/ Timers \/ Rotate
    BY <2>1 DEF NotifyStop, Timers, Rotate, threadVars, objectVars, queueVars
  <2>2. CASE Elapse \/ Interrupt
    BY <2>2 DEF Elapse, Interrupt, threadVars, objectVars, queueVars
  <2> QED BY <2>1, <2>2
<1>4. \A t \in Thread : timeoutAt[t] = Never => timeoutAt'[t] = Never
  <2>1. CASE Elapse
    BY <2>1 DEF Elapse, Elapsed
  <2>2. CASE NotifyStop \/ Timers \/ Rotate \/ Interrupt
    BY <2>2 DEF NotifyStop, Timers, Rotate, Interrupt, threadVars
  <2> QED BY <2>1, <2>2
<1>5. ~Tries(todo') /\ (Exits(todo') => Exits(todo))
  BY <1>1 DEF WorkKept, Tries, Exits
<1>6. \A w \in Pending(todo') : w.op \in Wakes => w \in Pending(todo)
  BY <1>2 DEF Neutral, Wakes
<1>7. Calm
  BY <1>3, <1>4, <1>5, <1>6 DEF Calm
<1>8. Steady
  BY <1>2, <1>3, <1>5 DEF Steady
<1> QED BY <1>7, <1>8

(* The thread leaves the observers of an object. *)
LEMMA CalmDrop == ASSUME Inv, Drop PROVE Calm /\ Steady
<1>1. /\ fault = "none" /\ todo # <<>> /\ Head(todo).op = "drop"
      /\ UNCHANGED <<status, timeoutAt, exited, waitingQueue, listed, open, owner, running>>
  BY DEF Drop, Doing, objectVars, queueVars
<1>2. Pending(todo) = {Head(todo)} \cup Pending(Tail(todo)) /\ (todo' = todo \/ todo' = Tail(todo))
  BY <1>1, TailWork DEF Drop, Done
<1>3. \A w \in Pending(todo') : w \in Pending(todo)
  BY <1>2
<1>4. \A t \in Thread : \/ waitList'[t] = waitList[t]
                        \/ waitList[t] # <<>> /\ waitList'[t] = Tail(waitList[t])
  <2>1. waitList \in [Thread -> Seq(Object)]
    BY DEF Inv, TypeOK
  <2>2. PICK u : u = Obj
    OBVIOUS
  <2>3. \/ waitList' = waitList
        \/ waitList[u] # <<>> /\ waitList' = [waitList EXCEPT ![u] = Tail(@)]
    BY <2>2 DEF Drop
  <2> QED BY <2>1, <2>3
<1>5. \A t \in Thread : waitList[t] = <<>> => waitList'[t] = <<>>
  BY <1>4
<1>6. \A t \in Thread : \A o : Contains(waitList'[t], o) => Contains(waitList[t], o)
  <2> SUFFICES ASSUME NEW t \in Thread, waitList[t] # <<>>, waitList'[t] = Tail(waitList[t])
               PROVE  \A o : Contains(waitList'[t], o) => Contains(waitList[t], o)
    BY <1>4
  <2>1. PICK q : q = waitList[t]
    OBVIOUS
  <2>2. q \in Seq(Object)
    BY <2>1 DEF Inv, TypeOK
  <2> QED BY <2>1, <2>2, ContainsTail
<1> QED BY <1>1, <1>3, <1>5, <1>6 DEF Calm, Steady, Tries, Exits, Wakes

(* The dispatcher goes on to the next thread.  A thread that returned from *)
(* its last system call leaves the list of its process.                    *)
LEMMA CalmDispatch ==
    ASSUME Inv, LifeInv, Idle \/ Leave \/ \E d \in {0, 1} : Dispatch(d)
    PROVE  Calm /\ Steady
<1>1. /\ \A w \in Pending(todo') : w.op = "elapse"
      /\ UNCHANGED <<objectVars, status>>
  BY DispatchWork
<1>2. /\ UNCHANGED <<waitList, timeoutAt, exited, waitingQueue, open>>
      /\ running' # running /\ running' \in Thread => status[running'] # "Uncreated"
  <2>1. CASE Idle
    BY <2>1 DEF Idle, threadVars, queueVars
  <2>2. CASE Leave
    <3>1. None \notin Thread
      BY KernelAssumption DEF Object
    <3> QED BY <2>2, <3>1 DEF Leave, threadVars, queueVars
  <2>3. ASSUME NEW d \in {0, 1}, Dispatch(d)
        PROVE  /\ UNCHANGED <<waitList, timeoutAt, exited, waitingQueue, open>>
               /\ running' # running /\ running' \in Thread => status[running'] # "Uncreated"
    <3>1. None \notin Thread
      BY KernelAssumption DEF Object
    <3> QED BY <2>3, <3>1 DEF Dispatch, threadVars
  <2> QED BY <2>1, <2>2, <2>3
<1>3. listed \subseteq listed' \cup exited
  <2>1. CASE Leave
    <3>1. listed' = IF status[Obj] = "Stopped" THEN listed \ {Obj} ELSE listed
      BY <2>1 DEF Leave
    <3>2. listed \subseteq Thread
      BY DEF Inv, TypeOK
    <3> QED BY <3>1, <3>2 DEF LifeInv, Living
  <2>2. CASE Idle \/ \E d \in {0, 1} : Dispatch(d)
    BY <2>2 DEF Idle, Dispatch
  <2> QED BY <2>1, <2>2
<1>4. owner' = owner
  BY <1>1 DEF objectVars
<1>5. ~Tries(todo') /\ ~Exits(todo') /\ \A w \in Pending(todo') : w.op # "notify" /\ w.op \notin Wakes
  BY <1>1 DEF Tries, Exits, Wakes
<1>6. Calm
  BY <1>1, <1>2, <1>3, <1>4, <1>5 DEF Calm
<1>7. Steady
  BY <1>2, <1>4, <1>5 DEF Steady
<1> QED BY <1>6, <1>7

(* A thread that ends gives up a mutex of the handle table. *)
LEMMA CalmExitMutexes == ASSUME Inv, ExitMutexes PROVE Calm /\ Steady
<1>1. PICK k, m, q, r : k = At /\ m = MutexSeq[k] /\ q = Pending(Tail(todo)) /\ r = running
  OBVIOUS
<1>2. PICK a, n : a = Task("exitMutexes", r, k + 1) /\ n = Task("notify", m, 0)
  OBVIOUS
<1>3. a.op = "exitMutexes" /\ n.op = "notify" /\ n.obj = m
  BY <1>2, TaskTypes
<1>4. /\ Pending(todo) = {Head(todo)} \cup q
      /\ \/ UNCHANGED objectVars /\ Pending(todo') = q
         \/ UNCHANGED <<objectVars, todo>>
         \/ UNCHANGED objectVars /\ Pending(todo') = {a} \cup q
         \/ /\ m \in Mutex \cap open /\ lockCount[m] = 1 /\ Release(m)
            /\ Pending(todo') = {n, a} \cup q
  BY <1>1, <1>2, ExitMutexesWork
<1>5. UNCHANGED <<status, waitList, timeoutAt, exited, waitingQueue, listed, open, running>>
  BY DEF ExitMutexes, threadVars, queueVars
<1>6. \A x \in Mutex : owner'[x] \in {owner[x], None}
  <2>1. CASE UNCHANGED objectVars
    BY <2>1 DEF objectVars
  <2>2. CASE m \in Mutex /\ lockCount[m] = 1 /\ Release(m)
    BY <2>2, ReleaseEffect
  <2> QED BY <1>4, <2>1, <2>2
<1>7. \A w \in Pending(todo') : \/ w \in Pending(todo) \/ w = a
                                \/ w = n /\ m \in open
  BY <1>4
<1>8. None \notin exited
  BY KernelAssumption DEF Inv, TypeOK, Object
<1>9. (Tries(todo') => Tries(todo)) /\ (Exits(todo') => Exits(todo))
  BY <1>3, <1>7 DEF Tries, Exits
<1>10. \A w \in Pending(todo') : w.op \in Wakes => w \in Pending(todo)
  BY <1>3, <1>7 DEF Wakes
<1>11. \A w \in Pending(todo') : w.op = "notify" => w \in Pending(todo) \/ w.obj \in open
  BY <1>3, <1>7
<1>12. Calm
  BY <1>5, <1>6, <1>9, <1>10 DEF Calm
<1>13. Steady
  BY <1>5, <1>6, <1>8, <1>9, <1>11 DEF Steady
<1> QED BY <1>12, <1>13

(* An observer acquires a mutex only after it waited for it. *)
LEMMA CalmNotifyNext == ASSUME Inv, ExitInv, LifeInv, NotifyNext PROVE Calm /\ Steady
<1>1. WorkKept /\ fault = "none"
  BY NotifyNextWork DEF NotifyNext, Doing
<1>2. PICK o, t : o = Obj /\ t = Head(observers[o])
  OBVIOUS
<1>3. /\ o \in Object /\ t \in Thread /\ Contains(waitList[t], o) /\ status[t] = "Sleeping"
  BY <1>2, FrontObserver DEF NotifyNext
<1>4. /\ owner' = IF o \in Mutex THEN [owner EXCEPT ![o] = t] ELSE owner
      /\ waitList' = [waitList EXCEPT ![t] = RemoveFirst(waitList[t], o)]
      /\ UNCHANGED <<status, timeoutAt, waitingQueue, listed, open, exited, running>>
  BY <1>2 DEF NotifyNext, Acquire, queueVars
<1>5. owner \in [Mutex -> Thread \cup {None}] /\ waitList \in [Thread -> Seq(Object)]
  BY DEF Inv, TypeOK
<1>6. waitList[t] # <<>>
  BY <1>3 DEF Contains
<1>7. t \notin exited
  BY <1>6 DEF ExitInv, Ended
<1>8. \A w \in Pending(todo') : w \in Pending(todo) \/ (w.op \in {"drop", "wakeFront"} /\ w.obj = t)
  BY <1>2, NotifyNextNew
<1>9. \A m \in Mutex : owner'[m] \in {owner[m], t}
  BY <1>4, <1>5
<1>10. \A u \in Thread : waitList[u] = <<>> => waitList'[u] = <<>>
  BY <1>4, <1>5, <1>6
<1>11. ~Tries(todo') /\ (Exits(todo') => Exits(todo))
  BY <1>1 DEF WorkKept, Tries, Exits
<1>12. Calm
  BY <1>3, <1>4, <1>8, <1>9, <1>10, <1>11 DEF Calm
<1>13. Steady
  BY <1>4, <1>7, <1>8, <1>9, <1>11 DEF Steady
<1> QED BY <1>12, <1>13

(* So does a thread that starts to wait. *)
LEMMA CalmTry == ASSUME Inv, ExitInv, LifeInv, Try PROVE Calm /\ Steady
<1>1. Doing("try") /\ UNCHANGED <<status, timeoutAt, waitingQueue, listed, open, exited, running>>
  BY DEF Try, queueVars
<1>2. /\ running \notin exited
      /\ Pending(todo) = {Head(todo)} \cup Pending(Tail(todo))
  BY <1>1, TryLives
<1>3. PICK t, k : t = Obj /\ k = At
  OBVIOUS
<1>4. /\ todo # <<>> /\ t = running /\ t \in Thread /\ k \in Nat /\ k >= 1 /\ k + 1 \in Nat \ {0}
      /\ status[t] = "Ready" /\ Head(todo).op = "try"
  BY <1>1, <1>3, TryHead DEF Doing
<1>5. PICK o, q : q = waitList[t] /\ o = q[k]
  OBVIOUS
<1>6. /\ \/ UNCHANGED <<waitList, owner>>
         \/ /\ waitList' = [waitList EXCEPT ![t] = RemoveAt(q, k)]
            /\ owner' = IF o \in Mutex THEN [owner EXCEPT ![o] = t] ELSE owner
      /\ todo' = <<Task("try", t, k + 1)>> \o Tail(todo) \/ todo' = todo \/ todo' = <<Task("drop", t, 0)>> \o Tail(todo)
      /\ k <= Len(q)
  BY <1>3, <1>5 DEF Try, Acquire, Then, objectVars
<1>7. owner \in [Mutex -> Thread \cup {None}] /\ waitList \in [Thread -> Seq(Object)] /\ q \in Seq(Object)
  BY <1>4, <1>5 DEF Inv, TypeOK
<1>8. k \in 1..Len(q) /\ q # <<>>
  <2>1. Len(q) \in Nat /\ Len(<<>>) = 0
    BY <1>7, LenProperties
  <2> QED BY <1>4, <1>6, <2>1
<1>9. \A w \in Pending(todo') : w \in Pending(todo) \/ w.op \in {"try", "drop"}
  <2>1. ASSUME NEW a \in GoodTask, a.op \in {"try", "drop"}, todo' = <<a>> \o Tail(todo)
        PROVE  \A w \in Pending(todo') : w \in Pending(todo) \/ w.op \in {"try", "drop"}
    <3>1. PICK ts : ts = <<a>>
      OBVIOUS
    <3>2. ts \in Seq(GoodTask) /\ Pending(ts) = {a}
      BY <3>1, PendingTuples
    <3>3. Pending(todo') = Pending(ts) \cup Pending(Tail(todo))
      BY <1>4, <2>1, <3>1, <3>2, ThenWork
    <3> QED BY <1>2, <2>1, <3>2, <3>3
  <2>2. PICK a, b : a = Task("try", t, k + 1) /\ b = Task("drop", t, 0)
    OBVIOUS
  <2>3. a \in GoodTask /\ b \in GoodTask /\ a.op = "try" /\ b.op = "drop"
    BY <1>4, <2>2, TaskTypes
  <2> QED BY <1>6, <2>1, <2>2, <2>3
<1>10. \A m \in Mutex : owner'[m] \in {owner[m], t}
  BY <1>6, <1>7
<1>11. \A x : Contains(RemoveAt(q, k), x) => Contains(q, x)
  BY <1>7, <1>8, ContainsRemoveAt
<1>12. \A u \in Thread : \A x : Contains(waitList'[u], x) => Contains(waitList[u], x)
  BY <1>5, <1>6, <1>7, <1>11
<1>13. \A u \in Thread : waitList[u] = <<>> => waitList'[u] = <<>>
  BY <1>5, <1>6, <1>7, <1>8
<1>14. Tries(todo) /\ (Exits(todo') => Exits(todo))
  BY <1>2, <1>4, <1>9 DEF Tries, Exits
<1>15. \A w \in Pending(todo') : w.op \in Wakes => w \in Pending(todo)
  BY <1>9 DEF Wakes
<1>16. Calm
  BY <1>1, <1>4, <1>10, <1>13, <1>14, <1>15 DEF Calm
<1>17. Steady
  BY <1>1, <1>2, <1>4, <1>9, <1>10, <1>12, <1>14 DEF Steady
<1> QED BY <1>16, <1>17

(* A call that notifies an object notifies no other. *)
LEMMA NotifiesOnly ==
    ASSUME NEW t \in Thread, NEW o \in Object,
           \/ Return(t, <<>>) \/ Return(t, Reschedule(t)) \/ Return(t, <<>> \o Reschedule(t))
           \/ Return(t, <<Task("notify", o, 0)>> \o Reschedule(t))
    PROVE  \A w \in Pending(todo') : w.op = "notify" => w.obj = o
<1>1. PICK n : n = Task("notify", o, 0)
  OBVIOUS
<1>2. n \in GoodTask /\ n.op = "notify" /\ n.obj = o
  BY <1>1, TaskTypes
<1>3. PICK s, e : s = <<n>> /\ e = <<>>
  OBVIOUS
<1>4. s \in Seq(GoodTask) /\ Pending(s) = {n} /\ e \in Seq(GoodTask) /\ Pending(e) = {}
  BY <1>2, <1>3, PendingTuples
<1>5. /\ Return(t, e) => Pending(todo') = {Task("leave", t, 0)}
      /\ Return(t, Reschedule(t)) => \A w \in Pending(todo') : w.op \in {"elapse", "rotate", "leave"}
      /\ Return(t, e \o Reschedule(t)) =>
           \A w \in Pending(todo') : w \in Pending(e) \/ w.op \in {"elapse", "rotate", "leave"}
  BY <1>3, <1>4, CallWork
<1>6. Return(t, s \o Reschedule(t)) =>
         \A w \in Pending(todo') : w = n \/ w.op \in {"elapse", "rotate", "leave"}
  BY <1>4, CallWork
<1>7. Task("leave", t, 0).op = "leave"
  BY TaskTypes
<1> QED BY <1>1, <1>2, <1>3, <1>4, <1>5, <1>6, <1>7

(* What a system call may change about threads and handles if it neither   *)
(* waits nor sleeps, nor creates or ends a thread.                         *)
LEMMA CalmCalls ==
    ASSUME Inv, NEW t \in Thread,
           \/ SVCGetSystemTick(t) \/ SVCClearEvent(t) \/ SVCSetTimer(t) \/ SVCReleaseSemaphore(t)
           \/ SVCSignalEvent(t) \/ (SVCReleaseMutex(t) /\ fault' = "none")
    PROVE  Calm /\ Steady
<1>1. CallEffect(t)
  BY PlainCalls, SignallingCalls, ReleasingCalls
<1>2. UNCHANGED <<status, waitList, exited, waitingQueue, listed, open, running>>
  <2>1. CASE SVCGetSystemTick(t) \/ SVCClearEvent(t) \/ SVCSetTimer(t)
    BY <2>1 DEF SVCGetSystemTick, SVCClearEvent, SVCSetTimer, threadVars, queueVars
  <2>2. CASE SVCReleaseSemaphore(t) \/ SVCSignalEvent(t) \/ (SVCReleaseMutex(t) /\ fault' = "none")
    BY <2>2 DEF SVCReleaseSemaphore, SVCSignalEvent, SVCReleaseMutex, Fail, threadVars, queueVars
  <2> QED BY <2>1, <2>2
<1>3. \A u \in Thread : timeoutAt[u] = Never => timeoutAt'[u] = Never
  <2>1. CASE SVCGetSystemTick(t)
    BY <2>1 DEF SVCGetSystemTick, Elapsed
  <2>2. CASE ~SVCGetSystemTick(t)
    BY <2>2 DEF SVCClearEvent, SVCSetTimer, SVCReleaseSemaphore, SVCSignalEvent, SVCReleaseMutex, Fail, threadVars
  <2> QED BY <2>1, <2>2
<1>4. \A w \in Pending(todo') : w.op \in {"notify", "elapse", "rotate", "leave"}
  BY <1>1 DEF CallEffect
<1>5. \A m \in Mutex : owner'[m] \in {owner[m], None}
  BY <1>1 DEF CallEffect
<1>6. \A w \in Pending(todo') : w.op = "notify" /\ w.obj \in Mutex => w.obj \in open
  <2>1. ASSUME NEW x \in Object, x \in Mutex => x \in open,
               \/ Return(t, <<>>) \/ Return(t, Reschedule(t)) \/ Return(t, <<>> \o Reschedule(t))
               \/ Return(t, <<Task("notify", x, 0)>> \o Reschedule(t))
        PROVE  \A w \in Pending(todo') : w.op = "notify" /\ w.obj \in Mutex => w.obj \in open
    BY <2>1, NotifiesOnly
  <2>2. /\ t \in Object /\ t \notin Mutex /\ \A x \in Timer \cup Semaphore \cup Event : x \in Object /\ x \notin Mutex
        /\ \A x \in Mutex : x \in Object
    BY KernelAssumption DEF Object
  <2>3. CASE SVCGetSystemTick(t) \/ SVCClearEvent(t)
    BY <2>1, <2>2, <2>3 DEF SVCGetSystemTick, SVCClearEvent
  <2>4. CASE SVCSetTimer(t)
    <3>1. PICK k \in Timer \cap open : \/ Return(t, <<Task("notify", k, 0)>> \o Reschedule(t))
                                       \/ Return(t, <<>> \o Reschedule(t))
      BY <2>4 DEF SVCSetTimer
    <3> QED BY <2>1, <2>2, <3>1
  <2>5. CASE SVCReleaseSemaphore(t)
    <3>1. PICK s \in Semaphore \cap open : Return(t, <<Task("notify", s, 0)>> \o Reschedule(t))
      BY <2>5 DEF SVCReleaseSemaphore
    <3> QED BY <2>1, <2>2, <3>1
  <2>6. CASE SVCSignalEvent(t)
    <3>1. PICK e \in Event \cap open : Return(t, <<Task("notify", e, 0)>> \o Reschedule(t))
      BY <2>6 DEF SVCSignalEvent
    <3> QED BY <2>1, <2>2, <3>1
  <2>7. CASE SVCReleaseMutex(t) /\ fault' = "none"
    <3>1. PICK m \in Mutex \cap open : Return(t, OnRelease(m) \o Reschedule(t))
      BY <2>7 DEF SVCReleaseMutex, Fail
    <3>2. \/ Return(t, <<Task("notify", m, 0)>> \o Reschedule(t))
          \/ Return(t, <<>> \o Reschedule(t))
      BY <3>1 DEF OnRelease
    <3> QED BY <2>1, <2>2, <3>1, <3>2
  <2> QED BY <2>3, <2>4, <2>5, <2>6, <2>7
<1>7. None \notin exited
  BY KernelAssumption DEF Inv, TypeOK, Object
<1>8. ~Tries(todo') /\ ~Exits(todo') /\ \A w \in Pending(todo') : w.op \notin Wakes
  BY <1>4 DEF Tries, Exits, Wakes
<1>9. Calm
  BY <1>2, <1>3, <1>5, <1>8 DEF Calm
<1>10. Steady
  BY <1>2, <1>5, <1>6, <1>7, <1>8 DEF Steady
<1> QED BY <1>9, <1>10

(* The last system call of a thread. *)
LEMMA CalmSVCExit ==
    ASSUME Inv, ReachInv, NEW t \in Thread, SVCExitThread(t)
    PROVE  Calm /\ ReachInv'
<1>1. /\ InSVC(t) /\ UNCHANGED <<status, waitList, timeoutAt, owner, exited, waitingQueue, listed, open, running>>
      /\ Return(t, <<Task("exitMutexes", t, 1), Task("drop", t, 0),
                     Task("exit", t, 0), Task("notify", t, 0)>> \o Reschedule(t))
  BY DEF SVCExitThread, objectVars, threadVars, queueVars
<1>2. PICK a, b, c, n : /\ a = Task("exitMutexes", t, 1) /\ b = Task("drop", t, 0)
                        /\ c = Task("exit", t, 0) /\ n = Task("notify", t, 0)
  OBVIOUS
<1>3. /\ a \in GoodTask /\ b \in GoodTask /\ c \in GoodTask /\ n \in GoodTask
      /\ a.op = "exitMutexes" /\ b.op = "drop" /\ c.op = "exit" /\ n.op = "notify" /\ n.obj = t
  BY <1>2, TaskTypes DEF Object
<1>4. PICK s : s = <<a, b, c, n>>
  OBVIOUS
<1>5. s \in Seq(GoodTask) /\ Pending(s) = {a, b, c, n} /\ Return(t, s \o Reschedule(t))
  BY <1>1, <1>2, <1>3, <1>4, PendingTuples
<1>6. \A w \in Pending(todo') : w \in {a, b, c, n} \/ w.op \in {"elapse", "rotate", "leave"}
  BY <1>5, CallWork
<1>7. ~Tries(todo') /\ \A w \in Pending(todo') : w.op \notin Wakes /\ (w.op = "notify" => w.obj = t)
  BY <1>3, <1>6 DEF Tries, Wakes
<1>8. Calm
  BY <1>1, <1>7 DEF Calm
<1>9. t \notin Mutex
  BY KernelAssumption
<1>10. TriesOpen' /\ NotifiesOwned'
  BY <1>7, <1>9 DEF TriesOpen, NotifiesOwned
<1> QED BY <1>8, <1>10 DEF ReachInv

(* Closing the handle of a mutex gives up a lock of the running thread. *)
LEMMA CalmSVCCloseHandle ==
    ASSUME Inv, ExitInv, ReachInv, NEW t \in Thread, SVCCloseHandle(t)
    PROVE  Calm /\ ReachInv'
<1>1. CallEffect(t)
  BY ReleasingCalls
<1>2. UNCHANGED <<status, waitList, timeoutAt, exited, waitingQueue, listed, running>> /\ InSVC(t)
  BY DEF SVCCloseHandle, threadVars, queueVars
<1>3. \A w \in Pending(todo') : w.op \in {"notify", "elapse", "rotate", "leave"}
  BY <1>1 DEF CallEffect
<1>4. \A m \in Mutex : owner'[m] \in {owner[m], None}
  BY <1>1 DEF CallEffect
<1>5. ~Tries(todo') /\ ~Exits(todo') /\ \A w \in Pending(todo') : w.op \notin Wakes
  BY <1>3 DEF Tries, Exits, Wakes
<1>6. Calm
  BY <1>2, <1>4, <1>5 DEF Calm
<1>7. None \notin exited /\ t \notin exited
  BY <1>2, CallerLives, KernelAssumption DEF Inv, TypeOK, Object
<1>8. \A w \in Pending(todo') : w.op = "notify" /\ w.obj \in Mutex => owner'[w.obj] \notin exited
  <2>1. PICK o \in Closable \cap open :
          IF o \in Mutex /\ lockCount[o] > 0 /\ owner[o] = t
          THEN Release(o) /\ Return(t, <<Task("notify", o, 0)>> \o Reschedule(t))
          ELSE Return(t, Reschedule(t))
    BY DEF SVCCloseHandle
  <2>2. CASE Return(t, Reschedule(t))
    <3>1. t \in Object /\ t \notin Mutex
      BY KernelAssumption DEF Object
    <3> QED BY <2>2, <3>1, NotifiesOnly
  <2>3. CASE o \in Mutex /\ owner[o] = t /\ Return(t, <<Task("notify", o, 0)>> \o Reschedule(t))
    <3>1. o \in Object
      BY <2>3 DEF Object
    <3>2. owner'[o] \notin exited
      BY <1>4, <1>7, <2>3
    <3> QED BY <2>3, <3>1, <3>2, NotifiesOnly
  <2> QED BY <2>1, <2>2, <2>3
<1>9. TriesOpen' /\ NotifiesOwned'
  BY <1>2, <1>5, <1>8 DEF TriesOpen, NotifiesOwned
<1> QED BY <1>6, <1>9 DEF ReachInv

(* A step that changes nothing of all this. *)
LEMMA CalmStutter ==
    ASSUME UNCHANGED <<status, waitList, timeoutAt, waitingQueue, owner, exited, listed, open, running, todo>>
    PROVE  Calm /\ Steady
BY DEF Calm, Steady

-----------------------------------------------------------------------------
(* The steps that change the state of a thread.                             *)

(* A thread is woken up. *)
LEMMA LifeWake ==
    ASSUME Inv, Inv', LifeInv, Wake
    PROVE  LifeInv' /\ Steady /\ (FinalInv => FinalInv')
<1>1. PICK u : u = Obj
  OBVIOUS
<1>2. /\ fault = "none" /\ todo # <<>> /\ Head(todo).op \in Wakes /\ Head(todo).obj = u
      /\ status' = [status EXCEPT ![u] = "Ready"] /\ todo' = Tail(todo)
      /\ UNCHANGED <<waitList, timeoutAt, waitingQueue, owner, exited, listed, open, running>>
  BY <1>1 DEF Wake, Doing, Done, Wakes, Obj, objectVars
<1>3. /\ Pending(todo) = {Head(todo)} \cup Pending(todo') /\ Head(todo) \in GoodTask
      /\ status \in [Thread -> Status]
  BY <1>2, TailWork DEF Inv, TypeOK
<1>4. u \in Thread /\ status[u] # "Uncreated"
  <2>1. Head(todo) \in Pending(todo)
    BY <1>3
  <2>2. u \in Thread
    BY <1>2, <1>3 DEF GoodTask
  <2> QED BY <1>2, <2>1, <2>2 DEF LifeInv, WakesCreated
<1>5. \A t \in Thread : status'[t] = (IF t = u THEN "Ready" ELSE status[t])
  BY <1>2, <1>3
<1>6. LifeInv'
  <2>1. \A t \in Thread : status'[t] = "Uncreated" =>
           waitList'[t] = <<>> /\ running' # t /\ ~Contains(waitingQueue', t)
    BY <1>2, <1>5 DEF LifeInv, Living
  <2>2. \A t \in Thread : \/ status'[t] = status[t]
                          \/ /\ status'[t] # "Uncreated" /\ (status'[t] = "Stopped" => t \in exited')
                             /\ status[t] # "Uncreated" \/ t \in listed'
    BY <1>4, <1>5
  <2> QED BY <1>2, <1>3, <2>1, <2>2, LifeStep
<1>7. (Tries(todo') => Tries(todo)) /\ (Exits(todo') => Exits(todo))
  BY <1>3 DEF Tries, Exits
<1>8. Steady
  BY <1>2, <1>3, <1>7 DEF Steady
<1>9. ASSUME FinalInv PROVE FinalInv'
  <2>1. ~Contains(waitingQueue, u) /\ u \notin exited
    BY <1>2, <1>3, <1>9 DEF FinalInv, WakesWaiting
  <2>2. exited \subseteq Thread
    BY DEF Inv, TypeOK
  <2>3. EndedStopped'
    BY <1>2, <1>5, <1>9, <2>1, <2>2 DEF FinalInv, EndedStopped
  <2>4. QueueSleeps' /\ Distinct(waitingQueue)'
    BY <1>2, <1>5, <1>9, <2>1 DEF FinalInv, QueueSleeps
  <2>5. WakesWaiting'
    BY <1>2, <1>3, <1>9 DEF FinalInv, WakesWaiting
  <2>6. TriesUntimed'
    BY <1>2, <1>7, <1>9 DEF FinalInv, TriesUntimed
  <2> QED BY <2>3, <2>4, <2>5, <2>6 DEF FinalInv
<1> QED BY <1>6, <1>8, <1>9

(* A due timeout.  Without timeouts of waits it is that of a thread that   *)
(* called SVCSleepThread, which has not ended.                             *)
LEMMA LifeExpire ==
    ASSUME Inv, Inv', LifeInv, Expire
    PROVE  LifeInv' /\ Steady /\ (FinalInv => FinalInv')
<1>1. WorkKept /\ fault = "none"
  BY ExpireWork DEF Expire, Doing
<1>2. UNCHANGED <<status, waitList, timeoutAt, owner, exited, listed, open, running>>
  BY DEF Expire, objectVars
<1>3. ~Tries(todo') /\ (Exits(todo') => Exits(todo))
  BY <1>1 DEF WorkKept, Tries, Exits
<1>4. CASE /\ waitingQueue' = waitingQueue
           /\ \A w \in Pending(todo') : w \in Pending(todo) \/ w.op = "expire"
  <2>1. Calm
    BY <1>2, <1>3, <1>4 DEF Calm, Wakes
  <2>2. Steady
    BY <1>2, <1>3, <1>4 DEF Steady
  <2> QED BY <2>1, <2>2, LifeCalm, FinalCalm
<1>5. CASE /\ At \in 1..Len(waitingQueue) /\ waitingQueue' = RemoveAt(waitingQueue, At)
           /\ \A w \in Pending(todo') :
                 w \in Pending(todo) \/ (w.op \in {"drop", "wakeBack"} /\ w.obj = waitingQueue[At])
  <2>1. PICK k, u, q : k = At /\ q = waitingQueue /\ u = q[k]
    OBVIOUS
  <2>2. /\ k \in 1..Len(q) /\ waitingQueue' = RemoveAt(q, k) /\ q \in Seq(Thread)
        /\ \A w \in Pending(todo') : w \in Pending(todo) \/ (w.op \in {"drop", "wakeBack"} /\ w.obj = u)
    BY <1>5, <2>1 DEF Inv, TypeOK
  <2>3. u \in Thread /\ Contains(q, u)
    BY <2>1, <2>2, ElementOfSeq DEF Contains
  <2>4. /\ \A x : Contains(waitingQueue', x) => Contains(q, x)
        /\ Distinct(q) => Distinct(waitingQueue') /\ ~Contains(waitingQueue', u)
    BY <2>1, <2>2, ContainsRemoveAt
  <2>5. status[u] # "Uncreated"
    BY <2>1, <2>3 DEF LifeInv, Living
  <2>6. LifeInv'
    <3>1. \A t \in Thread : status'[t] = "Uncreated" =>
             waitList'[t] = <<>> /\ running' # t /\ ~Contains(waitingQueue', t)
      BY <1>2, <2>1, <2>4 DEF LifeInv, Living
    <3>2. \A w \in Pending(todo') : w.op \in Wakes => w \in Pending(todo) \/ status[w.obj] # "Uncreated"
      BY <2>2, <2>5
    <3> QED BY <1>2, <3>1, <3>2, LifeStep
  <2>7. Steady
    BY <1>2, <1>3, <2>2 DEF Steady
  <2>8. ASSUME FinalInv PROVE FinalInv'
    <3>1. status[u] = "WaitingForTimeout" /\ u \notin exited /\ ~Contains(waitingQueue', u)
      BY <2>1, <2>3, <2>4, <2>8 DEF FinalInv, QueueSleeps, EndedStopped
    <3>2. EndedStopped'
      BY <1>2, <2>8 DEF FinalInv, EndedStopped
    <3>3. QueueSleeps' /\ Distinct(waitingQueue)'
      BY <1>2, <2>1, <2>4, <2>8 DEF FinalInv, QueueSleeps
    <3>4. WakesWaiting'
      BY <1>2, <2>1, <2>2, <2>4, <2>8, <3>1 DEF FinalInv, WakesWaiting
    <3>5. TriesUntimed'
      BY <1>3 DEF TriesUntimed
    <3> QED BY <3>2, <3>3, <3>4, <3>5 DEF FinalInv
  <2> QED BY <2>6, <2>7, <2>8
<1> QED BY <1>4, <1>5, ExpireNew

(* A thread falls asleep. *)
LEMMA LifeTryDone ==
    ASSUME Inv, Inv', ExitInv, LifeInv, TryDone
    PROVE  LifeInv' /\ Steady /\ (FinalInv => FinalInv')
<1>1. Doing("try") /\ UNCHANGED <<waitList, timeoutAt, owner, exited, listed, open, running>>
  BY DEF TryDone, objectVars
<1>2. /\ Pending(todo) = {Head(todo)} \cup Pending(Tail(todo))
      /\ \A w \in Pending(Tail(todo)) : w.op # "exit" /\ w.op # "try"
  BY <1>1, TryLives
<1>3. PICK u, q : u = running /\ q = waitingQueue
  OBVIOUS
<1>4. /\ todo # <<>> /\ Obj = u /\ u \in Thread /\ status[u] = "Ready" /\ Head(todo).op = "try"
      /\ q \in Seq(Thread) /\ status \in [Thread -> Status]
  BY <1>1, <1>3, TryHead DEF Doing, Inv, TypeOK
<1>5. \A w \in Pending(todo') : w \in Pending(Tail(todo)) \/ w.op \in {"elapse", "rotate"}
  <2>1. CASE todo' = Tail(todo)
    BY <2>1
  <2>2. CASE todo' = Reschedule(u) \o Tail(todo)
    <3>1. PICK ts : ts = Reschedule(u)
      OBVIOUS
    <3>2. ts \in Seq(GoodTask) /\ \A w \in Pending(ts) : w.op \in {"elapse", "rotate"}
      BY <1>4, <3>1, ReturnPending
    <3>3. Pending(todo') = Pending(ts) \cup Pending(Tail(todo))
      BY <1>4, <2>2, <3>1, <3>2, ThenWork
    <3> QED BY <3>2, <3>3
  <2> QED BY <1>4, <2>1, <2>2 DEF TryDone, Then, Done
<1>6. ~Tries(todo') /\ ~Exits(todo') /\ Tries(todo)
  BY <1>2, <1>4, <1>5 DEF Tries, Exits
<1>7. \A w \in Pending(todo') : w.op \in Wakes \cup {"notify"} => w \in Pending(todo)
  BY <1>2, <1>5 DEF Wakes
<1>8. Steady
  BY <1>1, <1>6, <1>7 DEF Steady
<1>9. CASE UNCHANGED <<status, waitingQueue>>
  <2>1. Calm
    BY <1>1, <1>6, <1>7, <1>9 DEF Calm
  <2> QED BY <1>8, <2>1, LifeCalm, FinalCalm
<1>10. CASE status' = [status EXCEPT ![u] = "Sleeping"] /\ waitingQueue' = Await(u)
  <2>1. \A t \in Thread : status'[t] = (IF t = u THEN "Sleeping" ELSE status[t])
    BY <1>4, <1>10
  <2>2. /\ \A x : Contains(waitingQueue', x) => Contains(q, x) \/ x = u
        /\ timeoutAt[u] = Never => waitingQueue' = q
    <3>1. waitingQueue' = q \/ waitingQueue' = Append(q, u)
      BY <1>3, <1>10 DEF Await
    <3>2. \A x : Contains(Append(q, u), x) => Contains(q, x) \/ x = u
      BY <1>4, ContainsAppend
    <3>3. timeoutAt[u] = Never => waitingQueue' = q
      BY <1>3, <1>10 DEF Await
    <3> QED BY <3>1, <3>2, <3>3
  <2>3. LifeInv'
    <3>1. \A t \in Thread : status'[t] = "Uncreated" =>
             waitList'[t] = <<>> /\ running' # t /\ ~Contains(waitingQueue', t)
      BY <1>1, <1>3, <2>1, <2>2 DEF LifeInv, Living
    <3>2. \A t \in Thread : \/ status'[t] = status[t]
                            \/ /\ status'[t] # "Uncreated" /\ (status'[t] = "Stopped" => t \in exited')
                               /\ status[t] # "Uncreated" \/ t \in listed'
      BY <1>4, <2>1
    <3> QED BY <1>1, <1>7, <3>1, <3>2, LifeStep
  <2>4. ASSUME FinalInv PROVE FinalInv'
    <3>1. timeoutAt[u] = Never
      BY <1>3, <1>6, <2>4 DEF FinalInv, TriesUntimed
    <3>2. waitingQueue' = q /\ ~Contains(q, u) /\ u \notin exited
      BY <1>3, <1>4, <2>2, <2>4, <3>1 DEF FinalInv, QueueSleeps, EndedStopped
    <3>3. exited \subseteq Thread
      BY DEF Inv, TypeOK
    <3>4. EndedStopped'
      BY <1>1, <2>1, <2>4, <3>2, <3>3 DEF FinalInv, EndedStopped
    <3>5. QueueSleeps' /\ Distinct(waitingQueue)'
      BY <1>3, <2>1, <2>4, <3>2 DEF FinalInv, QueueSleeps
    <3>6. WakesWaiting'
      BY <1>1, <1>3, <1>7, <2>4, <3>2 DEF FinalInv, WakesWaiting
    <3>7. TriesUntimed'
      BY <1>6 DEF TriesUntimed
    <3> QED BY <3>4, <3>5, <3>6, <3>7 DEF FinalInv
  <2> QED BY <1>8, <2>3, <2>4
<1> QED BY <1>4, <1>9, <1>10 DEF TryDone, queueVars

(* The thread ends. *)
LEMMA LifeExitThread ==
    ASSUME Inv, Inv', ExitInv, ExitInv', LifeInv, ReachInv, ExitThread
    PROVE  LifeInv' /\ ReachInv' /\ (FinalInv => FinalInv')
<1>1. PICK u : u = running
  OBVIOUS
<1>2. /\ fault = "none" /\ todo # <<>> /\ Head(todo).op = "exit" /\ todo' = Tail(todo)
      /\ status' = [status EXCEPT ![Obj] = "Stopped"] /\ exited' = exited \cup {Obj}
      /\ UNCHANGED <<waitList, timeoutAt, waitingQueue, owner, listed, open, running, fault>>
  BY DEF ExitThread, Doing, Done, objectVars
<1>3. AtRest /\ todo \in Seq(GoodTask) /\ status \in [Thread -> Status] /\ exited \subseteq Thread
  <2>1. Head(todo).op \notin Wakes \cup {"drop"}
    BY <1>2 DEF Wakes
  <2> QED BY <1>2, <2>1, HeadCases DEF Inv, TypeOK
<1>4. Obj = u /\ u \in Thread /\ status[u] = "Ready" /\ Settled(todo, u) /\ ~HasCalls(Tail(todo))
  BY <1>1, <1>2, <1>3, RestsTail DEF AtRest, Calls, Obj, Rests
<1>5. /\ Pending(todo) = {Head(todo)} \cup Pending(todo')
      /\ \A w \in Pending(todo) : w.op \notin Wakes
      /\ \A w \in Pending(todo') : w.op \notin {"try", "exit"}
  <2>1. Pending(todo) = {Head(todo)} \cup Pending(todo')
    BY <1>2, TailWork
  <2>2. \A w \in Pending(todo) : w.op \notin Wakes
    BY <1>4 DEF Settled, Pending
  <2>3. \A w \in Pending(todo') : w.op \notin {"try", "exit"}
    BY <1>2, <1>4, PendingFacts DEF Calls
  <2> QED BY <2>1, <2>2, <2>3
<1>6. \A t \in Thread : status'[t] = (IF t = u THEN "Stopped" ELSE status[t])
  BY <1>2, <1>3, <1>4
<1>7. LifeInv'
  <2>1. \A t \in Thread : status'[t] = "Uncreated" =>
           waitList'[t] = <<>> /\ running' # t /\ ~Contains(waitingQueue', t)
    BY <1>2, <1>6 DEF LifeInv, Living
  <2>2. \A t \in Thread : \/ status'[t] = status[t]
                          \/ /\ status'[t] # "Uncreated" /\ (status'[t] = "Stopped" => t \in exited')
                             /\ status[t] # "Uncreated" \/ t \in listed'
    BY <1>2, <1>4, <1>6
  <2> QED BY <1>2, <1>5, <2>1, <2>2, LifeStep
<1>8. ReachInv'
  <2>1. ~Tries(todo') /\ ~Exits(todo') /\ Exits(todo)
    BY <1>2, <1>5 DEF Tries, Exits
  <2>2. \A w \in Pending(todo') : w.op = "notify" /\ w.obj \in Mutex => w.obj \in open
    BY <1>2, <1>5, <2>1 DEF ReachInv, NotifiesOwned
  <2> QED BY <1>2, <2>1, <2>2 DEF ReachInv, TriesOpen, NotifiesOwned
<1>9. ASSUME FinalInv PROVE FinalInv'
  <2>1. EndedStopped'
    BY <1>2, <1>3, <1>4, <1>6, <1>9 DEF FinalInv, EndedStopped
  <2>2. QueueSleeps' /\ Distinct(waitingQueue)'
    BY <1>2, <1>4, <1>6, <1>9 DEF FinalInv, QueueSleeps
  <2>3. WakesWaiting'
    BY <1>5 DEF WakesWaiting
  <2>4. TriesUntimed'
    BY <1>5 DEF TriesUntimed, Tries
  <2> QED BY <2>1, <2>2, <2>3, <2>4 DEF FinalInv
<1> QED BY <1>7, <1>8, <1>9

(* A thread is created. *)
LEMMA LifeCreate ==
    ASSUME Inv, Inv', LifeInv, NEW t \in Thread, SVCCreateThread(t)
    PROVE  LifeInv' /\ Steady /\ (FinalInv => FinalInv')
<1>1. PICK new \in Thread :
        /\ status[new] = "Uncreated" /\ status' = [status EXCEPT ![new] = "Ready"]
        /\ listed' = listed \cup {new} /\ open' = open \cup {new}
  BY DEF SVCCreateThread
<1>2. UNCHANGED <<waitList, timeoutAt, waitingQueue, owner, exited, running>> /\ Return(t, Reschedule(t))
  BY DEF SVCCreateThread, objectVars
<1>3. \A w \in Pending(todo') : w.op \in {"elapse", "rotate", "leave"}
  <2>1. <<>> \in Seq(GoodTask)
    BY PendingTuples
  <2> QED BY <1>2, <2>1, CallWork
<1>4. ~Tries(todo') /\ ~Exits(todo') /\ \A w \in Pending(todo') : w.op \notin Wakes \cup {"notify"}
  BY <1>3 DEF Tries, Exits, Wakes
<1>5. \A u \in Thread : status'[u] = (IF u = new THEN "Ready" ELSE status[u])
  <2>1. status \in [Thread -> Status]
    BY DEF Inv, TypeOK
  <2> QED BY <1>1, <2>1
<1>6. LifeInv'
  <2>1. \A u \in Thread : status'[u] = "Uncreated" =>
           waitList'[u] = <<>> /\ running' # u /\ ~Contains(waitingQueue', u)
    BY <1>2, <1>5 DEF LifeInv, Living
  <2>2. \A u \in Thread : \/ status'[u] = status[u]
                          \/ /\ status'[u] # "Uncreated" /\ (status'[u] = "Stopped" => u \in exited')
                             /\ status[u] # "Uncreated" \/ u \in listed'
    BY <1>1, <1>5
  <2> QED BY <1>1, <1>2, <1>4, <2>1, <2>2, LifeStep
<1>7. Steady
  <2>1. Mutex \cap Thread = {}
    BY KernelAssumption
  <2>2. Mutex \cap open' = Mutex \cap open
    BY <1>1, <2>1
  <2> QED BY <1>2, <1>4, <2>2 DEF Steady
<1>8. ASSUME FinalInv PROVE FinalInv'
  <2>1. ~Contains(waitingQueue, new) /\ new \notin exited /\ exited \subseteq Thread
    BY <1>1, <1>8 DEF FinalInv, QueueSleeps, EndedStopped, Inv, TypeOK
  <2>2. EndedStopped'
    BY <1>2, <1>5, <1>8, <2>1 DEF FinalInv, EndedStopped
  <2>3. QueueSleeps' /\ Distinct(waitingQueue)'
    BY <1>2, <1>5, <1>8, <2>1 DEF FinalInv, QueueSleeps
  <2>4. WakesWaiting' /\ TriesUntimed'
    BY <1>4 DEF WakesWaiting, TriesUntimed
  <2> QED BY <2>2, <2>3, <2>4 DEF FinalInv
<1> QED BY <1>6, <1>7, <1>8

(* A thread sleeps for a time. *)
LEMMA LifeSleep ==
    ASSUME Inv, Inv', LifeInv, NEW t \in Thread, SVCSleepThread(t)
    PROVE  LifeInv' /\ Steady /\ (FinalInv => FinalInv')
<1>1. /\ InSVC(t) /\ status' = [status EXCEPT ![t] = "WaitingForTimeout"]
      /\ waitingQueue' = Append(waitingQueue, t) /\ Return(t, <<>>)
      /\ UNCHANGED <<waitList, owner, exited, listed, open, running>>
  BY DEF SVCSleepThread, objectVars
<1>2. /\ status[t] = "Ready" /\ running = t /\ status \in [Thread -> Status]
      /\ waitingQueue \in Seq(Thread) /\ exited \subseteq Thread
  BY <1>1, CallState DEF Inv, TypeOK
<1>3. \A w \in Pending(todo') : w.op = "leave"
  <2>1. <<>> \in Seq(GoodTask) /\ Task("leave", t, 0).op = "leave"
    BY PendingTuples, TaskTypes
  <2>2. Pending(todo') = {Task("leave", t, 0)}
    BY <1>1, <2>1, CallWork
  <2> QED BY <2>1, <2>2
<1>4. ~Tries(todo') /\ ~Exits(todo') /\ \A w \in Pending(todo') : w.op \notin Wakes \cup {"notify"}
  BY <1>3 DEF Tries, Exits, Wakes
<1>5. \A u \in Thread : status'[u] = (IF u = t THEN "WaitingForTimeout" ELSE status[u])
  BY <1>1, <1>2
<1>6. PICK q : q = waitingQueue
  OBVIOUS
<1>7. /\ \A x : Contains(waitingQueue', x) <=> Contains(q, x) \/ x = t
      /\ Distinct(q) /\ ~Contains(q, t) => Distinct(waitingQueue')
  BY <1>1, <1>2, <1>6, ContainsAppend
<1>8. LifeInv'
  <2>1. \A u \in Thread : status'[u] = "Uncreated" =>
           waitList'[u] = <<>> /\ running' # u /\ ~Contains(waitingQueue', u)
    BY <1>1, <1>5, <1>6, <1>7 DEF LifeInv, Living
  <2>2. \A u \in Thread : \/ status'[u] = status[u]
                          \/ /\ status'[u] # "Uncreated" /\ (status'[u] = "Stopped" => u \in exited')
                             /\ status[u] # "Uncreated" \/ u \in listed'
    BY <1>2, <1>5
  <2> QED BY <1>1, <1>4, <2>1, <2>2, LifeStep
<1>9. Steady
  BY <1>1, <1>4 DEF Steady
<1>10. ASSUME FinalInv PROVE FinalInv'
  <2>1. ~Contains(q, t) /\ t \notin exited
    BY <1>2, <1>6, <1>10 DEF FinalInv, QueueSleeps, EndedStopped
  <2>2. EndedStopped'
    BY <1>1, <1>2, <1>5, <1>10, <2>1 DEF FinalInv, EndedStopped
  <2>3. QueueSleeps' /\ Distinct(waitingQueue)'
    BY <1>5, <1>6, <1>7, <1>10, <2>1 DEF FinalInv, QueueSleeps
  <2>4. WakesWaiting' /\ TriesUntimed'
    BY <1>4 DEF WakesWaiting, TriesUntimed
  <2> QED BY <2>2, <2>3, <2>4 DEF FinalInv
<1> QED BY <1>8, <1>9, <1>10

(* A thread starts to wait for objects of the handle table. *)
LEMMA LifeWait ==
    ASSUME Inv, Inv', LifeInv, NEW t \in Thread, SVCWaitSynchronizationN(t)
    PROVE  LifeInv' /\ ReachInv' /\ (Timeouts \subseteq {Never} /\ FinalInv => FinalInv')
<1>1. PICK objects, timeout :
        /\ Range(objects) \subseteq open /\ timeout \in Timeouts
        /\ timeoutAt' = [timeoutAt EXCEPT ![t] = timeout]
        /\ waitList' = [waitList EXCEPT ![t] = objects]
  BY DEF SVCWaitSynchronizationN
<1>2. /\ InSVC(t) /\ Return(t, <<Task("try", t, 1)>>)
      /\ UNCHANGED <<status, waitingQueue, owner, exited, listed, open, running>>
  BY DEF SVCWaitSynchronizationN, objectVars, queueVars
<1>3. /\ status[t] = "Ready" /\ running = t /\ waitList \in [Thread -> Seq(Object)]
      /\ timeoutAt \in [Thread -> Nat \cup {Never}]
  BY <1>2, CallState DEF Inv, TypeOK
<1>4. \A w \in Pending(todo') : w.op \in {"try", "leave"}
  <2>1. PICK a : a = Task("try", t, 1)
    OBVIOUS
  <2>2. a \in GoodTask /\ a.op = "try" /\ Task("leave", t, 0).op = "leave"
    BY <2>1, TaskTypes
  <2>3. PICK s : s = <<a>>
    OBVIOUS
  <2>4. s \in Seq(GoodTask) /\ Pending(s) = {a} /\ Return(t, s)
    BY <1>2, <2>1, <2>2, <2>3, PendingTuples
  <2>5. Pending(todo') = Pending(s) \cup {Task("leave", t, 0)}
    BY <2>4, CallWork
  <2> QED BY <2>2, <2>4, <2>5
<1>5. \A w \in Pending(todo') : w.op \notin Wakes \cup {"notify", "exit"}
  BY <1>4 DEF Wakes
<1>6. LifeInv'
  <2>1. \A u \in Thread : status'[u] = "Uncreated" =>
           waitList'[u] = <<>> /\ running' # u /\ ~Contains(waitingQueue', u)
    BY <1>1, <1>2, <1>3 DEF LifeInv, Living
  <2> QED BY <1>2, <1>5, <2>1, LifeStep
<1>7. ReachInv'
  <2>1. \A m \in Mutex \ open : ~Contains(objects, m)
    <3>1. \A m : Contains(objects, m) => m \in open
      BY <1>1 DEF Contains, Range
    <3> QED BY <3>1
  <2>2. TriesOpen'
    BY <1>1, <1>2, <1>3, <2>1 DEF TriesOpen
  <2>3. NotifiesOwned'
    BY <1>5 DEF NotifiesOwned
  <2> QED BY <2>2, <2>3 DEF ReachInv
<1>8. ASSUME Timeouts \subseteq {Never}, FinalInv PROVE FinalInv'
  <2>1. EndedStopped' /\ QueueSleeps' /\ Distinct(waitingQueue)'
    BY <1>2, <1>8 DEF FinalInv, EndedStopped, QueueSleeps
  <2>2. WakesWaiting'
    BY <1>5 DEF WakesWaiting
  <2>3. timeoutAt'[t] = Never
    BY <1>1, <1>3, <1>8
  <2>4. TriesUntimed'
    BY <1>2, <1>3, <2>3 DEF TriesUntimed
  <2> QED BY <2>1, <2>2, <2>4 DEF FinalInv
<1> QED BY <1>6, <1>7, <1>8

-----------------------------------------------------------------------------
(* What holds of the threads in every behaviour.                            *)

(* Without calls of SVCExitThread nobody ends; without timeouts, those who *)
(* have ended stay so.                                                     *)
NoneEnded == exited = {} /\ ~Exits(todo)
EndInv == (CanExit = {} => NoneEnded) /\ (Timeouts \subseteq {Never} => FinalInv)
ThreadInv == LifeInv /\ ReachInv /\ EndInv

(* A step that is calm and steady keeps all of it. *)
LEMMA ThreadCalm ==
    ASSUME Inv, Inv', ThreadInv, Calm, Steady, fault' = "none" => fault = "none"
    PROVE  ThreadInv'
<1>1. LifeInv' /\ ReachInv'
  BY LifeCalm, ReachSteady DEF ThreadInv
<1>2. NoneEnded => NoneEnded'
  BY DEF NoneEnded, Calm, Steady
<1>3. FinalInv => FinalInv'
  BY FinalCalm
<1> QED BY <1>1, <1>2, <1>3 DEF ThreadInv, EndInv

(* So does one whose effect on the threads is known otherwise. *)
LEMMA ThreadSteady ==
    ASSUME ThreadInv, LifeInv', Steady, FinalInv => FinalInv', fault' = "none" => fault = "none"
    PROVE  ThreadInv'
<1>1. ReachInv'
  BY ReachSteady DEF ThreadInv
<1>2. NoneEnded => NoneEnded'
  BY DEF NoneEnded, Steady
<1> QED BY <1>1, <1>2 DEF ThreadInv, EndInv

(* The initial threads are listed and none of them has begun a call. *)
LEMMA ThreadInit == ASSUME Init PROVE ThreadInv
<1>1. /\ exited = {} /\ todo = <<>> /\ waitingQueue = <<>> /\ running = None /\ listed = Range(Main)
      /\ waitList = [t \in Thread |-> <<>>] /\ owner = [m \in Mutex |-> None]
      /\ status = [t \in Thread |-> IF t \in Range(Main) THEN "Ready" ELSE "Uncreated"]
  BY DEF Init
<1>2. Pending(todo) = {} /\ ~Tries(todo) /\ ~Exits(todo)
  BY <1>1, PendingTuples DEF Tries, Exits
<1>3. \A t : ~Contains(waitingQueue, t)
  BY <1>1 DEF Contains
<1>4. None \notin Thread
  BY KernelAssumption DEF Object
<1>5. LifeInv
  <2>1. Living
    BY <1>1, <1>3, <1>4 DEF Living
  <2> QED BY <1>1, <1>2, <2>1 DEF LifeInv, OwnersCreated, WakesCreated
<1>6. ReachInv
  BY <1>2 DEF ReachInv, TriesOpen, NotifiesOwned
<1>7. FinalInv
  <2>1. Distinct(waitingQueue)
    BY <1>1 DEF Distinct
  <2> QED BY <1>1, <1>2, <1>3, <2>1 DEF FinalInv, EndedStopped, QueueSleeps, WakesWaiting, TriesUntimed
<1> QED BY <1>1, <1>2, <1>5, <1>6, <1>7 DEF ThreadInv, EndInv, NoneEnded

(* What the dispatcher does by itself. *)
LEMMA ThreadKernel ==
    ASSUME Inv, Inv', ExitInv, ExitInv', ThreadInv, KernelStep \/ \E d \in {0, 1} : Dispatch(d)
    PROVE  ThreadInv'
<1>1. fault = "none"
  BY DEF KernelStep, NotifyStop, NotifyNext, Drop, Wake, Elapse, Timers, Interrupt, Expire, Rotate, Try, TryDone,
         ExitMutexes, ExitThread, Leave, Idle, Dispatch, Doing
<1>2. LifeInv /\ ReachInv
  BY DEF ThreadInv
<1>3. CASE NotifyStop \/ Elapse \/ Timers \/ Rotate \/ Interrupt
  BY <1>1, <1>3, CalmLoops, ThreadCalm
<1>4. CASE Drop \/ ExitMutexes
  BY <1>1, <1>4, CalmDrop, CalmExitMutexes, ThreadCalm
<1>5. CASE Idle \/ Leave \/ \E d \in {0, 1} : Dispatch(d)
  BY <1>1, <1>2, <1>5, CalmDispatch, ThreadCalm
<1>6. CASE NotifyNext \/ Try
  BY <1>1, <1>2, <1>6, CalmNotifyNext, CalmTry, ThreadCalm
<1>7. CASE Wake \/ Expire \/ TryDone
  BY <1>1, <1>2, <1>7, LifeWake, LifeExpire, LifeTryDone, ThreadSteady
<1>8. CASE ExitThread
  <2>1. LifeInv' /\ ReachInv' /\ (FinalInv => FinalInv')
    BY <1>2, <1>8, LifeExitThread
  <2>2. ~NoneEnded
    <3>1. todo # <<>> /\ Head(todo).op = "exit"
      BY <1>8 DEF ExitThread, Doing
    <3>2. Head(todo) \in Pending(todo)
      BY <3>1, TailWork
    <3> QED BY <3>1, <3>2 DEF NoneEnded, Exits
  <2> QED BY <2>1, <2>2 DEF ThreadInv, EndInv
<1> QED BY <1>3, <1>4, <1>5, <1>6, <1>7, <1>8 DEF KernelStep

(* What the programs do. *)
LEMMA ThreadCall ==
    ASSUME Inv, Inv', ExitInv, ThreadInv, NEW t \in Thread, SystemCall(t)
    PROVE  ThreadInv'
<1>1. fault = "none"
  BY DEF SystemCall, SVCCreateThread, SVCExitThread, SVCSleepThread, SVCWaitSynchronizationN, SVCReleaseMutex,
         SVCReleaseSemaphore, SVCSignalEvent, SVCClearEvent, SVCSetTimer, SVCCloseHandle, SVCGetSystemTick, InSVC
<1>2. LifeInv /\ ReachInv
  BY DEF ThreadInv
<1>3. CASE \/ SVCGetSystemTick(t) \/ SVCClearEvent(t) \/ SVCSetTimer(t) \/ SVCReleaseSemaphore(t)
           \/ SVCSignalEvent(t) \/ (SVCReleaseMutex(t) /\ fault' = "none")
  BY <1>1, <1>3, CalmCalls, ThreadCalm
<1>4. CASE SVCReleaseMutex(t) /\ fault' # "none"
  <2>1. UNCHANGED <<status, waitList, timeoutAt, waitingQueue, owner, exited, listed, open, running, todo>>
    BY <1>1, <1>4 DEF SVCReleaseMutex, Fail, threadVars, objectVars, queueVars
  <2> QED BY <1>1, <2>1, CalmStutter, ThreadCalm
<1>5. CASE SVCCreateThread(t) \/ SVCSleepThread(t)
  BY <1>1, <1>2, <1>5, LifeCreate, LifeSleep, ThreadSteady
<1>6. CASE SVCExitThread(t)
  <2>1. Calm /\ ReachInv' /\ CanExit # {}
    BY <1>2, <1>6, CalmSVCExit DEF SVCExitThread
  <2> QED BY <2>1, LifeCalm, FinalCalm DEF ThreadInv, EndInv
<1>7. CASE SVCCloseHandle(t)
  <2>1. Calm /\ ReachInv'
    BY <1>2, <1>7, CalmSVCCloseHandle
  <2>2. ~Exits(todo')
    <3>1. CallEffect(t)
      BY <1>7, ReleasingCalls
    <3> QED BY <3>1 DEF CallEffect, Exits
  <2>3. NoneEnded => NoneEnded'
    BY <2>1, <2>2 DEF NoneEnded, Calm
  <2> QED BY <2>1, <2>3, LifeCalm, FinalCalm DEF ThreadInv, EndInv
<1>8. CASE SVCWaitSynchronizationN(t)
  <2>1. LifeInv' /\ ReachInv' /\ (Timeouts \subseteq {Never} /\ FinalInv => FinalInv')
    BY <1>2, <1>8, LifeWait
  <2>2. Return(t, <<Task("try", t, 1)>>) /\ exited' = exited
    BY <1>8 DEF SVCWaitSynchronizationN
  <2>3. PICK a, s : a = Task("try", t, 1) /\ s = <<a>>
    OBVIOUS
  <2>4. a \in GoodTask /\ a.op = "try" /\ Task("leave", t, 0).op = "leave"
    BY <2>3, TaskTypes
  <2>5. s \in Seq(GoodTask) /\ Pending(s) = {a} /\ Return(t, s)
    BY <2>2, <2>3, <2>4, PendingTuples
  <2>6. ~Exits(todo')
    BY <2>4, <2>5, CallWork DEF Exits
  <2> QED BY <2>1, <2>2, <2>6 DEF ThreadInv, EndInv, NoneEnded
<1> QED BY <1>3, <1>4, <1>5, <1>6, <1>7, <1>8 DEF SystemCall

(* Every step keeps ThreadInv. *)
LEMMA ThreadNext == ASSUME Inv, Inv', ExitInv, ExitInv', ThreadInv, [Next]_vars PROVE ThreadInv'
<1>1. CASE UNCHANGED vars
  <2>1. UNCHANGED <<status, waitList, timeoutAt, waitingQueue, owner, exited, listed, open, running, todo, fault>>
    BY <1>1 DEF vars, threadVars, objectVars, queueVars
  <2> QED BY <2>1, CalmStutter, ThreadCalm
<1> QED BY <1>1, ThreadKernel, ThreadCall DEF Next, Halted

(* The invariants of the kernel together. *)
KernelInv == Inv /\ ExitInv /\ ThreadInv

(* They hold in every behaviour. *)
LEMMA KernelInvariance == Spec => []KernelInv
<1>1. Init => KernelInv
  BY InitInv, ExitInit, ThreadInit DEF KernelInv
<1>2. KernelInv /\ [Next]_vars => KernelInv'
  <2> SUFFICES ASSUME KernelInv, [Next]_vars PROVE KernelInv'
    OBVIOUS
  <2>1. Inv' /\ ExitInv'
    BY NextInv, ExitNext DEF KernelInv
  <2> QED BY <2>1, ThreadNext DEF KernelInv
<1> QED BY <1>1, <1>2, PTL DEF Spec

-----------------------------------------------------------------------------
(* What the dispatcher finds.                                               *)

(* A thread that owns a mutex and has not ended is still there. *)
LEMMA OwnerAlive ==
    ASSUME Inv, LifeInv, NEW o, o \in Mutex => owner[o] \notin exited
    PROVE  ~OwnerDestroyed(o)
<1> SUFFICES ASSUME o \in Mutex, lockCount[o] > 0 PROVE Alive(owner[o])
  BY DEF OwnerDestroyed
<1>1. owner[o] # None /\ owner[o] \in Thread
  BY DEF Inv, MutexInv, TypeOK
<1>2. owner[o] \in listed \cup exited
  BY <1>1 DEF LifeInv, OwnersCreated, Living
<1> QED BY <1>2 DEF Alive

(* The mutex that the dispatcher looks at has no destroyed owner. *)
LEMMA LookedAt ==
    ASSUME KernelInv, NotifyNext \/ Try
    PROVE  /\ NotifyNext => ~OwnerDestroyed(Obj)
           /\ Try => ~OwnerDestroyed(waitList[Obj][At])
<1>1. Inv /\ ExitInv /\ LifeInv /\ ReachInv /\ fault = "none" /\ todo # <<>>
  BY DEF KernelInv, ThreadInv, NotifyNext, Try, Doing
<1>2. /\ \A m \in Mutex \cap open : lockCount[m] > 0 => owner[m] \notin exited
      /\ \A m : OwnerDestroyed(m) => m \in Mutex /\ lockCount[m] > 0
  BY <1>1 DEF ExitInv, OwnersLive, OwnerDestroyed
<1>3. ASSUME NEW m, m \in Mutex => m \in open \/ owner[m] \notin exited PROVE ~OwnerDestroyed(m)
  BY <1>1, <1>2, <1>3, OwnerAlive
<1>4. CASE NotifyNext
  <2>1. Head(todo).op = "notify" /\ Head(todo) \in Pending(todo)
    BY <1>1, <1>4, TailWork DEF NotifyNext, Doing
  <2>2. Obj \in Mutex => Obj \in open \/ owner[Obj] \notin exited
    BY <1>1, <2>1 DEF ReachInv, NotifiesOwned, Obj
  <2>3. ~OwnerDestroyed(Obj)
    BY <1>3, <2>2
  <2> QED BY <1>4, <2>3 DEF NotifyNext, Try, Doing
<1>5. CASE Try
  <2>1. Head(todo).op = "try" /\ Head(todo) \in Pending(todo) /\ Doing("try") /\ At <= Len(waitList[Obj])
    BY <1>1, <1>5, TailWork DEF Try, Doing
  <2>2. Obj = running /\ running \in Thread /\ At \in Nat /\ At >= 1
    BY <1>1, <2>1, TryHead
  <2>3. PICK k, q : k = At /\ q = waitList[Obj]
    OBVIOUS
  <2>4. Len(q) \in Nat
    <3>1. waitList[Obj] \in Seq(Object)
      BY <1>1, <2>2 DEF Inv, TypeOK
    <3> QED BY <2>3, <3>1, LenProperties
  <2>5. k \in 1..Len(q)
    BY <2>1, <2>2, <2>3, <2>4
  <2>6. Contains(q, q[k])
    BY <2>5 DEF Contains
  <2>7. q[k] \in Mutex => q[k] \in open
    BY <1>1, <2>1, <2>2, <2>3, <2>6 DEF ReachInv, TriesOpen, Tries
  <2>8. ~OwnerDestroyed(q[k])
    BY <1>3, <2>7
  <2> QED BY <1>5, <2>1, <2>3, <2>8 DEF NotifyNext, Doing
<1> QED BY <1>4, <1>5

(* The steps that can fail, and how. *)
LEMMA Faults ==
    ASSUME Inv', KernelInv, [Next]_vars, fault' # fault
    PROVE  \/ fault' \in Errors
           \/ /\ \E d \in {0, 1} : Dispatch(d)
              /\ fault' \in {"expired thread in ready queue", "ended thread resumed"}
<1>1. fault' \notin Bookkeeping
  BY DEF Inv
<1>2. CASE KernelStep
  <2>1. ~(NotifyStop \/ Wake \/ Elapse \/ Timers \/ Interrupt \/ Expire \/ Rotate \/ TryDone \/ ExitThread \/ Leave \/ Idle)
    BY DEF NotifyStop, Wake, Elapse, Timers, Interrupt, Expire, Rotate, TryDone, ExitThread, Leave, Idle
  <2>2. CASE NotifyNext
    <3>1. ~OwnerDestroyed(Obj)
      BY <2>2, LookedAt
    <3> QED BY <1>1, <2>2, <3>1 DEF NotifyNext, Bookkeeping
  <2>3. CASE Try
    <3>1. ~OwnerDestroyed(waitList[Obj][At])
      BY <2>3, LookedAt
    <3> QED BY <2>3, <3>1 DEF Try
  <2>4. CASE Drop
    BY <1>1, <2>4 DEF Drop, Bookkeeping
  <2>5. CASE ExitMutexes
    BY <2>5 DEF ExitMutexes, Errors
  <2> QED BY <1>2, <2>1, <2>2, <2>3, <2>4, <2>5 DEF KernelStep
<1>3. ASSUME NEW d \in {0, 1}, Dispatch(d)
      PROVE  fault' \in {"expired thread in ready queue", "ended thread resumed"}
  BY <1>1, <1>3 DEF Dispatch, Bookkeeping
<1>4. ASSUME NEW t \in Thread, SystemCall(t) PROVE fault' \in Errors
  <2>1. CASE SVCReleaseMutex(t)
    BY <2>1 DEF SVCReleaseMutex, Fail, Errors
  <2>2. CASE SVCWaitSynchronizationN(t)
    BY <1>1, <2>2 DEF SVCWaitSynchronizationN, Bookkeeping
  <2>3. ~(\/ SVCCreateThread(t) \/ SVCExitThread(t) \/ SVCSleepThread(t) \/ SVCReleaseSemaphore(t) \/ SVCSignalEvent(t)
          \/ SVCClearEvent(t) \/ SVCSetTimer(t) \/ SVCCloseHandle(t) \/ SVCGetSystemTick(t))
    BY DEF SVCCreateThread, SVCExitThread, SVCSleepThread, SVCReleaseSemaphore, SVCSignalEvent, SVCClearEvent,
           SVCSetTimer, SVCCloseHandle, SVCGetSystemTick
  <2> QED BY <1>4, <2>1, <2>2, <2>3 DEF SystemCall
<1>5. ~UNCHANGED vars
  BY DEF vars
<1> QED BY <1>2, <1>3, <1>4, <1>5 DEF Next, Halted

(* Mutex::TryAcquireImpl throws when the owner of a locked mutex has been  *)
(* destroyed; it never does, although handles of locked mutexes are closed *)
(* and threads end without giving up a mutex that is not in the table.     *)
THEOREM OwnersNotDestroyed == Spec => [](fault # "mutex owner destroyed")
<1>1. Init => fault # "mutex owner destroyed"
  BY DEF Init
<1>2. KernelInv /\ KernelInv' /\ fault # "mutex owner destroyed" /\ [Next]_vars => (fault # "mutex owner destroyed")'
  <2> SUFFICES ASSUME KernelInv, KernelInv', [Next]_vars, fault' # fault PROVE fault' # "mutex owner destroyed"
    OBVIOUS
  <2>1. Inv'
    BY DEF KernelInv
  <2>2. fault' \in Errors \/ fault' \in {"expired thread in ready queue", "ended thread resumed"}
    BY <2>1, Faults
  <2> QED BY <2>2 DEF Errors
<1> QED BY <1>1, <1>2, KernelInvariance, PTL DEF Spec

(* The thread at the front of the ready queue is listed and has not ended. *)
LEMMA FrontAlive ==
    ASSUME KernelInv, EndedStopped, NEW d \in {0, 1}, Dispatch(d)
    PROVE  fault' \notin {"expired thread in ready queue", "ended thread resumed"}
<1>1. PICK t : t = Head(readyQueue)
  OBVIOUS
<1>2. readyQueue \in Seq(Thread) /\ readyQueue # <<>> /\ fault = "none"
  BY DEF KernelInv, Inv, TypeOK, Dispatch
<1>3. t \in Thread /\ Contains(readyQueue, t)
  <2>1. Len(readyQueue) \in Nat /\ Len(readyQueue) # 0 /\ t = readyQueue[1]
    BY <1>1, <1>2, LenProperties, EmptySeq
  <2>2. 1 \in 1..Len(readyQueue)
    BY <2>1
  <2> QED BY <1>2, <2>1, <2>2, ElementOfSeq DEF Contains
<1>4. status[t] = "Ready"
  BY <1>3 DEF KernelInv, Inv, ReadyInv
<1>5. t \notin exited /\ t \in listed
  BY <1>3, <1>4 DEF KernelInv, ThreadInv, LifeInv, Living, EndedStopped
<1> QED BY <1>1, <1>2, <1>5 DEF Dispatch, Alive

(* No assertion of the scheduler fails in programs that wait without       *)
(* timeouts or in which no thread calls SVCExitThread: the dispatcher      *)
(* finds no thread in ready_queue that waits, has ended or has expired,    *)
(* and what BookkeepingHolds and OwnersNotDestroyed say.  (A thread that   *)
(* ends after a wait with a timeout may still be in waiting_queue, where   *)
(* the dispatcher wakes it once more.)                                     *)
THEOREM AssertionsNeverFail ==
    ASSUME CanExit = {} \/ Timeouts \subseteq {Never}
    PROVE  Spec => []AssertionsHold
<1>1. Init => AssertionsHold
  BY DEF Init, AssertionsHold, Assertions, Bookkeeping
<1>2. KernelInv /\ KernelInv' /\ AssertionsHold /\ [Next]_vars => AssertionsHold'
  <2> SUFFICES ASSUME KernelInv, KernelInv', [Next]_vars, AssertionsHold, fault' # fault PROVE AssertionsHold'
    BY DEF AssertionsHold
  <2>1. Inv' /\ EndedStopped
    BY DEF KernelInv, ThreadInv, EndInv, NoneEnded, FinalInv, EndedStopped
  <2>2. fault' \in Errors
    BY <2>1, Faults, FrontAlive
  <2> QED BY <2>2 DEF AssertionsHold, Assertions, Bookkeeping, Errors
<1> QED BY <1>1, <1>2, KernelInvariance, PTL DEF Spec

(* Nothing takes a thread out of the set of those that have ended. *)
LEMMA ExitedStay == ASSUME [Next]_vars PROVE exited \subseteq exited'
<1>1. CASE KernelStep
  BY <1>1 DEF KernelStep, NotifyStop, NotifyNext, Drop, Wake, Elapse, Timers, Interrupt, Expire, Rotate, Try, TryDone,
              ExitMutexes, ExitThread, Leave, Idle
<1>2. CASE \E d \in {0, 1} : Dispatch(d)
  BY <1>2 DEF Dispatch
<1>3. CASE \E t \in Thread : SystemCall(t)
  BY <1>3 DEF SystemCall, SVCCreateThread, SVCExitThread, SVCSleepThread, SVCWaitSynchronizationN, SVCReleaseMutex, Fail,
              SVCReleaseSemaphore, SVCSignalEvent, SVCClearEvent, SVCSetTimer, SVCCloseHandle, SVCGetSystemTick
<1> QED BY <1>1, <1>2, <1>3 DEF Next, Halted, vars

(* "thread exited and is waiting for its destruction": in programs that    *)
(* wait without timeouts nothing wakes a thread that has called            *)
(* SVCExitThread.                                                          *)
THEOREM StoppedThreadsStay ==
    ASSUME Timeouts \subseteq {Never}
    PROVE  Spec => StoppedIsFinal
<1>1. KernelInv /\ KernelInv' /\ [Next]_vars =>
         [\A t \in Thread : status[t] = "Stopped" => status'[t] = "Stopped"]_vars
  <2> SUFFICES ASSUME KernelInv, KernelInv', [Next]_vars, NEW t \in Thread, status[t] = "Stopped"
               PROVE  status'[t] = "Stopped"
    OBVIOUS
  <2>1. t \in exited
    BY DEF KernelInv, ThreadInv, LifeInv, Living
  <2>2. EndedStopped'
    BY DEF KernelInv, ThreadInv, EndInv, FinalInv
  <2>3. exited \subseteq exited'
    BY ExitedStay
  <2> QED BY <2>1, <2>2, <2>3 DEF EndedStopped
<1> QED BY <1>1, KernelInvariance, PTL DEF Spec, StoppedIsFinal
=============================================================================
