---------------------------- MODULE SystemProofs ----------------------------
(***************************************************************************)
(* Theorems about the address arbiter and the audio service, two parts of  *)
(* the system software that MCSystem runs: Arbiter, for any threads,       *)
(* processes, programs' words and priorities, and Dsp, for any size of its *)
(* pipes and any lengths of what is read and written.                      *)
(*                                                                         *)
(* Arbiter: the comparison with the word and going to sleep are one step,  *)
(* so that a thread falls asleep only at a word below one.  What can be    *)
(* wrong afterwards is the doing of another thread, and that one is still  *)
(* before its signal.  TokensReach is not inductive: awake threads that    *)
(* are as many as those asleep may take tokens, and there would be others  *)
(* left.  TokensCovered is: while anybody sleeps, each token has a thread  *)
(* of its own on the way to it.                                            *)
(*                                                                         *)
(* Dsp: the bytes that lie between the cursors are the bytes that were     *)
(* sent and not read yet (Holds).  A write goes to places where none of    *)
(* them lies and a read takes the first of them, each in two turns of its  *)
(* loop, of which only the first can end at the wrap.  An announcement     *)
(* raises the interrupt because its word comes first and is noted by the   *)
(* same handlers as its semaphore (WordFirst).                             *)
(***************************************************************************)
EXTENDS Arbiter, Dsp, ListLemmas, FiniteSetTheorems, SequenceTheorems, TLAPS

(* Where a thread is when it is not ready, and that its process exists. *)
ThreadsRight == \A t \in Threads :
  /\ arb.status[t] # "Uncreated" => Home(t) \in Procs
  /\ arb.status[t] \in {"Ready", "WaitingForArbitration"} => arb.entries[t] > 0
  /\ arb.status[t] = "WaitingForArbitration" => arb.pc[t] = "try"

Coming(p) == At(p, {"signal", "try", "call"})
TokensCovered == \A p \in Procs :
  arb.layout.word[p].use = "tokens" /\ Asleep(p) # {} => Cardinality(Coming(p)) >= arb.word[p]


-----------------------------------------------------------------------------
(* Lists.                                                                   *)

(* Turning a list moves its elements and keeps them. *)
LEMMA RotatedProperties ==
    ASSUME NEW S, NEW q \in Seq(S)
    PROVE  Rotated(q) \in Seq(S) /\ ToSet(Rotated(q)) = ToSet(q)
<1>0. \A r \in Seq(S) : \A x : x \in ToSet(r) <=> Contains(r, x)
  BY LenProperties DEF ToSet, Contains
<1>1. CASE q = <<>>
  BY <1>1 DEF Rotated
<1>2. CASE q # <<>>
  <2>1. PICK r, h : r = Tail(q) /\ h = Head(q)
    OBVIOUS
  <2>2. /\ r \in Seq(S) /\ h \in S /\ Contains(q, h)
        /\ \A e : Contains(r, e) => Contains(q, e)
        /\ \A e : Contains(q, e) /\ e # h => Contains(r, e)
    BY <1>2, <2>1, ContainsTail
  <2>3. Append(r, h) \in Seq(S) /\ \A e : Contains(Append(r, h), e) <=> Contains(r, e) \/ e = h
    BY <2>2, ContainsAppend
  <2>4. Rotated(q) = Append(r, h)
    BY <1>2, <2>1 DEF Rotated
  <2>5. \A e : Contains(Append(r, h), e) <=> Contains(q, e)
    BY <2>2, <2>3
  <2>6. PICK a : a = Append(r, h)
    OBVIOUS
  <2>7. a \in Seq(S) /\ \A e : e \in ToSet(a) <=> e \in ToSet(q)
    BY <1>0, <2>3, <2>5, <2>6
  <2> QED BY <2>4, <2>6, <2>7
<1> QED BY <1>1, <1>2

(* The elements of a list after one more was added, or one taken out. *)
LEMMA ToSetAppend ==
    ASSUME NEW S, NEW q \in Seq(S), NEW e \in S
    PROVE  Append(q, e) \in Seq(S) /\ ToSet(Append(q, e)) = ToSet(q) \cup {e}
<1>1. \A r \in Seq(S) : \A x : x \in ToSet(r) <=> Contains(r, x)
  BY LenProperties DEF ToSet, Contains
<1>2. PICK a : a = Append(q, e)
  OBVIOUS
<1>3. a \in Seq(S) /\ \A x : Contains(a, x) <=> Contains(q, x) \/ x = e
  BY <1>2, ContainsAppend
<1>4. \A x : x \in ToSet(a) <=> x \in ToSet(q) \cup {e}
  BY <1>1, <1>3
<1> QED BY <1>2, <1>3, <1>4

LEMMA ToSetErased ==
    ASSUME NEW S, NEW q \in Seq(S), NEW e
    PROVE  Erased(q, e) \in Seq(S) /\ ToSet(Erased(q, e)) = ToSet(q) \ {e}
<1>1. \A r \in Seq(S) : \A x : x \in ToSet(r) <=> Contains(r, x)
  BY LenProperties DEF ToSet, Contains
<1>2. PICK a : a = Erased(q, e)
  OBVIOUS
<1>3. a \in Seq(S) /\ \A x : Contains(a, x) <=> Contains(q, x) /\ x # e
  BY <1>2, ErasedProperties
<1>4. \A x : x \in ToSet(a) <=> x \in ToSet(q) \ {e}
  BY <1>1, <1>3
<1> QED BY <1>2, <1>3, <1>4

LEMMA ToSetConcat ==
    ASSUME NEW S, NEW p \in Seq(S), NEW q \in Seq(S)
    PROVE  p \o q \in Seq(S) /\ ToSet(p \o q) = ToSet(p) \cup ToSet(q)
<1>1. PICK r, m, n : r = p \o q /\ m = Len(p) /\ n = Len(q)
  OBVIOUS
<1>2. /\ r \in Seq(S) /\ Len(r) = m + n /\ m \in Nat /\ n \in Nat
      /\ \A i \in 1..(m + n) : r[i] = IF i <= m THEN p[i] ELSE q[i - m]
  BY <1>1, ConcatProperties, LenProperties
<1>3. ToSet(p) = {p[i] : i \in 1..m} /\ ToSet(q) = {q[i] : i \in 1..n} /\ ToSet(r) = {r[i] : i \in 1..(m + n)}
  BY <1>1, <1>2, LenProperties DEF ToSet
<1>4. ASSUME NEW i \in 1..(m + n) PROVE r[i] \in ToSet(p) \cup ToSet(q)
  <2>1. CASE i <= m
    BY <1>2, <1>3, <2>1
  <2>2. CASE i > m
    <3>1. i - m \in 1..n /\ r[i] = q[i - m]
      BY <1>2, <2>2
    <3> QED BY <1>3, <3>1
  <2> QED BY <1>2, <2>1, <2>2
<1>5. ASSUME NEW i \in 1..m PROVE p[i] \in ToSet(r)
  BY <1>2, <1>3, <1>5
<1>6. ASSUME NEW i \in 1..n PROVE q[i] \in ToSet(r)
  <2>1. PICK k : k = i + m
    OBVIOUS
  <2>2. k \in 1..(m + n) /\ ~(k <= m) /\ k - m = i
    BY <1>2, <2>1
  <2>3. r[k] = q[i]
    BY <1>2, <2>2
  <2> QED BY <1>3, <2>2, <2>3
<1>7. ToSet(r) = ToSet(p) \cup ToSet(q)
  BY <1>3, <1>4, <1>5, <1>6
<1> QED BY <1>1, <1>2, <1>7

-----------------------------------------------------------------------------
(* What the steps change.                                                   *)

Pcs == {"top", "signal", "try", "call"}
Statuses == {"Uncreated", "Ready", "WaitingForArbitration", "Stopped"}
Fields == {"layout", "word", "ready", "entries", "status", "pc", "fault"}
Waiting(t) == {u \in Threads : WaitingForArbitration(t, u)}

(* A step of a program on the word of its process. *)
StoreEffect(t, value, next) ==
  /\ arb'.layout = arb.layout /\ arb'.ready = arb.ready /\ arb'.entries = arb.entries
  /\ arb'.status = arb.status /\ arb'.fault = arb.fault
  /\ \A p \in Procs : arb'.word[p] = IF p = Home(t) THEN value ELSE arb.word[p]
  /\ \A u \in Threads : arb'.pc[u] = IF u = t THEN next ELSE arb.pc[u]

(* The other steps change at most one word, a few threads' status and the queue: W is woken, *)
(* t is given the program counter next. *)
SignalEffect(t, W) ==
  /\ arb'.layout = arb.layout /\ arb'.word = arb.word /\ arb'.entries = arb.entries
  /\ arb'.fault = arb.fault
  /\ ToSet(arb'.ready) = ToSet(arb.ready) \cup W
  /\ \A u \in Threads : arb'.status[u] = IF u \in W THEN "Ready" ELSE arb.status[u]
  /\ \A u \in Threads : arb'.pc[u] = IF u = t THEN "top" ELSE arb.pc[u]

(* A thread that runs has a process, whose word is a number. *)
LEMMA RunningThread ==
    ASSUME ArbTypeOK, ThreadsRight, NEW t \in Threads, Running(t)
    PROVE  arb.status[t] = "Ready" /\ Home(t) \in Procs /\ WordOf(t) \in Int /\ arb.entries[t] > 0
BY DEF ArbTypeOK, ThreadsRight, Running, WordOf

LEMMA StoreStep ==
    ASSUME ArbTypeOK, NEW t \in Threads, NEW value \in Int, NEW next \in Pcs, Store(t, value, next)
    PROVE  ArbTypeOK' /\ StoreEffect(t, value, next)
<1>1. /\ arb.word \in [Procs -> Int] /\ arb.pc \in [Threads -> Pcs]
  BY DEF ArbTypeOK, Pcs
<1>2. PICK w, q : /\ w = [arb.word EXCEPT ![Home(t)] = value]
                  /\ q = [arb.pc EXCEPT ![t] = next]
  OBVIOUS
<1>3. w \in [Procs -> Int] /\ \A p \in Procs : w[p] = IF p = Home(t) THEN value ELSE arb.word[p]
  BY <1>1, <1>2
<1>4. q \in [Threads -> Pcs] /\ \A u \in Threads : q[u] = IF u = t THEN next ELSE arb.pc[u]
  BY <1>1, <1>2
<1>5. arb' = [arb EXCEPT !.word = w, !.pc = q]
  BY <1>2 DEF Store, ArbTypeOK
<1>6. /\ arb'.layout = arb.layout /\ arb'.ready = arb.ready /\ arb'.entries = arb.entries
      /\ arb'.status = arb.status /\ arb'.fault = arb.fault /\ arb'.word = w /\ arb'.pc = q
  BY <1>5 DEF ArbTypeOK
<1>7. Procs' = Procs
  BY <1>6 DEF Procs
<1>8. ArbTypeOK'
  BY <1>3, <1>4, <1>5, <1>7 DEF ArbTypeOK, Pcs
<1> QED BY <1>3, <1>4, <1>6, <1>8 DEF StoreEffect

(* Whoever is woken was waiting at the address, somebody is if anybody was, and a signal for all *)
(* wakes all. *)
LEMMA SignalStep ==
    ASSUME ArbiterAssumption, ArbTypeOK, ThreadsRight, NEW t \in Threads, NEW count \in {-1, 1}, Signal(t, count)
    PROVE  /\ ArbTypeOK'
           /\ \E W \in SUBSET Waiting(t) : /\ SignalEffect(t, W)
                                           /\ W = {} => Waiting(t) = {}
                                           /\ count = -1 => W = Waiting(t)
<1> DEFINE waiting == Waiting(t)
           entry == {e \in waiting \X (1 .. 2) : e[2] <= arb.entries[e[1]]}
           size == Cardinality(entry)
           number == IF count < 0 \/ count > size THEN size ELSE count
<1>1. IsFiniteSet(entry) /\ size \in Nat
  <2>1. IsFiniteSet(Threads) /\ waiting \in SUBSET Threads
    BY DEF ArbiterAssumption, Waiting
  <2>2. IsFiniteSet(waiting)
    BY <2>1, FS_Subset
  <2>3. IsFiniteSet(waiting \X (1 .. 2))
    <3>1. PICK m, n : m = 1 /\ n = 2
      OBVIOUS
    <3>2. IsFiniteSet(m .. n)
      <4>1. m \in Int /\ n \in Int
        BY <3>1
      <4> QED BY <4>1, FS_Interval
    <3> HIDE DEF waiting
    <3>3. IsFiniteSet(waiting \X (m .. n))
      BY <2>2, <3>2, FS_Product
    <3> QED BY <3>1, <3>3
  <2>4. entry \in SUBSET (waiting \X (1 .. 2))
    OBVIOUS
  <2> HIDE DEF entry, waiting
  <2> QED BY <2>3, <2>4, FS_Subset, FS_CardinalityType
<1>2. \A u \in waiting : <<u, 1>> \in entry
  BY DEF Waiting, WaitingForArbitration, ThreadsRight, ArbTypeOK
<1>0. PICK first \in SUBSET entry :
        /\ Cardinality(first) = number
        /\ \E woken \in SetToSeqs(first) :
             arb' = [arb EXCEPT !.status = [u \in Threads |-> IF \E e \in first : e[1] = u THEN "Ready" ELSE @[u]],
                                !.ready = Rotated(@ \o [i \in DOMAIN woken |-> woken[i][1]]),
                                !.pc[t] = "top"]
  BY DEF Signal, Waiting
<1>3. PICK woken \in SetToSeqs(first) :
        arb' = [arb EXCEPT !.status = [u \in Threads |-> IF \E e \in first : e[1] = u THEN "Ready" ELSE @[u]],
                           !.ready = Rotated(@ \o [i \in DOMAIN woken |-> woken[i][1]]),
                           !.pc[t] = "top"]
  BY <1>0
<1> HIDE DEF entry, waiting
<1>4. number \in Nat /\ (number = 0 => size = 0) /\ (count = -1 => number = size)
  BY <1>1
<1>5. IsFiniteSet(first)
  BY <1>1, FS_Subset
<1>6. first = {} => entry = {}
  BY <1>0, <1>1, <1>4, FS_EmptySet
<1>7. count = -1 => first = entry
  BY <1>0, <1>1, <1>4, FS_Subset
<1>8. \A e \in entry : e[1] \in waiting
  BY DEF entry
<1>9. PICK W : W = {e[1] : e \in first}
  OBVIOUS
<1>10. W \in SUBSET waiting
  BY <1>8, <1>9
<1>11. W = {} => waiting = {}
  BY <1>2, <1>6, <1>9
<1>12. count = -1 => W = waiting
  <2> SUFFICES ASSUME count = -1, NEW u \in waiting PROVE u \in W
    BY <1>10
  <2>1. <<u, 1>> \in first
    BY <1>2, <1>7
  <2> QED BY <1>9, <2>1
<1>13. PICK list : list = [i \in DOMAIN woken |-> woken[i][1]]
  OBVIOUS
<1>14. list \in Seq(Threads) /\ ToSet(list) = W
  <2>1. PICK n : n = Cardinality(first)
    OBVIOUS
  <2>2. n \in Nat
    BY <1>5, <2>1, FS_CardinalityType
  <2>3. woken \in [1 .. n -> first] /\ \A i, j \in 1 .. n : i # j => woken[i] # woken[j]
    BY <2>1 DEF SetToSeqs
  <2>4. \A e \in first : \E i \in 1 .. n : woken[i] = e
    <3>1. woken \in Injection(1 .. n, first)
      BY <2>3 DEF Injection, IsInjective
    <3>2. PICK D : D = 1 .. n
      OBVIOUS
    <3>3. Cardinality(D) = n
      <4>1. \A m \in Int : Cardinality(m .. n) = IF m > n THEN 0 ELSE n - m + 1
        BY <2>2, FS_Interval
      <4> QED BY <2>2, <3>2, <4>1
    <3>4. woken \in Injection(D, first) /\ Cardinality(D) = Cardinality(first)
      BY <2>1, <3>1, <3>2, <3>3
    <3>5. woken \in Surjection(D, first)
      BY <1>5, <3>4, FS_Injection
    <3> QED BY <3>2, <3>5 DEF Surjection
  <2>5. \A e \in first : e[1] \in Threads
    BY <1>8 DEF waiting, Waiting
  <2>6. list = [i \in 1 .. n |-> woken[i][1]]
    BY <1>13, <2>3
  <2>7. list \in [1 .. n -> Threads]
    BY <2>3, <2>5, <2>6
  <2>8. list \in Seq(Threads) /\ DOMAIN list = 1 .. n
    BY <2>2, <2>7
  <2>9. ToSet(list) = {woken[i][1] : i \in 1 .. n}
    BY <2>6, <2>8 DEF ToSet
  <2>10. \A i \in 1 .. n : woken[i] \in first
    BY <2>3
  <2>11. ToSet(list) = W
    BY <1>9, <2>4, <2>9, <2>10
  <2> QED BY <2>8, <2>11
<1>15. PICK s, r, q : /\ s = [u \in Threads |-> IF u \in W THEN "Ready" ELSE arb.status[u]]
                      /\ r = Rotated(arb.ready \o list)
                      /\ q = [arb.pc EXCEPT ![t] = "top"]
  OBVIOUS
<1>16. s = [u \in Threads |-> IF \E e \in first : e[1] = u THEN "Ready" ELSE arb.status[u]]
  BY <1>9, <1>15
<1>17. arb' = [arb EXCEPT !.status = s, !.ready = r, !.pc = q]
  BY <1>3, <1>13, <1>15, <1>16 DEF ArbTypeOK
<1>18. /\ arb'.layout = arb.layout /\ arb'.word = arb.word /\ arb'.entries = arb.entries
       /\ arb'.fault = arb.fault /\ arb'.status = s /\ arb'.ready = r /\ arb'.pc = q
  BY <1>17 DEF ArbTypeOK
<1>19. r \in Seq(Threads) /\ ToSet(r) = ToSet(arb.ready) \cup W
  <2>1. arb.ready \in Seq(Threads)
    BY DEF ArbTypeOK
  <2>2. PICK c : c = arb.ready \o list
    OBVIOUS
  <2>3. c \in Seq(Threads) /\ ToSet(c) = ToSet(arb.ready) \cup W
    BY <1>14, <2>1, <2>2, ToSetConcat
  <2> QED BY <1>15, <2>2, <2>3, RotatedProperties
<1>20. s \in [Threads -> Statuses] /\ q \in [Threads -> Pcs]
  BY <1>15 DEF ArbTypeOK, Statuses, Pcs
<1>21. Procs' = Procs
  BY <1>18 DEF Procs
<1>22. ArbTypeOK'
  BY <1>17, <1>19, <1>20, <1>21 DEF ArbTypeOK, Statuses, Pcs
<1>23. SignalEffect(t, W)
  <2>1. \A u \in Threads : s[u] = IF u \in W THEN "Ready" ELSE arb.status[u]
    BY <1>15
  <2>2. \A u \in Threads : q[u] = IF u = t THEN "top" ELSE arb.pc[u]
    BY <1>15 DEF ArbTypeOK
  <2> QED BY <1>18, <1>19, <2>1, <2>2 DEF SignalEffect
<1> QED BY <1>10, <1>11, <1>12, <1>22, <1>23 DEF waiting

(* Preempting turns the queue. *)
LEMMA PreemptStep ==
    ASSUME ArbTypeOK, NEW t \in Threads, Preempt(t)
    PROVE  /\ ArbTypeOK' /\ ToSet(arb'.ready) = ToSet(arb.ready)
           /\ arb' = [arb EXCEPT !.ready = arb'.ready]
<1>1. PICK r : r = Rotated(arb.ready)
  OBVIOUS
<1>2. arb.ready \in Seq(Threads)
  BY DEF ArbTypeOK
<1>3. r \in Seq(Threads) /\ ToSet(r) = ToSet(arb.ready)
  BY <1>1, <1>2, RotatedProperties
<1>4. arb' = [arb EXCEPT !.ready = r]
  BY <1>1 DEF Preempt
<1>5. arb'.ready = r /\ arb'.layout = arb.layout
  BY <1>4 DEF ArbTypeOK
<1>6. Procs' = Procs
  BY <1>5 DEF Procs
<1>7. ArbTypeOK'
  BY <1>3, <1>4, <1>6 DEF ArbTypeOK
<1> QED BY <1>3, <1>4, <1>5, <1>7

(* A thread that is created or ended: its status and how often it is listed change, it enters *)
(* or leaves the queue. *)
LifeEffect(u, status, entries) ==
  /\ arb'.layout = arb.layout /\ arb'.word = arb.word /\ arb'.pc = arb.pc /\ arb'.fault = arb.fault
  /\ \A v \in Threads : /\ arb'.status[v] = IF v = u THEN status ELSE arb.status[v]
                        /\ arb'.entries[v] = IF v = u THEN entries ELSE arb.entries[v]

LEMMA CreateStep ==
    ASSUME ArbTypeOK, NEW t \in Threads, SVCCreateThread(t)
    PROVE  /\ ArbTypeOK'
           /\ \E new \in Threads : /\ arb.status[new] = "Uncreated" /\ Home(new) = Home(t)
                                   /\ LifeEffect(new, "Ready", 2)
                                   /\ ToSet(arb'.ready) = ToSet(arb.ready) \cup {new}
<1>1. PICK new \in Threads :
        /\ arb.status[new] = "Uncreated" /\ Home(new) = Home(t)
        /\ arb' = [arb EXCEPT !.status[new] = "Ready", !.entries[new] = 2,
                              !.ready = Rotated(Append(@, new))]
  BY DEF SVCCreateThread
<1>2. PICK s, n, r : /\ s = [arb.status EXCEPT ![new] = "Ready"]
                     /\ n = [arb.entries EXCEPT ![new] = 2]
                     /\ r = Rotated(Append(arb.ready, new))
  OBVIOUS
<1>3. r \in Seq(Threads) /\ ToSet(r) = ToSet(arb.ready) \cup {new}
  <2>1. arb.ready \in Seq(Threads)
    BY DEF ArbTypeOK
  <2>2. PICK a : a = Append(arb.ready, new)
    OBVIOUS
  <2>3. a \in Seq(Threads) /\ ToSet(a) = ToSet(arb.ready) \cup {new}
    BY <2>1, <2>2, ToSetAppend
  <2> QED BY <1>2, <2>2, <2>3, RotatedProperties
<1>4. s \in [Threads -> Statuses] /\ n \in [Threads -> Nat]
  BY <1>2 DEF ArbTypeOK, Statuses
<1>5. arb' = [arb EXCEPT !.status = s, !.entries = n, !.ready = r]
  BY <1>1, <1>2 DEF ArbTypeOK
<1>6. /\ arb'.layout = arb.layout /\ arb'.word = arb.word /\ arb'.pc = arb.pc /\ arb'.fault = arb.fault
      /\ arb'.status = s /\ arb'.entries = n /\ arb'.ready = r
  BY <1>5 DEF ArbTypeOK
<1>7. Procs' = Procs
  BY <1>6 DEF Procs
<1>8. ArbTypeOK'
  BY <1>3, <1>4, <1>5, <1>7 DEF ArbTypeOK, Statuses
<1>9. \A v \in Threads : /\ s[v] = IF v = new THEN "Ready" ELSE arb.status[v]
                         /\ n[v] = IF v = new THEN 2 ELSE arb.entries[v]
  BY <1>2 DEF ArbTypeOK
<1>10. LifeEffect(new, "Ready", 2)
  BY <1>6, <1>9 DEF LifeEffect
<1> QED BY <1>1, <1>3, <1>6, <1>8, <1>10

LEMMA ExitStep ==
    ASSUME ArbTypeOK, ThreadsRight, NEW t \in Threads, SVCExitThread(t)
    PROVE  /\ ArbTypeOK'
           /\ LifeEffect(t, "Stopped", arb.entries[t] - 1)
           /\ ToSet(arb'.ready) = ToSet(arb.ready) \ {t}
<1>1. /\ Running(t)
      /\ arb' = [arb EXCEPT !.status[t] = "Stopped", !.entries[t] = @ - 1,
                            !.ready = Rotated(Erased(@, t))]
  BY DEF SVCExitThread
<1>2. PICK s, n, r : /\ s = [arb.status EXCEPT ![t] = "Stopped"]
                     /\ n = [arb.entries EXCEPT ![t] = @ - 1]
                     /\ r = Rotated(Erased(arb.ready, t))
  OBVIOUS
<1>3. r \in Seq(Threads) /\ ToSet(r) = ToSet(arb.ready) \ {t}
  <2>1. arb.ready \in Seq(Threads)
    BY DEF ArbTypeOK
  <2>2. PICK a : a = Erased(arb.ready, t)
    OBVIOUS
  <2>3. a \in Seq(Threads) /\ ToSet(a) = ToSet(arb.ready) \ {t}
    BY <2>1, <2>2, ToSetErased
  <2> QED BY <1>2, <2>2, <2>3, RotatedProperties
<1>4. s \in [Threads -> Statuses] /\ n \in [Threads -> Nat]
  <2>1. arb.entries[t] > 0 /\ arb.entries \in [Threads -> Nat]
    BY <1>1, RunningThread DEF ArbTypeOK
  <2>2. arb.entries[t] - 1 \in Nat
    BY <2>1
  <2> QED BY <1>2, <2>1, <2>2 DEF ArbTypeOK, Statuses
<1>5. arb' = [arb EXCEPT !.status = s, !.entries = n, !.ready = r]
  BY <1>1, <1>2 DEF ArbTypeOK
<1>6. /\ arb'.layout = arb.layout /\ arb'.word = arb.word /\ arb'.pc = arb.pc /\ arb'.fault = arb.fault
      /\ arb'.status = s /\ arb'.entries = n /\ arb'.ready = r
  BY <1>5 DEF ArbTypeOK
<1>7. Procs' = Procs
  BY <1>6 DEF Procs
<1>8. ArbTypeOK'
  BY <1>3, <1>4, <1>5, <1>7 DEF ArbTypeOK, Statuses
<1>9. \A v \in Threads : /\ s[v] = IF v = t THEN "Stopped" ELSE arb.status[v]
                         /\ n[v] = IF v = t THEN arb.entries[t] - 1 ELSE arb.entries[v]
  BY <1>2 DEF ArbTypeOK
<1> QED BY <1>3, <1>6, <1>8, <1>9 DEF LifeEffect

(* Acquiring: the thread goes on, is taken to the end of the emulation by its timeout, or falls *)
(* asleep at a word below one, which is never raised. *)
AcquireEffect(t) ==
  /\ arb'.layout = arb.layout /\ arb'.entries = arb.entries
  /\ \A u \in Threads : u # t => arb'.status[u] = arb.status[u] /\ arb'.pc[u] = arb.pc[u]
  /\ \/ /\ arb'.word = arb.word /\ arb'.pc[t] = "try"
        /\ arb'.status[t] = "Ready" /\ ToSet(arb'.ready) = ToSet(arb.ready)
     \/ /\ WordOf(t) < 1
        /\ \A p \in Procs : p # Home(t) => arb'.word[p] = arb.word[p]
        /\ arb'.word[Home(t)] <= WordOf(t)
        /\ Use(t) = "tokens" => arb'.word[Home(t)] = WordOf(t)
        /\ \/ /\ arb'.status[t] = "Ready" /\ arb'.pc[t] = "call"
              /\ ToSet(arb'.ready) = ToSet(arb.ready)
           \/ /\ arb'.status[t] = "WaitingForArbitration" /\ arb'.pc[t] = "try"
              /\ ToSet(arb'.ready) = ToSet(arb.ready) \ {t}

LEMMA AcquireStep ==
    ASSUME ArbTypeOK, ThreadsRight, NEW t \in Threads, NEW decrement \in BOOLEAN, NEW timeout \in BOOLEAN,
           Acquire(t, decrement, timeout)
    PROVE  ArbTypeOK' /\ AcquireEffect(t)
<1>1. /\ arb.status[t] = "Ready" /\ Home(t) \in Procs /\ WordOf(t) \in Int /\ arb.pc[t] = "call"
      /\ arb.ready \in Seq(Threads) /\ arb.word \in [Procs -> Int]
      /\ arb.status \in [Threads -> Statuses] /\ arb.pc \in [Threads -> Pcs] /\ arb.fault \in BOOLEAN
      /\ WordOf(t) = arb.word[Home(t)]
  BY RunningThread DEF Acquire, ArbTypeOK, Statuses, Pcs, WordOf
<1>2. CASE ~Smaller(WordOf(t), 1)
  <2>1. arb' = [arb EXCEPT !.pc[t] = "try", !.ready = Rotated(@)]
    BY <1>2 DEF Acquire
  <2>2. PICK q, r : q = [arb.pc EXCEPT ![t] = "try"] /\ r = Rotated(arb.ready)
    OBVIOUS
  <2>3. r \in Seq(Threads) /\ ToSet(r) = ToSet(arb.ready)
    BY <1>1, <2>2, RotatedProperties
  <2>4. arb' = [arb EXCEPT !.pc = q, !.ready = r]
    BY <2>1, <2>2 DEF ArbTypeOK
  <2>5. /\ arb'.layout = arb.layout /\ arb'.entries = arb.entries /\ arb'.word = arb.word
        /\ arb'.status = arb.status /\ arb'.pc = q /\ arb'.ready = r
    BY <2>4 DEF ArbTypeOK
  <2>6. q \in [Threads -> Pcs] /\ \A u \in Threads : q[u] = IF u = t THEN "try" ELSE arb.pc[u]
    BY <1>1, <2>2 DEF Pcs
  <2>7. Procs' = Procs
    BY <2>5 DEF Procs
  <2>8. ArbTypeOK'
    BY <2>3, <2>4, <2>6, <2>7 DEF ArbTypeOK, Pcs
  <2> QED BY <1>1, <2>3, <2>5, <2>6, <2>8 DEF AcquireEffect
<1>3. CASE Smaller(WordOf(t), 1)
  <2>1. WordOf(t) < 1
    BY <1>3 DEF Smaller
  <2>2. PICK w, q, f, s, r :
          /\ w = [arb.word EXCEPT ![Home(t)] = IF decrement THEN @ - 1 ELSE @]
          /\ q = [arb.pc EXCEPT ![t] = IF timeout THEN @ ELSE "try"]
          /\ f = timeout
          /\ s = [arb.status EXCEPT ![t] = IF timeout THEN @ ELSE "WaitingForArbitration"]
          /\ r = IF timeout THEN arb.ready ELSE Rotated(Rotated(Erased(arb.ready, t)))
    OBVIOUS
  <2>3. arb' = [arb EXCEPT !.word = w, !.pc = q, !.fault = f, !.status = s, !.ready = r]
    <3>1. arb' = [arb EXCEPT !.word[Home(t)] = IF decrement THEN @ - 1 ELSE @,
                             !.pc[t] = IF timeout THEN @ ELSE "try",
                             !.fault = timeout,
                             !.status[t] = IF timeout THEN @ ELSE "WaitingForArbitration",
                             !.ready = IF timeout THEN @ ELSE Rotated(Rotated(Erased(@, t)))]
      BY <1>3 DEF Acquire
    <3> QED BY <2>2, <3>1 DEF ArbTypeOK
  <2>4. /\ arb'.layout = arb.layout /\ arb'.entries = arb.entries /\ arb'.word = w
        /\ arb'.status = s /\ arb'.pc = q /\ arb'.ready = r
    BY <2>3 DEF ArbTypeOK
  <2>5. /\ w \in [Procs -> Int] /\ \A p \in Procs : p # Home(t) => w[p] = arb.word[p]
        /\ w[Home(t)] = IF decrement THEN WordOf(t) - 1 ELSE WordOf(t)
    BY <1>1, <2>2
  <2>6. q \in [Threads -> Pcs] /\ \A u \in Threads : q[u] = IF u = t /\ ~timeout THEN "try" ELSE arb.pc[u]
    BY <1>1, <2>2 DEF Pcs
  <2>7. /\ s \in [Threads -> Statuses]
        /\ \A u \in Threads : s[u] = IF u = t /\ ~timeout THEN "WaitingForArbitration" ELSE arb.status[u]
    BY <1>1, <2>2 DEF Statuses
  <2>8. r \in Seq(Threads) /\ ToSet(r) = IF timeout THEN ToSet(arb.ready) ELSE ToSet(arb.ready) \ {t}
    <3>1. PICK a : a = Erased(arb.ready, t)
      OBVIOUS
    <3>2. a \in Seq(Threads) /\ ToSet(a) = ToSet(arb.ready) \ {t}
      BY <1>1, <3>1, ToSetErased
    <3>3. PICK b : b = Rotated(a)
      OBVIOUS
    <3>4. b \in Seq(Threads) /\ ToSet(b) = ToSet(a)
      BY <3>2, <3>3, RotatedProperties
    <3>5. PICK c : c = Rotated(b)
      OBVIOUS
    <3>6. c \in Seq(Threads) /\ ToSet(c) = ToSet(b)
      BY <3>4, <3>5, RotatedProperties
    <3>7. r = IF timeout THEN arb.ready ELSE c
      BY <2>2, <3>1, <3>3, <3>5
    <3> QED BY <1>1, <3>2, <3>4, <3>6, <3>7
  <2>9. Procs' = Procs
    BY <2>4 DEF Procs
  <2>10. f \in BOOLEAN
    BY <2>2
  <2>11. ArbTypeOK'
    BY <2>3, <2>5, <2>6, <2>7, <2>8, <2>9, <2>10 DEF ArbTypeOK, Pcs, Statuses
  <2>12. Use(t) = "tokens" => ~decrement
    BY DEF Acquire
  <2>13. w[Home(t)] <= WordOf(t) /\ (Use(t) = "tokens" => w[Home(t)] = WordOf(t))
    BY <1>1, <2>5, <2>12
  <2>14. CASE timeout
    BY <1>1, <2>1, <2>4, <2>5, <2>6, <2>7, <2>8, <2>11, <2>13, <2>14 DEF AcquireEffect
  <2>15. CASE ~timeout
    BY <1>1, <2>1, <2>4, <2>5, <2>6, <2>7, <2>8, <2>11, <2>13, <2>15 DEF AcquireEffect
  <2> QED BY <2>14, <2>15
<1> QED BY <1>2, <1>3

-----------------------------------------------------------------------------
(* The invariant, step by step: queues, threads and gates.                  *)

Inv == ArbTypeOK /\ QueuesRight /\ ThreadsRight /\ GatesOpen

LEMMA InitInv == ArbiterAssumption /\ ArbInit => Inv
<1> SUFFICES ASSUME ArbiterAssumption, ArbInit PROVE Inv
  OBVIOUS
<1>1. PICK l \in Layouts :
        arb = [layout |-> l, word |-> [p \in DOMAIN l.word |-> 0], ready |-> l.main,
               entries |-> [t \in Threads |-> IF t \in ToSet(l.main) THEN 1 ELSE 0],
               status |-> [t \in Threads |-> IF t \in ToSet(l.main) THEN "Ready" ELSE "Uncreated"],
               pc |-> [t \in Threads |-> "top"], fault |-> FALSE]
  BY DEF ArbInit
<1>2. /\ arb.layout = l /\ arb.word = [p \in DOMAIN l.word |-> 0] /\ arb.ready = l.main
      /\ arb.entries = [t \in Threads |-> IF t \in ToSet(l.main) THEN 1 ELSE 0]
      /\ arb.status = [t \in Threads |-> IF t \in ToSet(l.main) THEN "Ready" ELSE "Uncreated"]
  BY <1>1
<1>3. l.main \in Seq(Threads) /\ \A i \in DOMAIN l.main : l.home[l.main[i]] \in DOMAIN l.word
  BY DEF ArbiterAssumption
<1>4. ArbTypeOK
  BY <1>1, <1>2, <1>3 DEF ArbTypeOK, Procs
<1>5. QueuesRight
  BY <1>2 DEF QueuesRight
<1>6. ThreadsRight
  <2> SUFFICES ASSUME NEW t \in Threads
               PROVE  /\ arb.status[t] # "Uncreated" => Home(t) \in Procs
                      /\ arb.status[t] \in {"Ready", "WaitingForArbitration"} => arb.entries[t] > 0
                      /\ arb.status[t] = "WaitingForArbitration" => arb.pc[t] = "try"
    BY DEF ThreadsRight
  <2>1. t \in ToSet(l.main) => Home(t) \in Procs
    BY <1>2, <1>3 DEF ToSet, Home, Procs
  <2> QED BY <1>2, <2>1
<1>7. GatesOpen
  <2>1. \A p \in Procs : arb.word[p] = 0
    BY <1>2 DEF Procs
  <2> QED BY <2>1 DEF GatesOpen
<1> QED BY <1>4, <1>5, <1>6, <1>7 DEF Inv

(* A thread that stores at a gate opens it and signals next, or closes it, or leaves it alone. *)
LEMMA StoreInv ==
    ASSUME Inv, NEW t \in Threads, Running(t), arb.pc[t] # "signal",
           NEW value \in Int, NEW next \in Pcs, Store(t, value, next),
           Use(t) = "gate" => value < 1 \/ next = "signal" \/ value = WordOf(t)
    PROVE  Inv'
<1>1. ArbTypeOK' /\ StoreEffect(t, value, next) /\ arb.status[t] = "Ready" /\ Home(t) \in Procs
  BY StoreStep, RunningThread DEF Inv
<1>2. /\ arb'.layout = arb.layout /\ arb'.ready = arb.ready /\ arb'.entries = arb.entries
      /\ arb'.status = arb.status
      /\ \A p \in Procs : arb'.word[p] = IF p = Home(t) THEN value ELSE arb.word[p]
      /\ \A u \in Threads : arb'.pc[u] = IF u = t THEN next ELSE arb.pc[u]
  BY <1>1 DEF StoreEffect
<1>3. QueuesRight'
  BY <1>2 DEF Inv, QueuesRight
<1>4. ThreadsRight'
  BY <1>1, <1>2 DEF Inv, ThreadsRight, Home, Procs
<1>5. GatesOpen'
  <2> SUFFICES ASSUME NEW p \in Procs, arb.layout.word[p].use = "gate", arb'.word[p] >= 1,
                      NEW u \in Threads, Home(u) = p, arb.status[u] = "WaitingForArbitration"
               PROVE  \E s \in Threads : Home(s) = p /\ arb.status[s] = "Ready" /\ arb'.pc[s] = "signal"
    BY <1>2 DEF GatesOpen, Asleep, At, Of, Home, Procs
  <2>1. CASE p = Home(t) /\ next = "signal"
    BY <1>1, <1>2, <2>1
  <2>2. CASE ~(p = Home(t) /\ next = "signal")
    <3>1. arb.word[p] >= 1
      <4>1. CASE p = Home(t)
        <5>1. arb'.word[p] = value /\ Use(t) = "gate"
          BY <1>2, <4>1 DEF Use
        <5>2. value = WordOf(t)
          BY <2>2, <4>1, <5>1
        <5> QED BY <4>1, <5>1, <5>2 DEF WordOf
      <4>2. CASE p # Home(t)
        BY <1>2, <4>2
      <4> QED BY <4>1, <4>2
    <3>2. PICK s \in Threads : Home(s) = p /\ arb.status[s] = "Ready" /\ arb.pc[s] = "signal"
      BY <3>1 DEF Inv, GatesOpen, Asleep, At, Of
    <3> QED BY <1>2, <3>2
  <2> QED BY <2>1, <2>2
<1> QED BY <1>1, <1>3, <1>4, <1>5 DEF Inv

LEMMA PreemptInv == ASSUME Inv, NEW t \in Threads, Preempt(t) PROVE Inv'
<1>1. ArbTypeOK' /\ ToSet(arb'.ready) = ToSet(arb.ready) /\ arb' = [arb EXCEPT !.ready = arb'.ready]
  BY PreemptStep DEF Inv
<1>2. /\ arb'.layout = arb.layout /\ arb'.word = arb.word /\ arb'.entries = arb.entries
      /\ arb'.status = arb.status /\ arb'.pc = arb.pc
  BY <1>1 DEF Inv, ArbTypeOK
<1>3. QueuesRight'
  BY <1>1, <1>2 DEF Inv, QueuesRight
<1>4. ThreadsRight'
  BY <1>2 DEF Inv, ThreadsRight, Home, Procs
<1>5. GatesOpen'
  BY <1>2 DEF Inv, GatesOpen, Asleep, At, Of, Home, Procs
<1> QED BY <1>1, <1>3, <1>4, <1>5 DEF Inv

(* Who is created or ends was not asleep and does not fall asleep, and was not about to signal. *)
LEMMA LifeGates ==
    ASSUME Inv, NEW u \in Threads, NEW s \in {"Ready", "Stopped"}, NEW n, LifeEffect(u, s, n),
           arb.status[u] = "Ready" => arb.pc[u] # "signal"
    PROVE  GatesOpen'
<1>1. /\ arb'.layout = arb.layout /\ arb'.word = arb.word /\ arb'.pc = arb.pc
      /\ \A v \in Threads : arb'.status[v] = IF v = u THEN s ELSE arb.status[v]
  BY DEF LifeEffect
<1> SUFFICES ASSUME NEW p \in Procs, arb.layout.word[p].use = "gate", arb.word[p] >= 1,
                    NEW v \in Threads, Home(v) = p, arb'.status[v] = "WaitingForArbitration"
             PROVE  \E x \in Threads : Home(x) = p /\ arb'.status[x] = "Ready" /\ arb.pc[x] = "signal"
  BY <1>1 DEF GatesOpen, Asleep, At, Of, Home, Procs
<1>2. arb.status[v] = "WaitingForArbitration"
  BY <1>1
<1>3. PICK x \in Threads : Home(x) = p /\ arb.status[x] = "Ready" /\ arb.pc[x] = "signal"
  BY <1>2 DEF Inv, GatesOpen, Asleep, At, Of
<1> QED BY <1>1, <1>3

LEMMA CreateInv == ASSUME Inv, NEW t \in Threads, SVCCreateThread(t) PROVE Inv'
<1>0. ArbTypeOK /\ QueuesRight /\ ThreadsRight
  BY DEF Inv
<1>1. PICK new \in Threads : /\ arb.status[new] = "Uncreated" /\ Home(new) = Home(t)
                             /\ LifeEffect(new, "Ready", 2)
                             /\ ToSet(arb'.ready) = ToSet(arb.ready) \cup {new}
  BY <1>0, CreateStep
<1>2. ArbTypeOK' /\ Home(t) \in Procs
  BY <1>0, CreateStep, RunningThread DEF SVCCreateThread
<1>3. /\ arb'.layout = arb.layout /\ arb'.pc = arb.pc
      /\ \A v \in Threads : /\ arb'.status[v] = IF v = new THEN "Ready" ELSE arb.status[v]
                            /\ arb'.entries[v] = IF v = new THEN 2 ELSE arb.entries[v]
  BY <1>1 DEF LifeEffect
<1>4. QueuesRight'
  BY <1>0, <1>1, <1>3 DEF QueuesRight
<1>5. ThreadsRight'
  BY <1>0, <1>1, <1>2, <1>3 DEF ThreadsRight, Home, Procs
<1>6. GatesOpen'
  BY <1>1, LifeGates
<1> QED BY <1>2, <1>4, <1>5, <1>6 DEF Inv

LEMMA ExitInv == ASSUME Inv, NEW t \in Threads, SVCExitThread(t) PROVE Inv'
<1>0. ArbTypeOK /\ QueuesRight /\ ThreadsRight /\ arb.pc[t] = "top"
  BY DEF Inv, SVCExitThread
<1>1. /\ ArbTypeOK' /\ LifeEffect(t, "Stopped", arb.entries[t] - 1)
      /\ ToSet(arb'.ready) = ToSet(arb.ready) \ {t} /\ Home(t) \in Procs
  BY <1>0, ExitStep, RunningThread DEF SVCExitThread
<1>2. /\ arb'.layout = arb.layout /\ arb'.pc = arb.pc
      /\ \A v \in Threads : /\ arb'.status[v] = IF v = t THEN "Stopped" ELSE arb.status[v]
                            /\ v # t => arb'.entries[v] = arb.entries[v]
  BY <1>1 DEF LifeEffect
<1>3. QueuesRight'
  BY <1>0, <1>1, <1>2 DEF QueuesRight
<1>4. ThreadsRight'
  BY <1>0, <1>1, <1>2 DEF ThreadsRight, Home, Procs
<1>5. GatesOpen'
  <2>1. PICK n : n = arb.entries[t] - 1
    OBVIOUS
  <2>2. LifeEffect(t, "Stopped", n)
    BY <1>1, <2>1
  <2> QED BY <1>0, <2>2, LifeGates
<1> QED BY <1>1, <1>3, <1>4, <1>5 DEF Inv

(* A signal at a gate wakes all that sleep there; any other one leaves the signal of the thread *)
(* that opened the gate to come. *)
LEMMA SignalInv ==
    ASSUME ArbiterAssumption, Inv, NEW t \in Threads, Running(t), NEW count \in {-1, 1}, Signal(t, count),
           Use(t) = "gate" => count = -1
    PROVE  Inv'
<1>0. ArbTypeOK /\ QueuesRight /\ ThreadsRight
  BY DEF Inv
<1>1. ArbTypeOK'
  BY <1>0, SignalStep
<1>2. PICK W \in SUBSET Waiting(t) : SignalEffect(t, W) /\ (count = -1 => W = Waiting(t))
  BY <1>0, SignalStep
<1>3. /\ arb'.layout = arb.layout /\ arb'.word = arb.word /\ arb'.entries = arb.entries
      /\ ToSet(arb'.ready) = ToSet(arb.ready) \cup W
      /\ \A u \in Threads : arb'.status[u] = IF u \in W THEN "Ready" ELSE arb.status[u]
      /\ \A u \in Threads : arb'.pc[u] = IF u = t THEN "top" ELSE arb.pc[u]
  BY <1>2 DEF SignalEffect
<1>4. \A u \in W : u \in Threads /\ arb.status[u] = "WaitingForArbitration"
  BY DEF Waiting, WaitingForArbitration
<1>5. arb.status[t] = "Ready" /\ t \notin W
  BY <1>0, <1>4, RunningThread
<1>6. QueuesRight'
  BY <1>0, <1>3, <1>4 DEF QueuesRight
<1>7. ThreadsRight'
  <2> SUFFICES ASSUME NEW u \in Threads
               PROVE  /\ arb'.status[u] # "Uncreated" => Home(u) \in Procs
                      /\ arb'.status[u] \in {"Ready", "WaitingForArbitration"} => arb.entries[u] > 0
                      /\ arb'.status[u] = "WaitingForArbitration" => arb'.pc[u] = "try"
    BY <1>3 DEF ThreadsRight, Home, Procs
  <2>1. CASE u \in W
    BY <1>0, <1>3, <1>4, <2>1 DEF ThreadsRight
  <2>2. CASE u \notin W
    BY <1>0, <1>3, <1>5, <2>2 DEF ThreadsRight
  <2> QED BY <2>1, <2>2
<1>8. GatesOpen'
  <2> SUFFICES ASSUME NEW p \in Procs, arb.layout.word[p].use = "gate", arb.word[p] >= 1,
                      NEW u \in Threads, Home(u) = p, arb'.status[u] = "WaitingForArbitration"
               PROVE  \E s \in Threads : Home(s) = p /\ arb'.status[s] = "Ready" /\ arb'.pc[s] = "signal"
    BY <1>3 DEF GatesOpen, Asleep, At, Of, Home, Procs
  <2>1. arb.status[u] = "WaitingForArbitration" /\ u \notin W
    BY <1>3
  <2>2. PICK s \in Threads : Home(s) = p /\ arb.status[s] = "Ready" /\ arb.pc[s] = "signal"
    BY <2>1 DEF Inv, GatesOpen, Asleep, At, Of
  <2>3. s # t
    <3> SUFFICES ASSUME s = t PROVE FALSE
      OBVIOUS
    <3>1. Use(t) = "gate" /\ Addr(u) = Addr(t)
      BY <2>2 DEF Use, Addr
    <3>2. u \in Waiting(t)
      BY <2>1, <3>1 DEF Waiting, WaitingForArbitration
    <3> QED BY <1>2, <2>1, <3>1, <3>2
  <2> QED BY <1>3, <2>2, <2>3
<1> QED BY <1>1, <1>6, <1>7, <1>8 DEF Inv

(* Whoever falls asleep does so at a gate that is closed. *)
LEMMA AcquireInv ==
    ASSUME Inv, NEW t \in Threads, NEW decrement \in BOOLEAN, NEW timeout \in BOOLEAN,
           Acquire(t, decrement, timeout)
    PROVE  Inv'
<1>0. ArbTypeOK /\ QueuesRight /\ ThreadsRight /\ arb.pc[t] = "call"
  BY DEF Inv, Acquire
<1>1. ArbTypeOK' /\ AcquireEffect(t)
  BY <1>0, AcquireStep
<1>2. arb.status[t] = "Ready" /\ Home(t) \in Procs /\ WordOf(t) \in Int /\ arb.entries[t] > 0
  BY <1>0, RunningThread DEF Acquire
<1>3. /\ arb'.layout = arb.layout /\ arb'.entries = arb.entries
      /\ \A u \in Threads : u # t => arb'.status[u] = arb.status[u] /\ arb'.pc[u] = arb.pc[u]
      /\ \/ /\ arb'.status[t] = "Ready" /\ ToSet(arb'.ready) = ToSet(arb.ready)
         \/ /\ arb'.status[t] = "WaitingForArbitration" /\ arb'.pc[t] = "try"
            /\ ToSet(arb'.ready) = ToSet(arb.ready) \ {t}
  BY <1>1 DEF AcquireEffect
<1>4. QueuesRight'
  BY <1>0, <1>2, <1>3 DEF QueuesRight
<1>5. ThreadsRight'
  BY <1>0, <1>2, <1>3 DEF ThreadsRight, Home, Procs
<1>6. \/ arb'.word = arb.word /\ arb'.status[t] = "Ready"
      \/ /\ \A p \in Procs : p # Home(t) => arb'.word[p] = arb.word[p]
         /\ ~(arb'.word[Home(t)] >= 1)
  <2>1. arb'.word[Home(t)] \in Int
    BY <1>1, <1>2, <1>3 DEF ArbTypeOK, Procs
  <2> QED BY <1>1, <1>2, <2>1 DEF AcquireEffect
<1>7. GatesOpen'
  <2> SUFFICES ASSUME NEW p \in Procs, arb.layout.word[p].use = "gate", arb'.word[p] >= 1,
                      NEW u \in Threads, Home(u) = p, arb'.status[u] = "WaitingForArbitration"
               PROVE  \E s \in Threads : Home(s) = p /\ arb'.status[s] = "Ready" /\ arb'.pc[s] = "signal"
    BY <1>3 DEF GatesOpen, Asleep, At, Of, Home, Procs
  <2>1. arb.word[p] >= 1 /\ u # t
    BY <1>6
  <2>2. arb.status[u] = "WaitingForArbitration"
    BY <1>3, <2>1
  <2>3. PICK s \in Threads : Home(s) = p /\ arb.status[s] = "Ready" /\ arb.pc[s] = "signal"
    BY <2>1, <2>2 DEF Inv, GatesOpen, Asleep, At, Of
  <2> QED BY <1>0, <1>3, <2>3
<1> QED BY <1>1, <1>4, <1>5, <1>7 DEF Inv

LEMMA NextInv == ArbiterAssumption /\ Inv /\ [ArbNext]_arb => Inv'
<1> SUFFICES ASSUME ArbiterAssumption, Inv, [ArbNext]_arb PROVE Inv'
  OBVIOUS
<1>1. CASE UNCHANGED arb
  <2>1. Procs' = Procs
    BY <1>1 DEF Procs
  <2> QED BY <1>1, <2>1 DEF Inv, ArbTypeOK, QueuesRight, ThreadsRight, GatesOpen, Asleep, At, Of, Home
<1>2. ASSUME NEW t \in Threads, Preempt(t) PROVE Inv'
  BY <1>2, PreemptInv
<1>3. ASSUME NEW t \in Threads, Running(t) PROVE WordOf(t) \in Int
  BY <1>3, RunningThread DEF Inv
<1>4. ASSUME NEW t \in Threads, Open(t) PROVE Inv'
  BY <1>4, StoreInv DEF Open, Pcs
<1>5. ASSUME NEW t \in Threads, Close(t) PROVE Inv'
  BY <1>5, StoreInv DEF Close, Pcs
<1>6. ASSUME NEW t \in Threads, Put(t) PROVE Inv'
  <2>1. PICK v : v = WordOf(t) + 1
    OBVIOUS
  <2>2. v \in Int /\ Running(t) /\ arb.pc[t] = "top" /\ Use(t) # "gate" /\ Store(t, v, "signal")
    BY <1>3, <1>6, <2>1 DEF Put
  <2> QED BY <2>2, StoreInv DEF Pcs
<1>7. ASSUME NEW t \in Threads, Want(t) PROVE Inv'
  <2>1. PICK v : v = WordOf(t)
    OBVIOUS
  <2>2. v \in Int /\ Running(t) /\ arb.pc[t] = "top" /\ Store(t, v, "try")
    BY <1>3, <1>7, <2>1 DEF Want
  <2> QED BY <2>1, <2>2, StoreInv DEF Pcs
<1>8. ASSUME NEW t \in Threads, Try(t) PROVE Inv'
  <2>1. Running(t) /\ arb.pc[t] = "try" /\ WordOf(t) \in Int
    BY <1>3, <1>8 DEF Try
  <2>2. PICK v \in Int, next \in Pcs : Store(t, v, next) /\ (Use(t) = "gate" => v = WordOf(t))
    BY <1>8, <2>1 DEF Try, Pcs
  <2> QED BY <2>1, <2>2, StoreInv
<1>9. ASSUME NEW t \in Threads, SVCCreateThread(t) PROVE Inv'
  BY <1>9, CreateInv
<1>10. ASSUME NEW t \in Threads, SVCExitThread(t) PROVE Inv'
  BY <1>10, ExitInv
<1>11. ASSUME NEW t \in Threads, SignalGate(t) PROVE Inv'
  BY <1>11, SignalInv DEF SignalGate
<1>12. ASSUME NEW t \in Threads, SignalToken(t) PROVE Inv'
  BY <1>12, SignalInv DEF SignalToken
<1>13. ASSUME NEW t \in Threads, NEW decrement \in BOOLEAN, NEW timeout \in BOOLEAN, Acquire(t, decrement, timeout)
       PROVE  Inv'
  BY <1>13, AcquireInv
<1> QED BY <1>1, <1>2, <1>4, <1>5, <1>6, <1>7, <1>8, <1>9, <1>10, <1>11, <1>12, <1>13 DEF ArbNext

LEMMA Invariance == ASSUME ArbiterAssumption PROVE ArbSpec => []Inv
BY InitInv, NextInv, PTL DEF ArbSpec

(* The fields of the state have their types (the arbiter part of class OS). *)
THEOREM TypeCorrect == ASSUME ArbiterAssumption PROVE ArbSpec => []ArbTypeOK
<1>1. Inv => ArbTypeOK
  BY DEF Inv
<1> QED BY <1>1, Invariance, PTL

(* The ready queue holds the threads that are ready and no other, however often it is given *)
(* one, and OS::threads holds every thread that sleeps (SVCArbitrateAddress, SVCExitThread). *)
THEOREM QueuesAreRight == ASSUME ArbiterAssumption PROVE ArbSpec => []QueuesRight
<1>1. Inv => QueuesRight
  BY DEF Inv
<1> QED BY <1>1, Invariance, PTL

(* Nobody sleeps at an open gate unless the signal is still to come, whatever other processes *)
(* do at the same address (SVCArbitrateAddress). *)
THEOREM GatesHold == ASSUME ArbiterAssumption PROVE ArbSpec => []GatesOpen
<1>1. Inv => GatesOpen
  BY DEF Inv
<1> QED BY <1>1, Invariance, PTL

-----------------------------------------------------------------------------
(* Tokens.                                                                  *)

(* How many threads are coming, before and after a step. *)
LEMMA ComingFinite ==
    ASSUME ArbiterAssumption, NEW p
    PROVE  /\ IsFiniteSet(Coming(p)) /\ Cardinality(Coming(p)) \in Nat
           /\ IsFiniteSet(Asleep(p)) /\ Cardinality(Asleep(p)) \in Nat
<1>1. Coming(p) \in SUBSET Threads /\ Asleep(p) \in SUBSET Threads
  BY DEF Coming, Asleep, At, Of
<1>2. IsFiniteSet(Threads)
  BY DEF ArbiterAssumption
<1>3. IsFiniteSet(Coming(p))
  BY <1>1, <1>2, FS_Subset
<1>4. IsFiniteSet(Asleep(p))
  BY <1>1, <1>2, FS_Subset
<1> QED BY <1>3, <1>4, FS_CardinalityType

LEMMA SizeOfLarger ==
    ASSUME NEW S, NEW T, IsFiniteSet(T), S \subseteq T
    PROVE  Cardinality(S) \in Nat /\ Cardinality(T) \in Nat /\ Cardinality(S) <= Cardinality(T)
<1>1. IsFiniteSet(S) /\ Cardinality(S) <= Cardinality(T)
  BY FS_Subset
<1> QED BY <1>1, FS_CardinalityType

LEMMA SizeOfWith ==
    ASSUME NEW S, NEW T, IsFiniteSet(T), NEW t \in T, t \notin S, S \subseteq T
    PROVE  Cardinality(S) \in Nat /\ Cardinality(T) \in Nat /\ Cardinality(S) + 1 <= Cardinality(T)
<1>1. IsFiniteSet(T \ {t}) /\ Cardinality(T \ {t}) = Cardinality(T) - 1
  BY FS_RemoveElement, FS_Subset
<1>2. S \subseteq T \ {t}
  OBVIOUS
<1>3. Cardinality(S) \in Nat /\ Cardinality(S) <= Cardinality(T \ {t})
  BY <1>1, <1>2, SizeOfLarger
<1> QED BY <1>1, <1>3, FS_CardinalityType

LEMMA SizeWithout ==
    ASSUME NEW S, IsFiniteSet(S), NEW t
    PROVE  /\ Cardinality(S) \in Nat /\ Cardinality(S \ {t}) \in Nat
           /\ Cardinality(S) - 1 <= Cardinality(S \ {t})
<1>1. Cardinality(S) \in Nat
  BY FS_CardinalityType
<1>2. CASE t \in S
  <2>1. IsFiniteSet(S \ {t}) /\ Cardinality(S \ {t}) = Cardinality(S) - 1
    BY <1>2, FS_RemoveElement
  <2>2. Cardinality(S \ {t}) \in Nat
    BY <2>1, FS_CardinalityType
  <2> QED BY <1>1, <2>1, <2>2
<1>3. CASE t \notin S
  <2>1. S \ {t} = S
    BY <1>3
  <2>2. Cardinality(S \ {t}) = Cardinality(S)
    BY <2>1
  <2> QED BY <1>1, <2>2
<1> QED BY <1>2, <1>3

(* A step after which as many come and no more tokens are there, or one more of each, or one *)
(* fewer, keeps TokensCovered. *)
LEMMA CoveredBySize ==
    ASSUME ArbiterAssumption, ArbTypeOK, ArbTypeOK', arb'.layout = arb.layout,
           \A p \in Procs : arb.layout.word[p].use = "tokens" /\ Asleep(p)' # {} =>
             \/ Asleep(p) # {} /\ Cardinality(Coming(p)') - Cardinality(Coming(p)) >= arb'.word[p] - arb.word[p]
             \/ arb'.word[p] < 1,
           TokensCovered
    PROVE  TokensCovered'
<1> SUFFICES ASSUME NEW p \in Procs, arb.layout.word[p].use = "tokens", Asleep(p)' # {}
             PROVE  Cardinality(Coming(p)') >= arb'.word[p]
  BY DEF TokensCovered, Procs
<1>1. Cardinality(Coming(p)') \in Nat
  <2>1. Coming(p)' \in SUBSET Threads /\ IsFiniteSet(Threads)
    BY DEF Coming, At, Of, ArbiterAssumption
  <2> QED BY <2>1, FS_Subset, FS_CardinalityType
<1>2. Cardinality(Coming(p)) \in Nat
  BY ComingFinite
<1>3. arb'.word[p] \in Int /\ arb.word[p] \in Int
  BY DEF ArbTypeOK, Procs
<1>4. Asleep(p) # {} => Cardinality(Coming(p)) >= arb.word[p]
  BY DEF TokensCovered
<1> QED BY <1>1, <1>2, <1>3, <1>4

(* Who comes and who sleeps after a step that changes only what one thread does. *)
LEMMA StoreTokens ==
    ASSUME ArbiterAssumption, Inv, TokensCovered, NEW t \in Threads, Running(t),
           NEW value \in Int, NEW next \in Pcs, Store(t, value, next),
           Use(t) = "tokens" => \/ arb.pc[t] = "top" /\ next # "top" /\ value = WordOf(t) + 1
                                \/ next # "top" /\ value = WordOf(t)
                                \/ value = WordOf(t) - 1
    PROVE  TokensCovered'
<1>1. /\ ArbTypeOK /\ ArbTypeOK' /\ StoreEffect(t, value, next) /\ arb.status[t] = "Ready"
      /\ WordOf(t) \in Int /\ Home(t) \in Procs
  BY StoreStep, RunningThread DEF Inv
<1>2. /\ arb'.layout = arb.layout /\ arb'.status = arb.status
      /\ \A p \in Procs : arb'.word[p] = IF p = Home(t) THEN value ELSE arb.word[p]
      /\ \A u \in Threads : arb'.pc[u] = IF u = t THEN next ELSE arb.pc[u]
  BY <1>1 DEF StoreEffect
<1>3. next # "top" => next \in {"signal", "try", "call"}
  BY DEF Pcs
<1>4. ASSUME NEW p \in Procs, arb.layout.word[p].use = "tokens", Asleep(p)' # {}
      PROVE  /\ Asleep(p) # {}
             /\ Cardinality(Coming(p)') - Cardinality(Coming(p)) >= arb'.word[p] - arb.word[p]
  <2>1. PICK A, B : A = Coming(p) /\ B = Coming(p)'
    OBVIOUS
  <2>2. Asleep(p)' = Asleep(p)
    BY <1>2 DEF Asleep, Of, Home
  <2>3. /\ A = {u \in Threads : Home(u) = p /\ arb.status[u] = "Ready" /\ arb.pc[u] \in {"signal", "try", "call"}}
        /\ B = {u \in Threads : Home(u) = p /\ arb.status[u] = "Ready" /\ arb'.pc[u] \in {"signal", "try", "call"}}
    BY <1>2, <2>1 DEF Coming, At, Of, Home
  <2>4. IsFiniteSet(A) /\ IsFiniteSet(B)
    BY <2>3, FS_Subset DEF ArbiterAssumption
  <2>5. Cardinality(A) \in Nat /\ Cardinality(B) \in Nat /\ arb.word[p] \in Int /\ arb'.word[p] \in Int
    BY <1>1, <1>2, <2>4, FS_CardinalityType DEF ArbTypeOK, Procs
  <2>6. CASE p # Home(t)
    <3>1. A = B /\ arb'.word[p] = arb.word[p]
      BY <1>2, <2>3, <2>6
    <3> QED BY <2>1, <2>2, <2>5, <3>1, <1>4
  <2>7. CASE p = Home(t)
    <3>1. Use(t) = "tokens" /\ WordOf(t) = arb.word[p] /\ arb'.word[p] = value
      BY <1>2, <1>4, <2>7 DEF Use, WordOf
    <3>2. CASE arb.pc[t] = "top" /\ next # "top" /\ value = WordOf(t) + 1
      <4>1. t \in B /\ t \notin A /\ A \subseteq B
        BY <1>1, <1>2, <1>3, <2>3, <2>7, <3>2
      <4>2. Cardinality(A) + 1 <= Cardinality(B)
        BY <2>4, <4>1, SizeOfWith
      <4> QED BY <1>4, <2>1, <2>2, <2>5, <3>1, <3>2, <4>2
    <3>3. CASE next # "top" /\ value = WordOf(t)
      <4>1. A \subseteq B
        BY <1>1, <1>2, <1>3, <2>3, <2>7, <3>3
      <4>2. Cardinality(A) <= Cardinality(B)
        BY <2>4, <4>1, SizeOfLarger
      <4> QED BY <1>4, <2>1, <2>2, <2>5, <3>1, <3>3, <4>2
    <3>4. CASE value = WordOf(t) - 1
      <4>1. A \ {t} \subseteq B
        BY <1>2, <2>3
      <4>2. Cardinality(A) - 1 <= Cardinality(A \ {t}) /\ Cardinality(A \ {t}) \in Nat
        BY <2>4, SizeWithout
      <4>3. Cardinality(A \ {t}) <= Cardinality(B)
        BY <2>4, <4>1, SizeOfLarger
      <4> QED BY <1>4, <2>1, <2>2, <2>5, <3>1, <3>4, <4>2, <4>3
    <3> QED BY <3>1, <3>2, <3>3, <3>4
  <2> QED BY <2>6, <2>7
<1> QED BY <1>1, <1>2, <1>4, CoveredBySize

(* Steps that change no word and wake or create threads, and leave those that come where they *)
(* are: as many come as before. *)
LEMMA MoreCome ==
    ASSUME ArbiterAssumption, Inv, TokensCovered, ArbTypeOK', arb'.layout = arb.layout, arb'.word = arb.word,
           \A u \in Threads : arb'.status[u] = "WaitingForArbitration" => arb.status[u] = "WaitingForArbitration",
           \A u \in Threads : arb.status[u] = "Ready" /\ arb.pc[u] \in {"signal", "try", "call"} =>
                              arb'.status[u] = "Ready" /\ arb'.pc[u] \in {"signal", "try", "call"}
    PROVE  TokensCovered'
<1>1. ArbTypeOK
  BY DEF Inv
<1>2. ASSUME NEW p \in Procs, arb.layout.word[p].use = "tokens", Asleep(p)' # {}
      PROVE  /\ Asleep(p) # {}
             /\ Cardinality(Coming(p)') - Cardinality(Coming(p)) >= arb'.word[p] - arb.word[p]
  <2>1. PICK A, B : A = Coming(p) /\ B = Coming(p)'
    OBVIOUS
  <2>2. Asleep(p) # {}
    BY <1>2 DEF Asleep, Of, Home
  <2>3. A \subseteq B /\ B \in SUBSET Threads
    BY <2>1 DEF Coming, At, Of, Home
  <2>4. IsFiniteSet(B)
    BY <2>3, FS_Subset DEF ArbiterAssumption
  <2>5. Cardinality(A) \in Nat /\ Cardinality(B) \in Nat /\ Cardinality(A) <= Cardinality(B)
    BY <2>3, <2>4, SizeOfLarger
  <2>6. arb.word[p] \in Int
    BY <1>1 DEF ArbTypeOK
  <2> QED BY <2>1, <2>2, <2>5, <2>6
<1> QED BY <1>1, <1>2, CoveredBySize

(* A signal that takes its thread away from those that come brings one that slept. *)
LEMMA SignalTokens ==
    ASSUME ArbiterAssumption, TokensApart, Inv, TokensCovered, NEW t \in Threads, Running(t),
           NEW count \in {-1, 1}, Signal(t, count)
    PROVE  TokensCovered'
<1>0. ArbTypeOK /\ ThreadsRight /\ arb.status[t] = "Ready" /\ Home(t) \in Procs
  BY RunningThread DEF Inv
<1>1. ArbTypeOK'
  BY <1>0, SignalStep
<1>2. PICK W \in SUBSET Waiting(t) : SignalEffect(t, W) /\ (W = {} => Waiting(t) = {})
  BY <1>0, SignalStep
<1>3. /\ arb'.layout = arb.layout /\ arb'.word = arb.word
      /\ \A u \in Threads : arb'.status[u] = IF u \in W THEN "Ready" ELSE arb.status[u]
      /\ \A u \in Threads : arb'.pc[u] = IF u = t THEN "top" ELSE arb.pc[u]
  BY <1>2 DEF SignalEffect
<1>4. \A u \in W : u \in Threads /\ arb.status[u] = "WaitingForArbitration" /\ Addr(u) = Addr(t)
  BY DEF Waiting, WaitingForArbitration
<1>5. ASSUME NEW p \in Procs, arb.layout.word[p].use = "tokens", Asleep(p)' # {}
      PROVE  /\ Asleep(p) # {}
             /\ Cardinality(Coming(p)') - Cardinality(Coming(p)) >= arb'.word[p] - arb.word[p]
  <2>1. PICK A, B : A = Coming(p) /\ B = Coming(p)'
    OBVIOUS
  <2>2. /\ A = {u \in Threads : Home(u) = p /\ arb.status[u] = "Ready" /\ arb.pc[u] \in {"signal", "try", "call"}}
        /\ B = {u \in Threads : Home(u) = p /\ arb'.status[u] = "Ready" /\ arb'.pc[u] \in {"signal", "try", "call"}}
    BY <1>3, <2>1 DEF Coming, At, Of, Home
  <2>3. IsFiniteSet(A) /\ IsFiniteSet(B)
    BY <2>2, FS_Subset DEF ArbiterAssumption
  <2>4. Cardinality(A) \in Nat /\ Cardinality(B) \in Nat /\ arb.word[p] \in Int /\ arb'.word[p] = arb.word[p]
    BY <1>0, <1>3, <2>3, FS_CardinalityType DEF ArbTypeOK
  <2>5. PICK v \in Threads : Home(v) = p /\ arb'.status[v] = "WaitingForArbitration"
    BY <1>3, <1>5 DEF Asleep, Of, Home
  <2>6. arb.status[v] = "WaitingForArbitration" /\ v \notin W
    BY <1>3, <2>5
  <2>7. Asleep(p) # {}
    BY <2>5, <2>6 DEF Asleep, Of
  <2>8. CASE p # Home(t)
    <3>1. A \subseteq B
      BY <1>3, <1>4, <2>2, <2>8
    <3>2. Cardinality(A) <= Cardinality(B)
      BY <2>3, <3>1, SizeOfLarger
    <3> QED BY <2>1, <2>4, <2>7, <3>2
  <2>9. CASE p = Home(t)
    <3>1. v \in Waiting(t)
      BY <2>5, <2>6, <2>9 DEF Waiting, WaitingForArbitration, Addr
    <3>2. PICK w \in W : TRUE
      BY <1>2, <3>1
    <3>3. Home(w) = p
      <4> SUFFICES ASSUME Home(w) # p PROVE FALSE
        OBVIOUS
      <4>1. w \in Threads /\ arb.status[w] = "WaitingForArbitration" /\ Addr(w) = Addr(t)
        BY <1>4
      <4>2. Home(w) \in Procs
        BY <1>0, <4>1 DEF ThreadsRight
      <4>3. arb.layout \in Layouts
        BY <1>0 DEF ArbTypeOK
      <4>4. arb.layout.word[Home(t)].addr # arb.layout.word[Home(w)].addr
        BY <1>0, <1>5, <2>9, <4>1, <4>2, <4>3 DEF TokensApart, Home, Procs
      <4> QED BY <4>1, <4>4 DEF Addr
    <3>4. arb.pc[w] = "try" /\ w \in Threads /\ w # t
      BY <1>0, <1>4 DEF ThreadsRight
    <3>5. w \in B /\ w \notin A \ {t} /\ A \ {t} \subseteq B
      BY <1>3, <1>4, <2>2, <3>3, <3>4
    <3>6. Cardinality(A \ {t}) + 1 <= Cardinality(B) /\ Cardinality(A \ {t}) \in Nat
      BY <2>3, <3>5, SizeOfWith
    <3>7. Cardinality(A) - 1 <= Cardinality(A \ {t})
      BY <2>3, SizeWithout
    <3>8. Cardinality(A) <= Cardinality(B)
      BY <2>4, <3>6, <3>7
    <3> QED BY <2>1, <2>4, <2>7, <3>8
  <2> QED BY <2>8, <2>9
<1> QED BY <1>0, <1>1, <1>3, <1>5, CoveredBySize

(* A thread that falls asleep does so when there are no tokens. *)
LEMMA AcquireTokens ==
    ASSUME ArbiterAssumption, Inv, TokensCovered, NEW t \in Threads,
           NEW decrement \in BOOLEAN, NEW timeout \in BOOLEAN, Acquire(t, decrement, timeout)
    PROVE  TokensCovered'
<1>0. /\ ArbTypeOK /\ ThreadsRight /\ arb.pc[t] = "call" /\ arb.status[t] = "Ready"
      /\ WordOf(t) \in Int /\ Home(t) \in Procs
  BY RunningThread DEF Inv, Acquire
<1>1. ArbTypeOK' /\ AcquireEffect(t)
  BY <1>0, AcquireStep
<1>2. /\ arb'.layout = arb.layout
      /\ \A u \in Threads : u # t => arb'.status[u] = arb.status[u] /\ arb'.pc[u] = arb.pc[u]
      /\ arb'.pc[t] \in {"try", "call"}
      /\ \/ arb'.status[t] = "Ready"
         \/ WordOf(t) < 1 /\ arb'.status[t] = "WaitingForArbitration"
      /\ \A p \in Procs : p # Home(t) => arb'.word[p] = arb.word[p]
      /\ Use(t) = "tokens" => arb'.word[Home(t)] = WordOf(t)
  BY <1>1 DEF AcquireEffect, WordOf
<1>3. ASSUME NEW p \in Procs, arb.layout.word[p].use = "tokens", Asleep(p)' # {}
      PROVE  \/ /\ Asleep(p) # {}
                /\ Cardinality(Coming(p)') - Cardinality(Coming(p)) >= arb'.word[p] - arb.word[p]
             \/ arb'.word[p] < 1
  <2>1. PICK A, B : A = Coming(p) /\ B = Coming(p)'
    OBVIOUS
  <2>2. /\ A = {u \in Threads : Home(u) = p /\ arb.status[u] = "Ready" /\ arb.pc[u] \in {"signal", "try", "call"}}
        /\ B = {u \in Threads : Home(u) = p /\ arb'.status[u] = "Ready" /\ arb'.pc[u] \in {"signal", "try", "call"}}
    BY <1>2, <2>1 DEF Coming, At, Of, Home
  <2>3. arb'.word[p] = arb.word[p] /\ arb.word[p] \in Int
    BY <1>0, <1>2, <1>3 DEF Use, WordOf, ArbTypeOK
  <2>4. CASE p = Home(t) /\ WordOf(t) < 1
    BY <1>0, <2>3, <2>4 DEF WordOf
  <2>5. CASE p # Home(t) \/ arb'.status[t] = "Ready"
    <3>1. A \subseteq B /\ B \in SUBSET Threads
      BY <1>2, <2>2, <2>5
    <3>2. IsFiniteSet(B)
      BY <3>1, FS_Subset DEF ArbiterAssumption
    <3>3. Cardinality(A) \in Nat /\ Cardinality(B) \in Nat /\ Cardinality(A) <= Cardinality(B)
      BY <3>1, <3>2, SizeOfLarger
    <3>4. PICK v \in Threads : Home(v) = p /\ arb'.status[v] = "WaitingForArbitration"
      BY <1>2, <1>3 DEF Asleep, Of, Home
    <3>5. arb.status[v] = "WaitingForArbitration"
      BY <1>2, <2>5, <3>4
    <3>6. Asleep(p) # {}
      BY <3>4, <3>5 DEF Asleep, Of
    <3> QED BY <2>1, <2>3, <3>3, <3>6
  <2> QED BY <1>2, <2>4, <2>5
<1> QED BY <1>0, <1>1, <1>2, <1>3, CoveredBySize

LEMMA InitTokens == ArbiterAssumption /\ ArbInit => TokensCovered
<1> SUFFICES ASSUME ArbiterAssumption, ArbInit, NEW p \in Procs PROVE Asleep(p) = {}
  BY DEF TokensCovered
<1>1. \A t \in Threads : arb.status[t] # "WaitingForArbitration"
  BY DEF ArbInit
<1> QED BY <1>1 DEF Asleep, Of

LEMMA NextTokens ==
    ArbiterAssumption /\ TokensApart /\ Inv /\ Inv' /\ TokensCovered /\ [ArbNext]_arb => TokensCovered'
<1> SUFFICES ASSUME ArbiterAssumption, TokensApart, Inv, Inv', TokensCovered, [ArbNext]_arb
             PROVE  TokensCovered'
  OBVIOUS
<1>0. ArbTypeOK /\ ArbTypeOK' /\ ThreadsRight
  BY DEF Inv
<1>1. CASE UNCHANGED arb
  BY <1>1 DEF TokensCovered, Coming, Asleep, At, Of, Home, Procs
<1>2. ASSUME NEW t \in Threads, Preempt(t) PROVE TokensCovered'
  <2>1. arb' = [arb EXCEPT !.ready = arb'.ready]
    BY <1>0, <1>2, PreemptStep
  <2>2. arb'.layout = arb.layout /\ arb'.word = arb.word /\ arb'.status = arb.status /\ arb'.pc = arb.pc
    BY <1>0, <2>1 DEF ArbTypeOK
  <2> QED BY <1>0, <2>2, MoreCome
<1>3. ASSUME NEW t \in Threads, Running(t) PROVE WordOf(t) \in Int
  BY <1>0, <1>3, RunningThread
<1>4. ASSUME NEW t \in Threads, Open(t) PROVE TokensCovered'
  BY <1>4, StoreTokens DEF Open, Pcs
<1>5. ASSUME NEW t \in Threads, Close(t) PROVE TokensCovered'
  BY <1>5, StoreTokens DEF Close, Pcs
<1>6. ASSUME NEW t \in Threads, Put(t) PROVE TokensCovered'
  <2>1. PICK v : v = WordOf(t) + 1
    OBVIOUS
  <2>2. v \in Int /\ Running(t) /\ arb.pc[t] = "top" /\ Store(t, v, "signal")
    BY <1>3, <1>6, <2>1 DEF Put
  <2> QED BY <2>1, <2>2, StoreTokens DEF Pcs
<1>7. ASSUME NEW t \in Threads, Want(t) PROVE TokensCovered'
  <2>1. PICK v : v = WordOf(t)
    OBVIOUS
  <2>2. v \in Int /\ Running(t) /\ arb.pc[t] = "top" /\ Store(t, v, "try")
    BY <1>3, <1>7, <2>1 DEF Want
  <2> QED BY <2>1, <2>2, StoreTokens DEF Pcs
<1>8. ASSUME NEW t \in Threads, Try(t) PROVE TokensCovered'
  <2>1. Running(t) /\ arb.pc[t] = "try" /\ WordOf(t) \in Int
    BY <1>3, <1>8 DEF Try
  <2>2. PICK v \in Int, next \in Pcs : /\ Store(t, v, next)
                                       /\ Use(t) = "tokens" => \/ next # "top" /\ v = WordOf(t)
                                                               \/ v = WordOf(t) - 1
    BY <1>8, <2>1 DEF Try, Pcs
  <2> QED BY <2>1, <2>2, StoreTokens
<1>9. ASSUME NEW t \in Threads, SVCCreateThread(t) PROVE TokensCovered'
  <2>1. PICK new \in Threads : arb.status[new] = "Uncreated" /\ LifeEffect(new, "Ready", 2)
    BY <1>0, <1>9, CreateStep
  <2>2. /\ arb'.layout = arb.layout /\ arb'.word = arb.word /\ arb'.pc = arb.pc
        /\ \A v \in Threads : arb'.status[v] = IF v = new THEN "Ready" ELSE arb.status[v]
    BY <2>1 DEF LifeEffect
  <2> QED BY <1>0, <2>1, <2>2, MoreCome
<1>10. ASSUME NEW t \in Threads, SVCExitThread(t) PROVE TokensCovered'
  <2>1. LifeEffect(t, "Stopped", arb.entries[t] - 1) /\ arb.pc[t] = "top"
    BY <1>0, <1>10, ExitStep DEF SVCExitThread
  <2>2. /\ arb'.layout = arb.layout /\ arb'.word = arb.word /\ arb'.pc = arb.pc
        /\ \A v \in Threads : arb'.status[v] = IF v = t THEN "Stopped" ELSE arb.status[v]
    BY <2>1 DEF LifeEffect
  <2> QED BY <1>0, <2>1, <2>2, MoreCome
<1>11. ASSUME NEW t \in Threads, SignalGate(t) PROVE TokensCovered'
  BY <1>11, SignalTokens DEF SignalGate
<1>12. ASSUME NEW t \in Threads, SignalToken(t) PROVE TokensCovered'
  BY <1>12, SignalTokens DEF SignalToken
<1>13. ASSUME NEW t \in Threads, NEW decrement \in BOOLEAN, NEW timeout \in BOOLEAN, Acquire(t, decrement, timeout)
       PROVE  TokensCovered'
  BY <1>13, AcquireTokens
<1> QED BY <1>1, <1>2, <1>4, <1>5, <1>6, <1>7, <1>8, <1>9, <1>10, <1>11, <1>12, <1>13 DEF ArbNext

(* While anybody sleeps beside tokens, every token has a thread of its own that is about to *)
(* signal, to try or to call again: no signal of SVCArbitrateAddress wakes the wrong one, if *)
(* no other process has its word at the same address. *)
THEOREM TokensHold == ASSUME ArbiterAssumption, TokensApart PROVE ArbSpec => []TokensCovered
<1>1. ArbInit => TokensCovered
  BY InitTokens
<1>2. Inv /\ Inv' /\ TokensCovered /\ [ArbNext]_arb => TokensCovered'
  BY NextTokens
<1> QED BY <1>1, <1>2, Invariance, PTL DEF ArbSpec

(* No thread sleeps at a gate that is open or beside tokens that nobody will take, although *)
(* threads are listed twice and addresses of different processes coincide (SVCArbitrateAddress). *)
THEOREM WaitersServedHolds == ASSUME ArbiterAssumption, TokensApart PROVE ArbSpec => []WaitersServed
<1>1. TokensCovered /\ Inv => WaitersServed
  <2> SUFFICES ASSUME TokensCovered, Inv PROVE TokensReach
    BY DEF WaitersServed, Inv
  <2> SUFFICES ASSUME NEW p \in Procs, arb.layout.word[p].use = "tokens"
               PROVE  LET n == Cardinality(Asleep(p))
                      IN Cardinality(Coming(p)) >= IF arb.word[p] < n THEN arb.word[p] ELSE n
    BY DEF TokensReach, Coming
  <2>1. PICK n, c : n = Cardinality(Asleep(p)) /\ c = Cardinality(Coming(p))
    OBVIOUS
  <2>2. n \in Nat /\ c \in Nat /\ arb.word[p] \in Int
    BY <2>1, ComingFinite DEF Inv, ArbTypeOK
  <2>3. Asleep(p) = {} => n = 0
    BY <2>1, FS_EmptySet
  <2>4. Asleep(p) # {} => c >= arb.word[p]
    BY <2>1 DEF TokensCovered
  <2>5. c >= IF arb.word[p] < n THEN arb.word[p] ELSE n
    BY <2>2, <2>3, <2>4
  <2> QED BY <2>1, <2>5
<1> QED BY <1>1, Invariance, TokensHold, PTL

-----------------------------------------------------------------------------
(* The audio service. *)
Memory == [0 .. PipeSize - 1 -> Byte]
Turn(p, memory, bytes) == [ok |-> TRUE, p |-> p, memory |-> memory, bytes |-> bytes]

-----------------------------------------------------------------------------
(* The ring.                                                               *)

\* The place of a byte that is under way lies in the pipe (SubPipeInfo).
LEMMA AtInRange ==
    ASSUME NEW p \in Pipe, NEW i \in 1 .. PipeSize
    PROVE  Place(p, i) \in 0 .. PipeSize - 1
BY DspAssumption DEF Place, Pipe

\* A pipe has room for what lies between its cursors (CursorDistance).
LEMMA DistanceInRange ==
    ASSUME NEW p \in Pipe, CursorsValid(p)
    PROVE  CursorDistance(p) \in 0 .. PipeSize
BY DspAssumption DEF CursorsValid, CursorDistance, SameIteration, Pipe

\* A write that fits goes to places where nothing is under way, and the cursor moves past it (MoveCursor).
LEMMA WritePlaces ==
    ASSUME NEW p \in Pipe, CursorsValid(p), NEW c \in Nat, c > 0,
           c <= PipeSize - p.write.value, c <= PipeSize - CursorDistance(p)
    PROVE  LET q == [p EXCEPT !.write = MoveCursor(@, c)]
               start == p.write.value
               old == CursorDistance(p)
           IN  /\ q \in Pipe /\ q.read = p.read /\ q.index = p.index
               /\ CursorsValid(q) /\ CursorDistance(q) = old + c
               /\ \A i \in 1 .. old : Place(q, i) = Place(p, i) /\ Place(p, i) \in 0 .. PipeSize - 1 /\ Place(p, i) \notin start .. start + c - 1
               /\ \A i \in 1 .. c : Place(q, old + i) = start + i - 1
               /\ c = PipeSize - start => q.write.value = 0
<1> DEFINE r == p.read.value
           w == p.write.value
           x == p.read.iteration
           y == p.write.iteration
           old == CursorDistance(p)
           nw == MoveCursor(p.write, c)
           q == [p EXCEPT !.write = nw]
<1>1. /\ PipeSize \in Nat /\ PipeSize > 0 /\ r \in 0 .. PipeSize - 1 /\ w \in 0 .. PipeSize - 1 /\ x \in {0, 1} /\ y \in {0, 1}
  BY DspAssumption DEF Pipe
<1>2. /\ y = x => old = w - r /\ w >= r
      /\ y # x => old = w - r + PipeSize /\ w <= r
  BY <1>1 DEF CursorsValid, CursorDistance, SameIteration
<1>3. old \in 0 .. PipeSize
  BY DistanceInRange
<1>4. /\ w + c = PipeSize => nw = [value |-> 0, iteration |-> 1 - y]
      /\ w + c # PipeSize => nw = [value |-> w + c, iteration |-> y] /\ w + c < PipeSize
  <2>1. w + c <= PipeSize
    BY <1>1
  <2>2. w = p.write.value /\ y = p.write.iteration
    OBVIOUS
  <2>3. CASE w + c = PipeSize
    <3>1. nw = [value |-> w + c - PipeSize, iteration |-> 1 - y]
      BY <2>3, <1>1 DEF MoveCursor, Cursor
    <3>2. w + c - PipeSize = 0
      BY <2>3, <1>1
    <3> QED BY <3>1, <3>2, <2>3
  <2>4. CASE w + c # PipeSize
    <3>1. w + c < PipeSize
      BY <2>1, <2>4, <1>1
    <3>2. nw = [value |-> w + c, iteration |-> y]
      BY <3>1, <1>1 DEF MoveCursor, Cursor
    <3> QED BY <3>1, <3>2, <2>4
  <2> QED BY <2>3, <2>4
<1>5. nw \in [value : 0 .. PipeSize - 1, iteration : {0, 1}]
  BY <1>4, <1>1
<1>6. q \in Pipe /\ q.read = p.read /\ q.index = p.index /\ q.write = nw
  BY <1>5 DEF Pipe
<1>7. CursorsValid(q) /\ CursorDistance(q) = old + c
  <2>1. CASE w + c = PipeSize
    <3>1. y = x
      BY <2>1, <1>1, <1>2, <1>3
    <3>2. q.write.value = 0 /\ q.write.iteration # x /\ q.read.value = r /\ q.read.iteration = x
      BY <2>1, <1>4, <1>6, <3>1, <1>1
    <3> HIDE DEF q, nw
    <3> QED BY <3>1, <3>2, <1>1, <1>2, <2>1 DEF CursorsValid, CursorDistance, SameIteration
  <2>2. CASE w + c # PipeSize
    <3>2. q.write.value = w + c /\ q.write.iteration = y /\ q.read.value = r /\ q.read.iteration = x
      BY <2>2, <1>4, <1>6
    <3> HIDE DEF q, nw
    <3> QED BY <3>2, <1>1, <1>2, <1>3, <2>2 DEF CursorsValid, CursorDistance, SameIteration
  <2> QED BY <2>1, <2>2
<1>8. ASSUME NEW i \in 1 .. old
      PROVE  Place(q, i) = Place(p, i) /\ Place(p, i) \in 0 .. PipeSize - 1 /\ Place(p, i) \notin w .. w + c - 1
  <2>1. Place(q, i) = Place(p, i)
    BY <1>6 DEF Place
  <2>2. Place(p, i) \in 0 .. PipeSize - 1
    <3>1. i \in 1 .. PipeSize
      BY <1>1, <1>3
    <3> QED BY <3>1, AtInRange
  <2>3. Place(p, i) \notin w .. w + c - 1
    <3>1. CASE r + i <= PipeSize
      <4>1. Place(p, i) = r + i - 1
        BY <3>1 DEF Place
      <4> QED BY <4>1, <3>1, <1>1, <1>2, <1>3
    <3>2. CASE ~(r + i <= PipeSize)
      <4>1. Place(p, i) = r + i - 1 - PipeSize
        BY <3>2 DEF Place
      <4> QED BY <4>1, <3>2, <1>1, <1>2, <1>3
    <3> QED BY <3>1, <3>2
  <2> QED BY <2>1, <2>2, <2>3
<1>9. ASSUME NEW i \in 1 .. c PROVE Place(q, old + i) = w + i - 1
  <2>1. q.read.value = r
    BY <1>6
  <2>2. CASE y = x
    BY <2>1, <2>2, <1>1, <1>2 DEF Place
  <2>3. CASE y # x
    <3>1. r + (old + i) = w + i + PipeSize
      BY <2>3, <1>1, <1>2
    <3>2. ~(r + (old + i) <= PipeSize) 
      BY <3>1, <1>1
    <3>3. Place(q, old + i) = r + (old + i) - 1 - PipeSize
      BY <3>2, <2>1 DEF Place
    <3> QED BY <3>1, <3>3, <1>1, <1>3
  <2> QED BY <2>2, <2>3
<1>10. c = PipeSize - w => q.write.value = 0
  BY <1>1, <1>4, <1>6
<1> QED BY <1>6, <1>7, <1>8, <1>9, <1>10

\* The same for a read: what is left keeps its place, and the chunk lies where the cursor is.
LEMMA ReadPlaces ==
    ASSUME NEW p \in Pipe, CursorsValid(p), NEW c \in Nat, c > 0,
           c <= PipeSize - p.read.value, c <= CursorDistance(p)
    PROVE  LET q == [p EXCEPT !.read = MoveCursor(@, c)]
               start == p.read.value
               old == CursorDistance(p)
           IN  /\ q \in Pipe /\ q.write = p.write /\ q.index = p.index
               /\ CursorsValid(q) /\ CursorDistance(q) = old - c
               /\ \A i \in 1 .. c : Place(p, i) = start + i - 1
               /\ \A i \in 1 .. old - c : Place(q, i) = Place(p, c + i)
               /\ c = PipeSize - start => q.read.value = 0
<1> DEFINE r == p.read.value
           w == p.write.value
           x == p.read.iteration
           y == p.write.iteration
           old == CursorDistance(p)
           nr == MoveCursor(p.read, c)
           q == [p EXCEPT !.read = nr]
<1>1. /\ PipeSize \in Nat /\ PipeSize > 0 /\ r \in 0 .. PipeSize - 1 /\ w \in 0 .. PipeSize - 1 /\ x \in {0, 1} /\ y \in {0, 1}
  BY DspAssumption DEF Pipe
<1>2. /\ y = x => old = w - r /\ w >= r
      /\ y # x => old = w - r + PipeSize /\ w <= r
  BY <1>1 DEF CursorsValid, CursorDistance, SameIteration
<1>3. old \in 0 .. PipeSize
  BY DistanceInRange
<1>4. /\ r + c = PipeSize => nr = [value |-> 0, iteration |-> 1 - x]
      /\ r + c # PipeSize => nr = [value |-> r + c, iteration |-> x] /\ r + c < PipeSize
  <2>1. r + c <= PipeSize
    BY <1>1
  <2>2. r = p.read.value /\ x = p.read.iteration
    OBVIOUS
  <2>3. CASE r + c = PipeSize
    <3>1. nr = [value |-> r + c - PipeSize, iteration |-> 1 - x]
      BY <2>3, <1>1 DEF MoveCursor, Cursor
    <3>2. r + c - PipeSize = 0
      BY <2>3, <1>1
    <3> QED BY <3>1, <3>2, <2>3
  <2>4. CASE r + c # PipeSize
    <3>1. r + c < PipeSize
      BY <2>1, <2>4, <1>1
    <3>2. nr = [value |-> r + c, iteration |-> x]
      BY <3>1, <1>1 DEF MoveCursor, Cursor
    <3> QED BY <3>1, <3>2, <2>4
  <2> QED BY <2>3, <2>4
<1>5. nr \in [value : 0 .. PipeSize - 1, iteration : {0, 1}]
  BY <1>4, <1>1
<1>6. q \in Pipe /\ q.write = p.write /\ q.index = p.index /\ q.read = nr
  BY <1>5 DEF Pipe
<1>7. CursorsValid(q) /\ CursorDistance(q) = old - c
  <2>1. CASE r + c = PipeSize
    <3>1. y # x
      BY <2>1, <1>1, <1>2, <1>3
    <3>2. q.read.value = 0 /\ q.read.iteration = y /\ q.write.value = w /\ q.write.iteration = y
      BY <2>1, <1>4, <1>6, <3>1, <1>1
    <3> HIDE DEF q, nr
    <3> QED BY <3>1, <3>2, <1>1, <1>2, <2>1 DEF CursorsValid, CursorDistance, SameIteration
  <2>2. CASE r + c # PipeSize
    <3>2. q.read.value = r + c /\ q.read.iteration = x /\ q.write.value = w /\ q.write.iteration = y
      BY <2>2, <1>4, <1>6
    <3> HIDE DEF q, nr
    <3> QED BY <3>2, <1>1, <1>2, <1>3, <2>2 DEF CursorsValid, CursorDistance, SameIteration
  <2> QED BY <2>1, <2>2
<1>8. ASSUME NEW i \in 1 .. c PROVE Place(p, i) = r + i - 1
  <2>1. r + i <= PipeSize
    BY <1>1
  <2> QED BY <2>1 DEF Place
<1>9. ASSUME NEW i \in 1 .. old - c PROVE Place(q, i) = Place(p, c + i)
  <2>1. CASE r + c = PipeSize
    <3>1. q.read.value = 0
      BY <2>1, <1>4, <1>6
    <3>2. ~(r + (c + i) <= PipeSize)
      BY <2>1, <1>1, <1>3
    <3>3. Place(p, c + i) = r + (c + i) - 1 - PipeSize
      BY <3>2 DEF Place
    <3>4. 0 + i <= PipeSize
      BY <1>1, <1>3
    <3>5. Place(q, i) = 0 + i - 1
      BY <3>1, <3>4 DEF Place
    <3> QED BY <3>3, <3>5, <2>1, <1>1, <1>3
  <2>2. CASE r + c # PipeSize
    <3>1. q.read.value = r + c
      BY <2>2, <1>4, <1>6
    <3>2. r + c + i = r + (c + i)
      BY <1>1, <1>3
    <3>3. CASE r + (c + i) <= PipeSize
      <4>1. Place(q, i) = r + c + i - 1
        BY <3>1, <3>2, <3>3 DEF Place
      <4>2. Place(p, c + i) = r + (c + i) - 1
        BY <3>3 DEF Place
      <4> QED BY <4>1, <4>2, <1>1, <1>3
    <3>4. CASE ~(r + (c + i) <= PipeSize)
      <4>1. Place(q, i) = r + c + i - 1 - PipeSize
        BY <3>1, <3>2, <3>4 DEF Place
      <4>2. Place(p, c + i) = r + (c + i) - 1 - PipeSize
        BY <3>4 DEF Place
      <4> QED BY <4>1, <4>2, <1>1, <1>3
    <3> QED BY <3>3, <3>4
  <2> QED BY <2>1, <2>2
<1>10. c = PipeSize - r => q.read.value = 0
  BY <1>1, <1>4, <1>6
<1> QED BY <1>6, <1>7, <1>8, <1>9, <1>10

\* What a pipe may hold after bytes were written, those included that the service replaces.
Allowed(bytes, may, replace) ==
  /\ Len(may) = Len(bytes)
  /\ \A i \in 1 .. Len(bytes) : bytes[i] \in may[i] /\ (replace /\ Len(bytes) >= 4 => 0 \in may[i])

\* What one turn of the loop of a write does: c bytes are added to what is under way.
WritesChunk(p, memory, bytes, replace, sent, may) ==
  LET c == Least(Len(bytes), PipeSize - p.write.value)
      q == [p EXCEPT !.write = MoveCursor(@, c)]
      v == WriteChunk(Turn(p, memory, bytes), replace)
  IN  /\ v = Turn(q, v.memory, SubSeq(bytes, c + 1, Len(bytes)))
      /\ v.memory \in Memory /\ q \in Pipe /\ q.index = p.index
      /\ Holds(q, v.memory, sent \o SubSeq(may, 1, c))
      /\ c \in 1 .. Len(bytes) /\ GetWritableBytes(q) = GetWritableBytes(p) - c
      /\ c # Len(bytes) => q.write.value = 0

\* One turn of the loop writes a chunk behind what is under way (HandleWriteProcessPipe).
LEMMA WriteChunkKeeps ==
    ASSUME NEW p \in Pipe, NEW memory \in Memory, NEW bytes \in Seq(Byte), NEW replace \in BOOLEAN,
           NEW sent \in Seq(SUBSET Byte), NEW may \in Seq(SUBSET Byte), Allowed(bytes, may, replace),
           Holds(p, memory, sent), Len(bytes) > 0, Len(bytes) <= GetWritableBytes(p)
    PROVE  WritesChunk(p, memory, bytes, replace, sent, may)
<1> DEFINE n == Len(bytes)
           start == p.write.value
           c == Least(n, PipeSize - start)
           q == [p EXCEPT !.write = MoveCursor(@, c)]
           old == CursorDistance(p)
           stored == [a \in DOMAIN memory |->
                       IF a \in start .. start + c - 1
                       THEN IF replace /\ n = 4 /\ a - start >= 2 THEN 0 ELSE bytes[a - start + 1]
                       ELSE memory[a]]
           rest == SubSeq(bytes, c + 1, n)
           v == WriteChunk(Turn(p, memory, bytes), replace)
           part == SubSeq(may, 1, c)
           all == sent \o part
<1>1. /\ PipeSize \in Nat /\ PipeSize > 0 /\ start \in 0 .. PipeSize - 1 /\ n \in Nat /\ n > 0
      /\ CursorsValid(p) /\ old \in 0 .. PipeSize /\ Len(sent) = old /\ n <= PipeSize - old
  <2>1. CursorsValid(p) /\ Len(sent) = old
    BY DEF Holds
  <2>2. old \in 0 .. PipeSize
    BY <2>1, DistanceInRange
  <2> QED BY <2>1, <2>2, DspAssumption, LenProperties DEF Pipe, GetWritableBytes
<1>2. c \in 1 .. n /\ c \in Nat /\ c > 0 /\ c <= PipeSize - start /\ c <= PipeSize - old /\ (c # n => c = PipeSize - start)
  BY <1>1 DEF Least
<1>3. /\ q \in Pipe /\ q.read = p.read /\ q.index = p.index
      /\ CursorsValid(q) /\ CursorDistance(q) = old + c
      /\ \A i \in 1 .. old : Place(q, i) = Place(p, i) /\ Place(p, i) \in 0 .. PipeSize - 1 /\ Place(p, i) \notin start .. start + c - 1
      /\ \A i \in 1 .. c : Place(q, old + i) = start + i - 1
      /\ c = PipeSize - start => q.write.value = 0
  <2> HIDE DEF c
  <2> QED BY <1>1, <1>2, WritePlaces
<1>4. v = Turn(q, stored, rest)
  <2>1. ~IsFull(p)
    BY <1>1 DEF IsFull
  <2>2. ~(n > GetWritableBytes(p)) /\ n # 0
    BY <1>1 DEF GetWritableBytes
  <2>3. GetWritableBytesUntilWrap(p) = PipeSize - start
    BY DEF GetWritableBytesUntilWrap
  <2> QED BY <2>1, <2>2, <2>3 DEF WriteChunk, Turn
<1>5. DOMAIN memory = 0 .. PipeSize - 1 /\ stored \in Memory
  <2>1. DOMAIN memory = 0 .. PipeSize - 1
    BY DEF Memory
  <2>2. ASSUME NEW a \in 0 .. PipeSize - 1 PROVE stored[a] \in Byte
    <3>1. CASE a \in start .. start + c - 1
      <4>1. a - start + 1 \in 1 .. n
        <5> HIDE DEF c, start, n
        <5> QED BY <3>1, <1>1, <1>2
      <4>2. bytes[a - start + 1] \in Byte
        BY <4>1, ElementOfSeq
      <4> QED BY <4>2, <3>1, <2>1 DEF Byte
    <3>2. CASE a \notin start .. start + c - 1
      BY <3>2, <2>1 DEF Memory
    <3> QED BY <3>1, <3>2
  <2> QED BY <2>1, <2>2 DEF Memory
<1>6. /\ part \in Seq(SUBSET Byte) /\ Len(part) = c /\ \A i \in 1 .. c : part[i] = may[i]
      /\ all \in Seq(SUBSET Byte) /\ Len(all) = old + c
      /\ \A i \in 1 .. old + c : all[i] = IF i <= old THEN sent[i] ELSE may[i - old]
  <2>1. Len(may) = n
    BY DEF Allowed
  <2>2. \A i \in 1 .. c : may[i] \in SUBSET Byte
    BY <2>1, <1>2, ElementOfSeq
  <2>3. part \in Seq(SUBSET Byte) /\ Len(part) = c /\ \A i \in 1 .. c : part[i] = may[i]
    <3>1. /\ part \in Seq(SUBSET Byte) /\ Len(part) = (IF 1 <= c THEN c - 1 + 1 ELSE 0)
          /\ \A i \in 1 .. c - 1 + 1 : part[i] = may[1 + i - 1]
      <4> HIDE DEF c
      <4> QED BY <2>2, <1>2, SubSeqProperties
    <3> HIDE DEF part, c
    <3> QED BY <3>1, <1>2
  <2>4. /\ all \in Seq(SUBSET Byte) /\ Len(all) = Len(sent) + Len(part)
        /\ \A i \in 1 .. Len(sent) + Len(part) : all[i] = IF i <= Len(sent) THEN sent[i] ELSE part[i - Len(sent)]
    <3> HIDE DEF part
    <3> QED BY <2>3, ConcatProperties
  <2> HIDE DEF part, all, c
  <2>5. ASSUME NEW i \in 1 .. old + c PROVE all[i] = IF i <= old THEN sent[i] ELSE may[i - old]
    <3>1. CASE i <= old
      BY <3>1, <2>4, <2>3, <1>1
    <3>2. CASE ~(i <= old)
      <4>1. i - old \in 1 .. c
        BY <3>2, <1>1, <1>2
      <4>2. all[i] = part[i - old]
        BY <3>2, <2>4, <2>3, <1>1
      <4> QED BY <4>1, <4>2, <2>3, <3>2
    <3> QED BY <3>1, <3>2
  <2> QED BY <2>3, <2>4, <2>5, <1>1
<1>7. Holds(q, stored, all)
  <2>1. ASSUME NEW i \in 1 .. old PROVE stored[Place(q, i)] \in all[i]
    <3>1. Place(q, i) = Place(p, i) /\ Place(p, i) \in 0 .. PipeSize - 1 /\ Place(p, i) \notin start .. start + c - 1
      BY <1>3
    <3>2. stored[Place(q, i)] = memory[Place(p, i)]
      BY <3>1, <1>5
    <3>3. memory[Place(p, i)] \in sent[i]
      BY <1>1 DEF Holds
    <3>4. all[i] = sent[i]
      BY <1>6, <1>1, <1>2
    <3> QED BY <3>2, <3>3, <3>4
  <2>2. ASSUME NEW i \in 1 .. c PROVE stored[Place(q, old + i)] \in all[old + i]
    <3>1. Place(q, old + i) = start + i - 1
      BY <1>3
    <3>2. start + i - 1 \in 0 .. PipeSize - 1 /\ start + i - 1 \in start .. start + c - 1 /\ start + i - 1 - start + 1 = i
      <4> HIDE DEF c, start, n, stored, all, q, old, part
      <4> QED BY <1>1, <1>2
    <3>3. stored[start + i - 1] = IF replace /\ n = 4 /\ i - 1 >= 2 THEN 0 ELSE bytes[i]
      <4>1. PICK a \in DOMAIN memory : a = start + i - 1
        BY <3>2, <1>5
      <4>2. a \in start .. start + c - 1 /\ a - start = i - 1 /\ a - start + 1 = i
        <5> HIDE DEF c, start, n
        <5> QED BY <3>2, <4>1, <1>1, <1>2
      <4>3. stored[a] = IF replace /\ n = 4 /\ a - start >= 2 THEN 0 ELSE bytes[a - start + 1]
        BY <4>2
      <4>4. CASE replace /\ n = 4 /\ i - 1 >= 2
        <5>1. stored[a] = 0
          <6> HIDE DEF stored, c, start, n
          <6> QED BY <4>2, <4>3, <4>4
        <5> HIDE DEF stored, c, start, n
        <5> QED BY <5>1, <4>1, <4>4
      <4>5. CASE ~(replace /\ n = 4 /\ i - 1 >= 2)
        <5>1. stored[a] = bytes[i]
          <6> HIDE DEF stored, c, start, n
          <6> QED BY <4>2, <4>3, <4>5
        <5> HIDE DEF stored, c, start, n
        <5> QED BY <5>1, <4>1, <4>5
      <4> QED BY <4>4, <4>5
    <3>4. all[old + i] = may[i]
      <4>1. PICK k \in 1 .. old + c : k = old + i
        BY <1>1, <1>2
      <4>2. ~(k <= old) /\ k - old = i
        BY <4>1, <1>1, <1>2
      <4>3. all[k] = may[k - old]
        <5> HIDE DEF all
        <5> QED BY <4>2, <1>6
      <4> HIDE DEF all
      <4> QED BY <4>1, <4>2, <4>3
    <3>5. i \in 1 .. n
      BY <1>2
    <3>6. bytes[i] \in may[i] /\ (replace /\ n = 4 => 0 \in may[i])
      BY <3>5 DEF Allowed
    <3> HIDE DEF stored, all, q
    <3> QED BY <3>1, <3>3, <3>4, <3>6
  <2>3. ASSUME NEW i \in 1 .. Len(all) PROVE stored[Place(q, i)] \in all[i]
    <3>1. CASE i <= old
      <4>1. i \in 1 .. old
        BY <3>1, <1>6, <1>1
      <4> QED BY <4>1, <2>1
    <3>2. CASE ~(i <= old)
      <4>1. i - old \in 1 .. c /\ old + (i - old) = i
        BY <3>2, <1>6, <1>1, <1>2
      <4> HIDE DEF stored, all, q
      <4>2. stored[Place(q, old + (i - old))] \in all[old + (i - old)]
        BY <4>1, <2>2
      <4> QED BY <4>1, <4>2
    <3> QED BY <3>1, <3>2
  <2> HIDE DEF stored, all, q
  <2> QED BY <2>3, <1>3, <1>6 DEF Holds
<1>8. GetWritableBytes(q) = GetWritableBytes(p) - c
  BY <1>3, <1>1, <1>2 DEF GetWritableBytes
<1>9. v.memory = stored
  <2> HIDE DEF v, q, stored, rest
  <2> QED BY <1>4 DEF Turn
<1> HIDE DEF v, q, stored, rest, all, c, part
<1>10. v = Turn(q, v.memory, rest) /\ v.memory \in Memory /\ Holds(q, v.memory, all) /\ q \in Pipe /\ q.index = p.index
  BY <1>3, <1>4, <1>5, <1>7, <1>9
<1> QED BY <1>2, <1>3, <1>8, <1>10 DEF v, q, rest, all, c, part, stored, WritesChunk

\* A list in two parts.
LEMMA SplitAt ==
    ASSUME NEW S, NEW s \in Seq(S), NEW c \in 0 .. Len(s)
    PROVE  LET front == SubSeq(s, 1, c)
               back == SubSeq(s, c + 1, Len(s))
           IN  /\ front \in Seq(S) /\ Len(front) = c /\ \A i \in 1 .. c : front[i] = s[i]
               /\ back \in Seq(S) /\ Len(back) = Len(s) - c /\ \A i \in 1 .. Len(s) - c : back[i] = s[c + i]
               /\ front \o back = s
<1> DEFINE n == Len(s)
           front == SubSeq(s, 1, c)
           back == SubSeq(s, c + 1, n)
<1>1. n \in Nat /\ c \in Nat /\ c <= n /\ c \in Int /\ c + 1 \in Int /\ n \in Int /\ 1 \in Int
  BY LenProperties
<1>2. \A i \in 1 .. n : s[i] \in S
  BY ElementOfSeq
<1> HIDE DEF n
<1>3. (\A i \in 1 .. c : s[i] \in S) /\ (\A i \in c + 1 .. n : s[i] \in S)
  BY <1>1, <1>2
<1>4. /\ front \in Seq(S) /\ Len(front) = (IF 1 <= c THEN c - 1 + 1 ELSE 0) /\ \A i \in 1 .. c - 1 + 1 : front[i] = s[1 + i - 1]
  BY <1>1, <1>3, SubSeqProperties
<1>5. /\ back \in Seq(S) /\ Len(back) = (IF c + 1 <= n THEN n - (c + 1) + 1 ELSE 0)
      /\ \A i \in 1 .. n - (c + 1) + 1 : back[i] = s[c + 1 + i - 1]
  BY <1>1, <1>3, SubSeqProperties
<1>6. front \in Seq(S) /\ Len(front) = c /\ \A i \in 1 .. c : front[i] = s[i]
  <2> HIDE DEF front
  <2>1. \A i \in 1 .. c : 1 + i - 1 = i
    BY <1>1
  <2> QED BY <1>1, <1>4, <2>1
<1>7. back \in Seq(S) /\ Len(back) = n - c /\ \A i \in 1 .. n - c : back[i] = s[c + i]
  <2> HIDE DEF back
  <2>1. \A i \in 1 .. n - c : c + 1 + i - 1 = c + i
    BY <1>1
  <2>2. n - (c + 1) + 1 = n - c
    BY <1>1
  <2> QED BY <1>1, <1>5, <2>1, <2>2
<1>8. front \o back = s
  <2>1. 1 \in 1 .. n + 1 /\ c \in 1 - 1 .. n /\ n \in c .. n
    BY <1>1
  <2>2. front \o back = SubSeq(s, 1, n)
    BY <2>1, ConcatAdjacentSubSeq DEF n
  <2> QED BY <2>2, SubSeqFull DEF n
<1> QED BY <1>6, <1>7, <1>8 DEF n

\* The second turn of the loop starts at the begin of the pipe and is the last.
LEMMA WriteChunkLast ==
    ASSUME NEW p \in Pipe, NEW memory \in Memory, NEW bytes \in Seq(Byte), NEW replace \in BOOLEAN,
           NEW sent \in Seq(SUBSET Byte), NEW may \in Seq(SUBSET Byte), Allowed(bytes, may, replace),
           Holds(p, memory, sent), Len(bytes) > 0, Len(bytes) <= GetWritableBytes(p), p.write.value = 0
    PROVE  LET v == WriteChunk(Turn(p, memory, bytes), replace)
           IN  v.p \in Pipe /\ v.p.index = p.index /\ v.memory \in Memory /\ Holds(v.p, v.memory, sent \o may)
<1> DEFINE n == Len(bytes)
           c == Least(n, PipeSize - p.write.value)
           q == [p EXCEPT !.write = MoveCursor(@, c)]
           v == WriteChunk(Turn(p, memory, bytes), replace)
<1>1. /\ v = Turn(q, v.memory, SubSeq(bytes, c + 1, n))
      /\ v.memory \in Memory /\ q \in Pipe /\ q.index = p.index
      /\ Holds(q, v.memory, sent \o SubSeq(may, 1, c))
  <2>1. WritesChunk(p, memory, bytes, replace, sent, may)
    BY WriteChunkKeeps
  <2> QED BY <2>1 DEF WritesChunk
<1>2. c = n
  <2>1. n \in Nat /\ PipeSize \in Nat /\ CursorDistance(p) \in 0 .. PipeSize
    BY DspAssumption, LenProperties, DistanceInRange DEF Holds
  <2>2. n <= PipeSize - p.write.value
    BY <2>1 DEF GetWritableBytes
  <2> QED BY <2>2 DEF Least
<1>3. SubSeq(may, 1, n) = may
  BY SubSeqFull DEF Allowed
<1> HIDE DEF v, q, c, n
<1>4. v.p = q
  BY <1>1 DEF Turn
<1> QED BY <1>1, <1>2, <1>3, <1>4 DEF v

\* A write that is accepted is under way behind what was, and takes at most two turns (HandleWriteProcessPipe).
LEMMA WriteChunksKeep ==
    ASSUME NEW p \in Pipe, NEW memory \in Memory, NEW bytes \in Seq(Byte), NEW replace \in BOOLEAN,
           NEW sent \in Seq(SUBSET Byte), NEW may \in Seq(SUBSET Byte), Allowed(bytes, may, replace),
           Holds(p, memory, sent), WriteChunks(p, memory, bytes, replace).ok
    PROVE  LET done == WriteChunks(p, memory, bytes, replace)
           IN  done.p \in Pipe /\ done.p.index = p.index /\ done.memory \in Memory /\ Holds(done.p, done.memory, sent \o may)
<1> DEFINE n == Len(bytes)
           first == Turn(p, memory, bytes)
           v == WriteChunk(first, replace)
           done == WriteChunk(v, replace)
           start == p.write.value
           c == Least(n, PipeSize - start)
           q == [p EXCEPT !.write = MoveCursor(@, c)]
           part == SubSeq(may, 1, c)
<1>1. WriteChunks(p, memory, bytes, replace) = done
  BY DEF WriteChunks, Turn
<1>2. n \in Nat /\ PipeSize \in Nat /\ CursorDistance(p) \in 0 .. PipeSize /\ Len(may) = n
  BY DspAssumption, LenProperties, DistanceInRange DEF Holds, Allowed
<1>3. CASE n = 0
  <2>1. v = first /\ done = first
    BY <1>3 DEF WriteChunk, Turn
  <2>2. may = <<>>
    BY <1>2, <1>3, EmptySeq
  <2>3. sent \o may = sent
    BY <2>2, ConcatEmptySeq
  <2> QED BY <1>1, <2>1, <2>3 DEF Turn
<1>4. CASE n > GetWritableBytes(p) /\ n # 0
  <2>1. v = [first EXCEPT !.ok = FALSE]
    BY <1>4 DEF WriteChunk, Turn
  <2>2. ~v.ok
    BY <2>1 DEF Turn
  <2>3. done = v
    <3> HIDE DEF v
    <3> QED BY <2>2 DEF WriteChunk
  <2> QED BY <1>1, <2>2, <2>3
<1>5. CASE n <= GetWritableBytes(p) /\ n > 0
  <2>1. /\ v = Turn(q, v.memory, SubSeq(bytes, c + 1, n))
        /\ v.memory \in Memory /\ q \in Pipe /\ q.index = p.index
        /\ Holds(q, v.memory, sent \o part)
        /\ c \in 1 .. n /\ GetWritableBytes(q) = GetWritableBytes(p) - c
        /\ c # n => q.write.value = 0
    <3>1. WritesChunk(p, memory, bytes, replace, sent, may)
      BY <1>5, WriteChunkKeeps
    <3> QED BY <3>1 DEF WritesChunk
  <2> DEFINE rest == SubSeq(bytes, c + 1, n)
             more == SubSeq(may, c + 1, n)
             m == v.memory
  <2> HIDE DEF v, c, q
  <2>2. /\ rest \in Seq(Byte) /\ Len(rest) = n - c /\ \A i \in 1 .. n - c : rest[i] = bytes[c + i]
        /\ more \in Seq(SUBSET Byte) /\ Len(more) = n - c /\ \A i \in 1 .. n - c : more[i] = may[c + i]
        /\ part \in Seq(SUBSET Byte) /\ part \o more = may
    <3>1. c \in 0 .. n /\ c \in 0 .. Len(may) /\ Len(may) = n
      BY <2>1, <1>2
    <3>2. /\ rest \in Seq(Byte) /\ Len(rest) = n - c /\ \A i \in 1 .. n - c : rest[i] = bytes[c + i]
      BY <3>1, SplitAt
    <3>3. /\ more \in Seq(SUBSET Byte) /\ Len(more) = n - c /\ \A i \in 1 .. n - c : more[i] = may[c + i]
          /\ part \in Seq(SUBSET Byte) /\ part \o more = may
      <4> HIDE DEF n
      <4> QED BY <3>1, SplitAt
    <3> QED BY <3>2, <3>3
  <2>4. (sent \o part) \o more = sent \o may
    <3>1. part \in Seq(SUBSET Byte) /\ more \in Seq(SUBSET Byte)
      BY <2>2
    <3>2. part \o more = may
      BY <2>2
    <3> HIDE DEF part, more
    <3>3. (sent \o part) \o more = sent \o (part \o more)
      BY <3>1, ConcatAssociative
    <3> QED BY <3>2, <3>3
  <2>5. CASE c = n
    <3>1. rest = <<>> /\ more = <<>>
      BY <2>5, <2>2, <2>1, <1>2, EmptySeq
    <3>2. v.bytes = <<>> /\ v.ok /\ v.p = q
      <4>1. v = Turn(q, m, rest) /\ rest = <<>>
        BY <2>1, <3>1
      <4> HIDE DEF rest, m
      <4> QED BY <4>1 DEF Turn
    <3>3. done = v
      BY <3>2 DEF WriteChunk
    <3>4. sent \o part \in Seq(SUBSET Byte)
      BY <2>2, ConcatProperties
    <3>5. sent \o part = sent \o may
      BY <2>4, <3>1, <3>4, ConcatEmptySeq
    <3> QED BY <1>1, <2>1, <3>2, <3>3, <3>5
  <2>6. CASE c # n
    <3>1. q.write.value = 0 /\ n - c \in Nat /\ n - c > 0 /\ n - c <= GetWritableBytes(q)
      BY <2>1, <2>6, <1>2, <1>5 DEF GetWritableBytes
    <3>4. Allowed(rest, more, replace)
      <4>1. ASSUME NEW i \in 1 .. n - c
            PROVE  rest[i] \in more[i] /\ (replace /\ Len(rest) >= 4 => 0 \in more[i])
        <5>1. c + i \in 1 .. n
          BY <2>1, <1>2
        <5>2. bytes[c + i] \in may[c + i] /\ (replace /\ n >= 4 => 0 \in may[c + i])
          BY <5>1 DEF Allowed
        <5>3. rest[i] = bytes[c + i] /\ more[i] = may[c + i]
          BY <2>2
        <5>4. Len(rest) >= 4 => n >= 4
          BY <2>2, <2>1, <1>2, SMTT(60)
        <5> HIDE DEF rest, more
        <5> QED BY <5>2, <5>3, <5>4
      <4> HIDE DEF rest, more
      <4> QED BY <4>1, <2>2 DEF Allowed
    <3>5. sent \o part \in Seq(SUBSET Byte)
      BY <2>2, ConcatProperties
    <3> DEFINE before == sent \o part
    <3>6. /\ q \in Pipe /\ m \in Memory /\ rest \in Seq(Byte) /\ more \in Seq(SUBSET Byte) /\ before \in Seq(SUBSET Byte)
          /\ Holds(q, m, before) /\ Allowed(rest, more, replace) /\ Len(rest) > 0 /\ Len(rest) <= GetWritableBytes(q)
      BY <2>1, <2>2, <3>1, <3>4, <3>5
    <3>7. v = Turn(q, m, rest) /\ done = WriteChunk(v, replace) /\ before \o more = sent \o may
      BY <2>1, <2>4
    <3> HIDE DEF rest, more, m, before, done, n, start, first, part
    <3>8. LET x == WriteChunk(Turn(q, m, rest), replace)
          IN  x.p \in Pipe /\ x.p.index = q.index /\ x.memory \in Memory /\ Holds(x.p, x.memory, before \o more)
      BY <3>1, <3>6, WriteChunkLast
    <3> QED BY <1>1, <2>1, <3>7, <3>8
  <2> QED BY <2>5, <2>6
<1>6. n = 0 \/ (n > GetWritableBytes(p) /\ n # 0) \/ (n <= GetWritableBytes(p) /\ n > 0)
  BY <1>2 DEF GetWritableBytes
<1> QED BY <1>3, <1>4, <1>5, <1>6

\* What one turn of the loop of a read does: c bytes of what is under way are added to those it has got.
ReadsChunk(p, memory, sent, n, got) ==
  LET c == Least(n, GetReadableBytesUntilWrap(p))
      r == ReadChunk([p |-> p, n |-> n, got |-> got], memory)
  IN  /\ c \in 1 .. n /\ c \in 0 .. Len(sent)
      /\ r = [p |-> r.p, n |-> n - c, got |-> r.got]
      /\ r.p \in Pipe /\ r.p.index = p.index
      /\ Holds(r.p, memory, SubSeq(sent, c + 1, Len(sent))) /\ CursorDistance(r.p) = CursorDistance(p) - c
      /\ c # n => r.p.read.value = 0
      /\ r.got \in Seq(Byte) /\ Len(r.got) = Len(got) + c
      /\ \A i \in 1 .. Len(got) : r.got[i] = got[i]
      /\ \A i \in 1 .. c : r.got[Len(got) + i] \in sent[i]

\* One turn of the loop reads the first chunk of what is under way (HandleReadPipeIfPossible).
LEMMA ReadChunkRight ==
    ASSUME NEW p \in Pipe, NEW memory \in Memory, NEW sent \in Seq(SUBSET Byte), Holds(p, memory, sent),
           NEW n \in Nat, n > 0, n <= CursorDistance(p), NEW got \in Seq(Byte)
    PROVE  ReadsChunk(p, memory, sent, n, got)
<1> DEFINE start == p.read.value
           old == CursorDistance(p)
           c == Least(n, GetReadableBytesUntilWrap(p))
           q == [p EXCEPT !.read = MoveCursor(@, c)]
           part == [i \in 1 .. c |-> memory[start + i - 1]]
           rest == SubSeq(sent, c + 1, Len(sent))
<1>1. /\ PipeSize \in Nat /\ PipeSize > 0 /\ start \in 0 .. PipeSize - 1
      /\ CursorsValid(p) /\ old \in 0 .. PipeSize /\ Len(sent) = old /\ n <= old
  <2>1. CursorsValid(p) /\ Len(sent) = old
    BY DEF Holds
  <2> QED BY <2>1, DspAssumption, DistanceInRange DEF Pipe
<1>2. c \in 1 .. n /\ c \in Nat /\ c > 0 /\ c <= PipeSize - start /\ c <= old /\ (c # n => c = PipeSize - start)
  <2>1. GetReadableBytesUntilWrap(p) = IF old <= PipeSize - start THEN old ELSE PipeSize - start
    BY DEF GetReadableBytesUntilWrap, Least
  <2>2. CASE old <= PipeSize - start
    <3>1. c = n
      BY <2>1, <2>2, <1>1 DEF Least
    <3> HIDE DEF c
    <3> QED BY <3>1, <2>2, <1>1
  <2>3. CASE ~(old <= PipeSize - start)
    <3>1. c = IF n <= PipeSize - start THEN n ELSE PipeSize - start
      BY <2>1, <2>3 DEF Least
    <3> HIDE DEF c
    <3> QED BY <3>1, <2>3, <1>1
  <2> QED BY <2>2, <2>3
<1>3. /\ q \in Pipe /\ q.write = p.write /\ q.index = p.index
      /\ CursorsValid(q) /\ CursorDistance(q) = old - c
      /\ \A i \in 1 .. c : Place(p, i) = start + i - 1
      /\ \A i \in 1 .. old - c : Place(q, i) = Place(p, c + i)
      /\ c = PipeSize - start => q.read.value = 0
  <2> HIDE DEF c
  <2> QED BY <1>1, <1>2, ReadPlaces
<1>4. ReadChunk([p |-> p, n |-> n, got |-> got], memory) = [p |-> q, n |-> n - c, got |-> got \o part]
  BY DEF ReadChunk
<1>5. part \in Seq(Byte) /\ Len(part) = c /\ \A i \in 1 .. c : part[i] \in sent[i]
  <2> HIDE DEF c
  <2>1. ASSUME NEW i \in 1 .. c PROVE start + i - 1 \in 0 .. PipeSize - 1 /\ memory[start + i - 1] \in sent[i]
    <3>1. i \in 1 .. Len(sent)
      BY <1>1, <1>2
    <3>2. memory[Place(p, i)] \in sent[i]
      BY <3>1 DEF Holds
    <3>3. start + i - 1 \in 0 .. PipeSize - 1
      BY <1>1, <1>2
    <3> QED BY <3>2, <3>3, <1>3
  <2>2. \A i \in 1 .. c : memory[start + i - 1] \in Byte
    BY <2>1 DEF Memory
  <2>3. part \in [1 .. c -> Byte]
    BY <2>2
  <2>4. part \in Seq(Byte) /\ Len(part) = c
    BY <2>3, <1>2
  <2> QED BY <2>1, <2>4
<1>6. Holds(q, memory, rest)
  <2> HIDE DEF c
  <2>1. c \in 0 .. Len(sent)
    BY <1>1, <1>2
  <2>2. rest \in Seq(SUBSET Byte) /\ Len(rest) = old - c /\ \A i \in 1 .. old - c : rest[i] = sent[c + i]
    BY <2>1, <1>1, SplitAt
  <2>3. ASSUME NEW i \in 1 .. old - c PROVE memory[Place(q, i)] \in rest[i]
    <3>1. c + i \in 1 .. Len(sent)
      BY <1>1, <1>2
    <3>2. memory[Place(p, c + i)] \in sent[c + i]
      BY <3>1 DEF Holds
    <3>3. Place(q, i) = Place(p, c + i) /\ rest[i] = sent[c + i]
      BY <1>3, <2>2
    <3> HIDE DEF rest, q
    <3> QED BY <3>2, <3>3
  <2> HIDE DEF rest, q
  <2> QED BY <2>2, <2>3, <1>3 DEF Holds
<1>7. c \in 0 .. Len(sent)
  BY <1>1, <1>2
<1> DEFINE r == ReadChunk([p |-> p, n |-> n, got |-> got], memory)
           all == got \o part
<1>8. /\ all \in Seq(Byte) /\ Len(all) = Len(got) + Len(part)
      /\ \A i \in 1 .. Len(got) + Len(part) : all[i] = IF i <= Len(got) THEN got[i] ELSE part[i - Len(got)]
  <2> HIDE DEF part
  <2> QED BY <1>5, ConcatProperties
<1>9. Len(got) \in Nat
  BY LenProperties
<1> HIDE DEF r, q, c, part, all, rest
<1>10. r = [p |-> q, n |-> n - c, got |-> all]
  BY <1>4 DEF r, all
<1>11. ASSUME NEW i \in 1 .. Len(got) PROVE all[i] = got[i]
  <2>1. i \in 1 .. Len(got) + Len(part) /\ i <= Len(got)
    BY <1>5, <1>2, <1>9
  <2> QED BY <2>1, <1>8
<1>12. ASSUME NEW i \in 1 .. c PROVE all[Len(got) + i] \in sent[i]
  <2>1. PICK k \in 1 .. Len(got) + Len(part) : k = Len(got) + i
    BY <1>5, <1>2, <1>9
  <2>2. ~(k <= Len(got)) /\ k - Len(got) = i
    BY <2>1, <1>9
  <2>3. all[k] = part[k - Len(got)]
    BY <2>2, <1>8
  <2> QED BY <2>1, <2>2, <2>3, <1>5
<1>13. r.p = q /\ r.got = all /\ r = [p |-> r.p, n |-> n - c, got |-> r.got]
  BY <1>10
<1>14. all \in Seq(Byte) /\ Len(all) = Len(got) + c
  BY <1>5, <1>8
<1>15. q \in Pipe /\ q.index = p.index /\ CursorDistance(q) = CursorDistance(p) - c /\ (c # n => q.read.value = 0)
  BY <1>2, <1>3
<1> QED BY <1>2, <1>6, <1>7, <1>11, <1>12, <1>13, <1>14, <1>15 DEF r, c, rest, ReadsChunk

\* A read of what is there returns it in order and leaves the rest (HandleReadPipeIfPossible).
LEMMA ReadChunksRight ==
    ASSUME NEW p \in Pipe, NEW memory \in Memory, NEW sent \in Seq(SUBSET Byte), Holds(p, memory, sent),
           NEW n \in Nat, n <= CursorDistance(p)
    PROVE  LET done == ReadChunks(p, memory, n)
           IN  /\ Fits(done.got, SubSeq(sent, 1, n))
               /\ done.p \in Pipe /\ done.p.index = p.index /\ Holds(done.p, memory, SubSeq(sent, n + 1, Len(sent)))
<1> DEFINE none == <<>>
           first == [p |-> p, n |-> n, got |-> none]
           r == ReadChunk(first, memory)
           done == ReadChunk(r, memory)
           front == SubSeq(sent, 1, n)
           back == SubSeq(sent, n + 1, Len(sent))
           c == Least(n, GetReadableBytesUntilWrap(p))
           left == SubSeq(sent, c + 1, Len(sent))
<1>1. ReadChunks(p, memory, n) = done
  BY DEF ReadChunks
<1>2. PipeSize \in Nat /\ CursorDistance(p) \in 0 .. PipeSize /\ Len(sent) = CursorDistance(p) /\ n \in 0 .. Len(sent)
  BY DspAssumption, DistanceInRange DEF Holds
<1>3. front \in Seq(SUBSET Byte) /\ Len(front) = n /\ \A i \in 1 .. n : front[i] = sent[i]
  BY <1>2, SplitAt
<1> SUFFICES Fits(done.got, front) /\ done.p \in Pipe /\ done.p.index = p.index /\ Holds(done.p, memory, back)
  BY <1>1
<1>4. CASE n = 0
  <2>1. r = first /\ done = first
    BY <1>4 DEF ReadChunk
  <2>2. back = sent
    BY <1>4, SubSeqFull
  <2>3. Fits(none, front)
    <3> HIDE DEF front
    <3> QED BY <1>3, <1>4 DEF Fits
  <2> HIDE DEF done, front, back
  <2> QED BY <2>1, <2>2, <2>3
<1>5. CASE n > 0
  <2>1. none \in Seq(Byte) /\ Len(none) = 0
    OBVIOUS
  <2>2. /\ c \in 1 .. n /\ c \in 0 .. Len(sent)
        /\ r = [p |-> r.p, n |-> n - c, got |-> r.got]
        /\ r.p \in Pipe /\ r.p.index = p.index
        /\ Holds(r.p, memory, left) /\ CursorDistance(r.p) = CursorDistance(p) - c
        /\ c # n => r.p.read.value = 0
        /\ r.got \in Seq(Byte) /\ Len(r.got) = Len(none) + c
        /\ \A i \in 1 .. c : r.got[Len(none) + i] \in sent[i]
    <3>1. ReadsChunk(p, memory, sent, n, none)
      <4> HIDE DEF none
      <4> QED BY <1>5, <2>1, ReadChunkRight
    <3> HIDE DEF none
    <3> QED BY <3>1, <2>1 DEF ReadsChunk
  <2> DEFINE q == r.p
             part == r.got
  <2>3. Len(part) = c /\ \A i \in 1 .. c : part[i] \in sent[i]
    <3>1. \A i \in 1 .. c : Len(none) + i = i
      BY <2>1, <2>2
    <3> HIDE DEF r, none, c
    <3> QED BY <2>1, <2>2, <3>1
  <2> HIDE DEF c, r, left, done, front, back, none
  <2>4. CASE c = n
    <3>1. r.n = 0
      BY <2>2, <2>4
    <3>2. done = r
      BY <3>1 DEF ReadChunk, done
    <3>3. Fits(part, front)
      BY <1>3, <2>2, <2>3, <2>4, LenProperties, ZenonT(60) DEF Fits
    <3>4. left = back
      BY <2>4 DEF left, back
    <3> QED BY <2>2, <3>2, <3>3, <3>4
  <2>5. CASE c # n
    <3> DEFINE m == n - c
    <3>1. m \in Nat /\ m > 0 /\ m <= CursorDistance(q) /\ c + m = n /\ CursorDistance(q) <= PipeSize
      BY <1>2, <2>2, <2>5
    <3>2. left \in Seq(SUBSET Byte) /\ Len(left) = Len(sent) - c /\ \A i \in 1 .. Len(sent) - c : left[i] = sent[c + i]
      BY <2>2, SplitAt DEF left
    <3>3. q \in Pipe /\ Holds(q, memory, left) /\ part \in Seq(Byte) /\ r = [p |-> q, n |-> m, got |-> part] /\ q.read.value = 0
      BY <2>2, <2>5
    <3> HIDE DEF m, q, part
    <3>4. ReadsChunk(q, memory, left, m, part)
      BY <3>1, <3>2, <3>3, ReadChunkRight
    <3>5. Least(m, GetReadableBytesUntilWrap(q)) = m
      BY <3>1, <3>3, <1>2 DEF Least, GetReadableBytesUntilWrap
    <3>6. done = ReadChunk([p |-> q, n |-> m, got |-> part], memory)
      BY <3>3 DEF done
    <3>7. /\ done.p \in Pipe /\ done.p.index = q.index /\ Holds(done.p, memory, SubSeq(left, m + 1, Len(left)))
          /\ done.got \in Seq(Byte) /\ Len(done.got) = n
          /\ \A i \in 1 .. c : done.got[i] = part[i]
          /\ \A i \in 1 .. m : done.got[c + i] \in left[i]
      <4>1. /\ done.p \in Pipe /\ done.p.index = q.index
            /\ Holds(done.p, memory, SubSeq(left, m + 1, Len(left)))
            /\ done.got \in Seq(Byte) /\ Len(done.got) = Len(part) + m
            /\ \A i \in 1 .. Len(part) : done.got[i] = part[i]
            /\ \A i \in 1 .. m : done.got[Len(part) + i] \in left[i]
        BY <3>4, <3>5, <3>6 DEF ReadsChunk
      <4> QED BY <4>1, <2>3, <3>1 DEF part
    <3>8. ASSUME NEW i \in 1 .. n PROVE done.got[i] \in front[i]
      <4>1. CASE i <= c
        <5>1. i \in 1 .. c
          BY <4>1, <2>2
        <5> QED BY <5>1, <3>7, <2>3, <1>3 DEF part
      <4>2. CASE ~(i <= c)
        <5>1. PICK k \in 1 .. m : c + k = i
          <6>1. i - c \in 1 .. m /\ c + (i - c) = i
            BY <4>2, <3>1, <2>2
          <6> QED BY <6>1
        <5>2. done.got[c + k] \in left[k]
          BY <3>7
        <5>3. k \in 1 .. Len(sent) - c
          BY <3>1, <1>2, <2>2
        <5>4. left[k] = sent[c + k]
          BY <5>3, <3>2
        <5> QED BY <5>1, <5>2, <5>4, <1>3
      <4> QED BY <4>1, <4>2
    <3>9. Fits(done.got, front)
      <4>1. DOMAIN done.got = 1 .. n
        BY <3>7, LenProperties
      <4> QED BY <4>1, <3>7, <3>8, <1>3 DEF Fits
    <3>10. SubSeq(left, m + 1, Len(left)) = back
      <4> DEFINE behind == SubSeq(left, m + 1, Len(left))
      <4>1. /\ back \in Seq(SUBSET Byte) /\ Len(back) = Len(sent) - n /\ \A i \in 1 .. Len(sent) - n : back[i] = sent[n + i]
        BY <1>2, SplitAt DEF back
      <4>2. m \in 0 .. Len(left) /\ Len(left) - m = Len(sent) - n
        BY <3>1, <3>2, <1>2, <2>2
      <4>3. /\ behind \in Seq(SUBSET Byte) /\ Len(behind) = Len(left) - m /\ \A i \in 1 .. Len(left) - m : behind[i] = left[m + i]
        BY <4>2, <3>2, SplitAt
      <4> HIDE DEF behind
      <4>4. ASSUME NEW i \in 1 .. Len(sent) - n PROVE behind[i] = back[i]
        <5>1. PICK k \in 1 .. Len(sent) - c : k = m + i
          BY <3>1, <1>2, <2>2, SMTT(60)
        <5>2. behind[i] = left[k] /\ left[k] = sent[c + k]
          BY <5>1, <4>2, <4>3, <3>2
        <5>3. c + k = n + i
          BY <5>1, <3>1, <1>2, <2>2
        <5> QED BY <5>2, <5>3, <4>1
      <4>5. Len(behind) = Len(back) /\ Len(back) = Len(sent) - n
        BY <4>1, <4>2, <4>3
      <4> QED BY <4>1, <4>3, <4>4, <4>5, SeqEqual DEF behind
    <3>11. q.index = p.index
      BY <2>2 DEF q
    <3> QED BY <3>7, <3>9, <3>10, <3>11
  <2> QED BY <2>4, <2>5
<1> QED BY <1>2, <1>4, <1>5

-----------------------------------------------------------------------------
(* The invariant.                                                          *)

\* What the invariant says of the pipes and of the fields that no announcement touches.
Same(s, t) ==
  /\ t.pipe = s.pipe /\ t.memory = s.memory /\ t.sent = s.sent /\ t.cmd = s.cmd
  /\ t.loaded = s.loaded /\ t.started = s.started /\ t.handlers = s.handlers /\ t.wrong = s.wrong /\ t.owed = s.owed
Events(s, t) ==
  /\ t.stage = s.stage /\ t.data_signaled = s.data_signaled /\ t.semaphore_signaled = s.semaphore_signaled
  /\ t.interrupt = s.interrupt /\ t.stopped = s.stopped

\* A step that touches neither the pipes nor an announcement keeps the invariant.
LEMMA QuietStep ==
    ASSUME DspInv, dsp' \in DspState, Same(dsp, dsp'), Events(dsp, dsp'), dsp'.reply[2].value = dsp.reply[2].value,
           dsp'.call.c = "read" => dsp.call.c = "read" \/ dsp.handlers
    PROVE  DspInv'
BY DEF DspInv, DspTypeOK, PipesHold, WordFirst, AnnouncementsRelayed, Same, Events

\* A client waits for the interrupt only while the service runs (the exceptions).
LEMMA StopKeeps ==
    ASSUME DspInv, dsp' = Stop(dsp)
    PROVE  DspInv'
<1>1. dsp \in DspState /\ dsp' = [dsp EXCEPT !.stopped = TRUE]
  BY DEF DspInv, DspTypeOK, Stop
<1>2. dsp' \in DspState
  <2>1. [dsp EXCEPT !.stopped = TRUE] \in DspState
    BY <1>1, TRUE \in BOOLEAN, Zenon DEF DspState
  <2> QED BY <1>1, <2>1
<1>3. Same(dsp, dsp') /\ dsp'.reply = dsp.reply /\ dsp'.stage = dsp.stage /\ dsp'.data_signaled = dsp.data_signaled
      /\ dsp'.semaphore_signaled = dsp.semaphore_signaled /\ dsp'.call = dsp.call /\ dsp'.stopped
  BY <1>1 DEF DspState, Same
<1> QED BY <1>2, <1>3 DEF DspInv, DspTypeOK, PipesHold, WordFirst, AnnouncementsRelayed, Same

\* Taking a word leaves its value and everything else (RecvData).
LEMMA Received ==
    ASSUME NEW s \in DspState, NEW i \in 0 .. 2
    PROVE  LET t == RecvData(s, i)
           IN  /\ t \in DspState /\ Same(s, t) /\ Events(s, t) /\ t.reply[2].value = s.reply[2].value
               /\ t.call = s.call
<1> DEFINE replies == [s.reply EXCEPT ![i].full = FALSE]
           t == RecvData(s, i)
<1>1. replies \in [0 .. 2 -> WordType] /\ replies[2].value = s.reply[2].value
  <2>1. s.reply \in [0 .. 2 -> WordType]
    BY DEF DspState
  <2>2. replies \in [0 .. 2 -> WordType]
    BY <2>1 DEF WordType
  <2>3. replies[2].value = s.reply[2].value
    BY <2>1 DEF WordType
  <2> QED BY <2>2, <2>3
<1>2. t = [s EXCEPT !.reply = replies]
  BY DEF RecvData
<1> HIDE DEF replies, t
<1>3. t \in DspState
  <2>1. [s EXCEPT !.reply = replies] \in DspState
    BY <1>1, Zenon DEF DspState
  <2> QED BY <2>1, <1>2
<1>4. t.reply = replies
  BY <1>2 DEF DspState
<1>5. Same(s, t) /\ Events(s, t) /\ t.call = s.call
  BY <1>2 DEF DspState, Same, Events
<1> QED BY <1>1, <1>3, <1>4, <1>5 DEF t

\* A word on channel 2 is noted, and waits for the semaphore (ProcessPipeEvent).
LEMMA Sent ==
    ASSUME NEW s \in DspState, ~s.semaphore_signaled, NEW i \in 0 .. 2, NEW value \in Nat
    PROVE  LET t == Send(s, i, value)
           IN  /\ t \in DspState /\ Same(s, t) /\ t.call = s.call /\ ~t.semaphore_signaled
               /\ t.stage = s.stage /\ t.interrupt = s.interrupt /\ t.stopped = s.stopped
               /\ i = 2 => t.reply[2].value = value /\ (s.handlers => t.data_signaled)
<1> DEFINE replies == [s.reply EXCEPT ![i] = FullWord(value)]
           u == [s EXCEPT !.reply = replies]
           v == [u EXCEPT !.data_signaled = TRUE]
           t == Send(s, i, value)
<1>1. replies \in [0 .. 2 -> WordType] /\ (i = 2 => replies[2].value = value)
  BY DEF DspState, WordType, FullWord
<1> HIDE DEF replies
<1>2. u \in DspState
  BY <1>1, Zenon DEF DspState
<1>3. Same(s, u) /\ u.call = s.call /\ Events(s, u) /\ u.reply = replies
  BY DEF DspState, Same, Events
<1>4. [s EXCEPT !.reply[i] = FullWord(value)] = u
  BY DEF replies
<1> HIDE DEF u
<1>5. v \in DspState
  BY <1>2, TRUE \in BOOLEAN, Zenon DEF DspState
<1>6. Same(u, v) /\ v.call = u.call /\ v.stage = u.stage /\ v.interrupt = u.interrupt /\ v.stopped = u.stopped
      /\ v.semaphore_signaled = u.semaphore_signaled /\ v.data_signaled /\ v.reply = u.reply
  BY <1>2 DEF DspState, Same
<1> HIDE DEF v
<1>7. t = IF i = 2 /\ s.handlers THEN v ELSE u
  <2>1. ~v.semaphore_signaled
    BY <1>3, <1>6 DEF Events
  <2>2. u.handlers = s.handlers
    BY <1>3 DEF Same
  <2>3. ProcessPipeEvent(u, TRUE) = IF s.handlers THEN v ELSE u
    BY <2>1, <2>2 DEF ProcessPipeEvent, v
  <2>4. t = IF i = 2 THEN ProcessPipeEvent(u, TRUE) ELSE u
    BY <1>4 DEF Send
  <2> QED BY <2>3, <2>4
<1> HIDE DEF t
<1>8. CASE i = 2 /\ s.handlers
  <2>1. t = v
    BY <1>7, <1>8
  <2>2. Same(s, v) /\ v.call = s.call
    BY <1>3, <1>6 DEF Same
  <2> QED BY <2>1, <2>2, <1>1, <1>3, <1>5, <1>6 DEF Events, t
<1>9. CASE ~(i = 2 /\ s.handlers)
  <2>1. t = u
    BY <1>7, <1>9
  <2> QED BY <2>1, <1>1, <1>2, <1>3, <1>9 DEF Events, t
<1> QED BY <1>8, <1>9

\* The semaphore after its word raises the interrupt (ProcessPipeEvent).
LEMMA Announced ==
    ASSUME NEW s \in DspState, s.handlers, s.data_signaled, s.reply[2].value = 4
    PROVE  LET t == ProcessPipeEvent(s, FALSE)
           IN  t \in DspState /\ Same(s, t) /\ t.call = s.call /\ ~t.semaphore_signaled /\ t.interrupt /\ t.stopped = s.stopped
<1> DEFINE u == [s EXCEPT !.semaphore_signaled = TRUE]
           v == [u EXCEPT !.data_signaled = FALSE, !.semaphore_signaled = FALSE]
           w == RecvData(v, 2)
           t == [w EXCEPT !.interrupt = TRUE]
<1>1. u \in DspState
  BY TRUE \in BOOLEAN, Zenon DEF DspState
<1>2. Same(s, u) /\ u.call = s.call /\ u.data_signaled = s.data_signaled /\ u.reply = s.reply /\ u.stopped = s.stopped /\ u.semaphore_signaled
  BY DEF DspState, Same
<1> HIDE DEF u
<1>3. v \in DspState
  BY <1>1, FALSE \in BOOLEAN, ZenonT(60) DEF DspState
<1>4. Same(u, v) /\ v.call = u.call /\ v.reply = u.reply /\ v.stopped = u.stopped /\ ~v.semaphore_signaled
  BY <1>1 DEF DspState, Same
<1> HIDE DEF v
<1>5. w \in DspState /\ Same(v, w) /\ w.call = v.call /\ Events(v, w)
  BY <1>3, Received
<1> HIDE DEF w
<1>6. t \in DspState
  BY <1>5, TRUE \in BOOLEAN, Zenon DEF DspState
<1>7. Same(w, t) /\ t.call = w.call /\ t.stopped = w.stopped /\ t.semaphore_signaled = w.semaphore_signaled /\ t.interrupt
  BY <1>5 DEF DspState, Same
<1>8. ProcessPipeEvent(s, FALSE) = t
  <2>1. ProcessPipeEvent(s, FALSE) = IF u.data_signaled /\ u.semaphore_signaled THEN TakeSlot(u) ELSE u
    BY DEF ProcessPipeEvent, u
  <2>2. ProcessPipeEvent(s, FALSE) = TakeSlot(u)
    BY <2>1, <1>2
  <2>3. u.reply[2].value = 4
    BY <1>2
  <2>4. 4 % 2 = 0 /\ 4 \div 2 = 2
    OBVIOUS
  <2>5. TakeSlot(u) = NotifyInterrupt(w)
    BY <2>3, <2>4 DEF TakeSlot, w, v
  <2> QED BY <2>2, <2>5 DEF NotifyInterrupt
<1> HIDE DEF t
<1>9. Same(s, t) /\ t.call = s.call
  BY <1>2, <1>4, <1>5, <1>7 DEF Same
<1> QED BY <1>2, <1>4, <1>5, <1>6, <1>7, <1>8, <1>9 DEF Events

-----------------------------------------------------------------------------
(* The steps of the service.                                               *)

\* A read begins and takes nothing yet (HandleReadPipeIfPossible).
LEMMA ReadKeeps == ASSUME DspInv, NEW n \in Lengths \cup {0}, HandleReadPipeIfPossible(n) PROVE DspInv'
<1> DEFINE call == [c |-> "read", n |-> n]
<1>1. dsp \in DspState /\ dsp' = [dsp EXCEPT !.call = call] /\ dsp.loaded
  BY DEF DspInv, DspTypeOK, HandleReadPipeIfPossible, Serving
<1>2. call \in [c : {"none", "read", "load", "unload"}, n : Nat]
  BY DspAssumption
<1> HIDE DEF call
<1>3. [dsp EXCEPT !.call = call] \in DspState
  BY <1>1, <1>2, Zenon DEF DspState
<1>4. Same(dsp, dsp') /\ Events(dsp, dsp') /\ dsp'.reply = dsp.reply
  BY <1>1 DEF DspState, Same, Events
<1>5. dsp.handlers
  BY <1>1 DEF DspInv, WordFirst
<1> QED BY <1>1, <1>3, <1>4, <1>5, QuietStep

\* The mask of the semaphore event is none of the pipes' business (SetSemaphoreMask).
LEMMA SetSemaphoreMaskKeeps == ASSUME DspInv, SetSemaphoreMask PROVE DspInv'
<1>1. dsp \in DspState /\ dsp' = [dsp EXCEPT !.mask = {"some"}, !.calls = @ + 1]
  BY DEF DspInv, DspTypeOK, SetSemaphoreMask
<1>2. dsp.calls + 1 \in Nat /\ {"some"} \in SUBSET {"bit16", "some"}
  BY <1>1 DEF DspState
<1>3. [dsp EXCEPT !.mask = {"some"}, !.calls = @ + 1] \in DspState
  BY <1>1, <1>2, Zenon DEF DspState
<1>4. Same(dsp, dsp') /\ Events(dsp, dsp') /\ dsp'.reply = dsp.reply /\ dsp'.call = dsp.call
  BY <1>1 DEF DspState, Same, Events
<1> QED BY <1>1, <1>3, <1>4, QuietStep

\* The semaphore to the signal processor is none of the pipes' business (SetSemaphore).
LEMMA SetSemaphoreKeeps == ASSUME DspInv, SetSemaphore PROVE DspInv'
<1>1. dsp \in DspState /\ dsp' = [dsp EXCEPT !.semaphore = {"some"}, !.calls = @ + 1]
  BY DEF DspInv, DspTypeOK, SetSemaphore
<1>2. dsp.calls + 1 \in Nat /\ {"some"} \in SUBSET {"bit16", "some"}
  BY <1>1 DEF DspState
<1>3. [dsp EXCEPT !.semaphore = {"some"}, !.calls = @ + 1] \in DspState
  BY <1>1, <1>2, Zenon DEF DspState
<1>4. Same(dsp, dsp') /\ Events(dsp, dsp') /\ dsp'.reply = dsp.reply /\ dsp'.call = dsp.call
  BY <1>1 DEF DspState, Same, Events
<1> QED BY <1>1, <1>3, <1>4, QuietStep

\* The semaphore event writes the mask and leaves the pipes alone (FakeDSP).
LEMMA SemaphoreEventKeeps == ASSUME DspInv, SemaphoreEvent PROVE DspInv'
<1>1. dsp \in DspState /\ dsp' = [dsp EXCEPT !.semaphore = dsp.mask, !.calls = @ + 1]
  BY DEF DspInv, DspTypeOK, SemaphoreEvent
<1>2. dsp.calls + 1 \in Nat /\ dsp.mask \in SUBSET {"bit16", "some"}
  BY <1>1 DEF DspState
<1>3. [dsp EXCEPT !.semaphore = dsp.mask, !.calls = @ + 1] \in DspState
  BY <1>1, <1>2, Zenon DEF DspState
<1>4. Same(dsp, dsp') /\ Events(dsp, dsp') /\ dsp'.reply = dsp.reply /\ dsp'.call = dsp.call
  BY <1>1 DEF DspState, Same, Events
<1> QED BY <1>1, <1>3, <1>4, QuietStep

\* A client takes a word of channel 0 only (RecvData).
LEMMA RecvDataKeeps == ASSUME DspInv, HandleRecvData PROVE DspInv'
<1>1. dsp \in DspState
  BY DEF DspInv, DspTypeOK
<1>2. CASE dsp' = Stop(dsp)
  BY <1>2, StopKeeps
<1>3. CASE dsp' = RecvData(dsp, 0)
  BY <1>1, <1>3, Received, QuietStep
<1> QED BY <1>2, <1>3 DEF HandleRecvData

\* Whoever registers, the interrupt stays signalled (RegisterInterruptEvents).
LEMMA RegisterKeeps == ASSUME DspInv, NEW register \in BOOLEAN, RegisterInterruptEvents(register) PROVE DspInv'
<1> DEFINE event == IF register THEN "clear" ELSE "none"
<1>1. dsp \in DspState /\ (dsp' = Stop(dsp) \/ dsp' = [dsp EXCEPT !.channel_event = event, !.calls = @ + 1])
  BY DEF DspInv, DspTypeOK, RegisterInterruptEvents
<1>2. dsp.calls + 1 \in Nat /\ event \in {"none", "clear", "set"}
  BY <1>1 DEF DspState
<1> HIDE DEF event
<1>3. CASE dsp' = [dsp EXCEPT !.channel_event = event, !.calls = @ + 1]
  <2>1. [dsp EXCEPT !.channel_event = event, !.calls = @ + 1] \in DspState
    BY <1>1, <1>2, Zenon DEF DspState
  <2>2. Same(dsp, dsp') /\ Events(dsp, dsp') /\ dsp'.reply = dsp.reply /\ dsp'.call = dsp.call
    BY <1>1, <1>3 DEF DspState, Same, Events
  <2> QED BY <1>3, <2>1, <2>2, QuietStep
<1> QED BY <1>1, <1>3, StopKeeps

\* A client that is woken leaves the interrupt as it is.
LEMMA ClientWakesKeeps == ASSUME DspInv, ClientWakes PROVE DspInv'
<1>1. dsp \in DspState /\ dsp' = [dsp EXCEPT !.channel_event = "clear"]
  BY DEF DspInv, DspTypeOK, ClientWakes
<1>2. [dsp EXCEPT !.channel_event = "clear"] \in DspState
  <2>1. "clear" \in {"none", "clear", "set"}
    OBVIOUS
  <2> QED BY <1>1, <2>1, Zenon DEF DspState
<1>3. Same(dsp, dsp') /\ Events(dsp, dsp') /\ dsp'.reply = dsp.reply /\ dsp'.call = dsp.call
  BY <1>1 DEF DspState, Same, Events
<1> QED BY <1>1, <1>2, <1>3, QuietStep

\* A word that is taken, and the load goes on (AwaitChannel, AwaitPipes).
LEMMA LoadGoesOn ==
    ASSUME DspInv, NEW i \in 0 .. 2, NEW k \in Nat, dsp.call.c = "load", dsp' = [RecvData(dsp, i) EXCEPT !.call.n = k]
    PROVE  DspInv'
<1> DEFINE t == RecvData(dsp, i)
           call == [t.call EXCEPT !.n = k]
<1>1. dsp \in DspState
  BY DEF DspInv, DspTypeOK
<1>2. t \in DspState /\ Same(dsp, t) /\ Events(dsp, t) /\ t.reply[2].value = dsp.reply[2].value /\ t.call = dsp.call
  BY <1>1, Received
<1> HIDE DEF t
<1>3. t.call \in [c : {"none", "read", "load", "unload"}, n : Nat]
  BY <1>2 DEF DspState
<1>4. call \in [c : {"none", "read", "load", "unload"}, n : Nat] /\ call.c = "load"
  BY <1>2, <1>3
<1>5. dsp' = [t EXCEPT !.call = call]
  BY DEF t
<1> HIDE DEF call
<1>6. [t EXCEPT !.call = call] \in DspState
  BY <1>2, <1>4, ZenonT(60) DEF DspState
<1>7. Same(t, dsp') /\ Events(t, dsp') /\ dsp'.reply = t.reply /\ dsp'.call = call
  BY <1>2, <1>5 DEF DspState, Same, Events
<1>8. Same(dsp, dsp') /\ Events(dsp, dsp')
  BY <1>2, <1>7 DEF Same, Events
<1> QED BY <1>2, <1>4, <1>5, <1>6, <1>7, <1>8, QuietStep

\* The service waits for the channels in turn (HandleLoadComponent).
LEMMA AwaitChannelKeeps == ASSUME DspInv, AwaitChannel PROVE DspInv'
<1>1. dsp.call.n \in 0 .. 2 /\ dsp.call.c = "load"
  <2>1. dsp.call \in [c : {"none", "read", "load", "unload"}, n : Nat]
    BY DEF DspInv, DspTypeOK, DspState
  <2> QED BY <2>1 DEF AwaitChannel
<1>2. CASE dsp' = Stop(dsp)
  BY <1>2, StopKeeps
<1>3. CASE dsp' = [RecvData(dsp, dsp.call.n) EXCEPT !.call.n = @ + 1]
  <2>1. dsp \in DspState
    BY DEF DspInv, DspTypeOK
  <2>2. RecvData(dsp, dsp.call.n).call = dsp.call
    BY <1>1, <2>1, Received
  <2>3. PICK i \in 0 .. 2, k \in Nat : i = dsp.call.n /\ k = dsp.call.n + 1
    BY <1>1
  <2>4. dsp' = [RecvData(dsp, i) EXCEPT !.call.n = k]
    BY <1>3, <2>2, <2>3
  <2> QED BY <1>1, <2>4, LoadGoesOn
<1> QED BY <1>2, <1>3 DEF AwaitChannel

\* The word that tells where the pipes are is taken (HandleLoadComponent).
LEMMA AwaitPipesKeeps == ASSUME DspInv, AwaitPipes PROVE DspInv'
<1>1. dsp.call.c = "load" /\ dsp' = [RecvData(dsp, 2) EXCEPT !.call.n = 4]
  BY DEF AwaitPipes
<1>2. 2 \in 0 .. 2 /\ 4 \in Nat
  OBVIOUS
<1> QED BY <1>1, <1>2, LoadGoesOn

\* The handlers are there from when a component is loaded (HandleLoadComponent).
LEMMA InstallKeeps == ASSUME DspInv, InstallHandlers PROVE DspInv'
<1>1. dsp \in DspState /\ dsp' = [dsp EXCEPT !.call = NoCall, !.handlers = TRUE, !.loaded = TRUE]
  BY DEF DspInv, DspTypeOK, InstallHandlers
<1>2. NoCall \in [c : {"none", "read", "load", "unload"}, n : Nat] /\ TRUE \in BOOLEAN
  BY DEF NoCall
<1>3. [dsp EXCEPT !.call = NoCall, !.handlers = TRUE, !.loaded = TRUE] \in DspState
  BY <1>1, <1>2, Zenon DEF DspState
<1>4. /\ dsp'.pipe = dsp.pipe /\ dsp'.memory = dsp.memory /\ dsp'.sent = dsp.sent /\ dsp'.wrong = dsp.wrong
      /\ dsp'.owed = dsp.owed /\ dsp'.reply = dsp.reply /\ dsp'.handlers /\ Events(dsp, dsp')
  BY <1>1 DEF DspState, Events
<1> QED BY <1>1, <1>3, <1>4 DEF DspInv, DspTypeOK, PipesHold, WordFirst, AnnouncementsRelayed, Events

\* The word for an unload is sent only while the handlers are there (UnloadComponent).
LEMMA UnloadKeeps == ASSUME DspInv, UnloadComponent PROVE DspInv'
<1> DEFINE call == [NoCall EXCEPT !.c = "unload"]
           word == FullWord(0)
<1>1. dsp \in DspState /\ dsp.loaded
      /\ (dsp' = Stop(dsp) \/ dsp' = [dsp EXCEPT !.mask = {"bit16"}, !.cmd = word, !.call = call, !.calls = @ + 1])
  BY DEF DspInv, DspTypeOK, UnloadComponent, Serving
<1>2. dsp.calls + 1 \in Nat
  BY <1>1 DEF DspState
<1>3. {"bit16"} \in SUBSET {"bit16", "some"} /\ word \in WordType /\ call \in [c : {"none", "read", "load", "unload"}, n : Nat]
  BY DEF NoCall, WordType, FullWord
<1> HIDE DEF call, word
<1>4. CASE dsp' = [dsp EXCEPT !.mask = {"bit16"}, !.cmd = word, !.call = call, !.calls = @ + 1]
  <2>1. [dsp EXCEPT !.mask = {"bit16"}, !.cmd = word, !.call = call, !.calls = @ + 1] \in DspState
    BY <1>1, <1>2, <1>3, Zenon DEF DspState
  <2>2. /\ dsp'.pipe = dsp.pipe /\ dsp'.memory = dsp.memory /\ dsp'.sent = dsp.sent /\ dsp'.wrong = dsp.wrong
        /\ dsp'.owed = dsp.owed /\ dsp'.reply = dsp.reply /\ dsp'.handlers = dsp.handlers /\ Events(dsp, dsp')
    BY <1>1, <1>4 DEF DspState, Events
  <2>3. dsp.handlers
    BY <1>1 DEF DspInv, WordFirst
  <2> QED BY <1>4, <2>1, <2>2, <2>3 DEF DspInv, DspTypeOK, PipesHold, WordFirst, AnnouncementsRelayed, Events
<1> QED BY <1>1, <1>4, StopKeeps

\* The end of an unload owes nothing to anybody (UnloadComponent).
LEMMA UnloadRestKeeps == ASSUME DspInv, UnloadRest PROVE DspInv'
<1> DEFINE t == RecvData(dsp, 2)
<1>1. dsp \in DspState /\ dsp' = [t EXCEPT !.call = NoCall, !.loaded = FALSE, !.owed = FALSE]
  BY DEF DspInv, DspTypeOK, UnloadRest
<1>2. t \in DspState /\ Same(dsp, t) /\ Events(dsp, t) /\ t.reply[2].value = dsp.reply[2].value /\ t.call = dsp.call
  BY <1>1, Received
<1> HIDE DEF t
<1>3. NoCall \in [c : {"none", "read", "load", "unload"}, n : Nat] /\ FALSE \in BOOLEAN
  BY DEF NoCall
<1>4. [t EXCEPT !.call = NoCall, !.loaded = FALSE, !.owed = FALSE] \in DspState
  BY <1>2, <1>3, Zenon DEF DspState
<1>5. /\ dsp'.pipe = t.pipe /\ dsp'.memory = t.memory /\ dsp'.sent = t.sent /\ dsp'.wrong = t.wrong /\ dsp'.cmd = t.cmd
      /\ dsp'.started = t.started /\ dsp'.handlers = t.handlers /\ dsp'.reply = t.reply /\ dsp'.call = NoCall
      /\ ~dsp'.loaded /\ ~dsp'.owed /\ Events(t, dsp')
  BY <1>1, <1>2 DEF DspState, Events
<1>6. NoCall.c = "none"
  BY DEF NoCall
<1> QED BY <1>1, <1>2, <1>4, <1>5, <1>6 DEF DspInv, DspTypeOK, PipesHold, WordFirst, AnnouncementsRelayed, Same, Events

\* The announcement is relayed when the interrupt is taken back.
LEMMA InterruptKeeps == ASSUME DspInv, InterruptEvent PROVE DspInv'
<1> DEFINE event == IF dsp.channel_event = "none" THEN dsp.channel_event ELSE "set"
<1>1. dsp \in DspState /\ dsp' = [dsp EXCEPT !.interrupt = FALSE, !.owed = FALSE, !.channel_event = event]
  BY DEF DspInv, DspTypeOK, InterruptEvent
<1>2. event \in {"none", "clear", "set"} /\ FALSE \in BOOLEAN
  BY <1>1 DEF DspState
<1> HIDE DEF event
<1>3. [dsp EXCEPT !.interrupt = FALSE, !.owed = FALSE, !.channel_event = event] \in DspState
  BY <1>1, <1>2, Zenon DEF DspState
<1>4. /\ dsp'.pipe = dsp.pipe /\ dsp'.memory = dsp.memory /\ dsp'.sent = dsp.sent /\ dsp'.wrong = dsp.wrong /\ dsp'.cmd = dsp.cmd
      /\ dsp'.started = dsp.started /\ dsp'.loaded = dsp.loaded /\ dsp'.handlers = dsp.handlers /\ dsp'.reply = dsp.reply
      /\ dsp'.call = dsp.call /\ dsp'.stage = dsp.stage /\ dsp'.data_signaled = dsp.data_signaled
      /\ dsp'.semaphore_signaled = dsp.semaphore_signaled /\ ~dsp'.owed
  BY <1>1 DEF DspState
<1> QED BY <1>1, <1>3, <1>4 DEF DspInv, DspTypeOK, PipesHold, WordFirst, AnnouncementsRelayed

\* The memory of a new signal processor is empty, and nothing is under way (Reset).
LEMMA LoadKeeps == ASSUME DspInv, NEW valid \in BOOLEAN, HandleLoadComponent(valid) PROVE DspInv'
<1> DEFINE call == [NoCall EXCEPT !.c = "load"]
           pipes == [x \in Side |-> SubPipeInfo(IF x = "toARM" THEN IndexToARM11(2) ELSE IndexToDSP(2))]
           memories == [x \in Side |-> [a \in 0 .. PipeSize - 1 |-> 0]]
           replies == [channel \in 0 .. 2 |-> NoWord]
           nothing == [x \in Side |-> <<>>]
           t == Reset(dsp)
           u == [dsp EXCEPT !.stage = "reset", !.handlers = FALSE, !.started = FALSE, !.loaded = FALSE, !.pipe = pipes,
                            !.memory = memories, !.cmd = NoWord, !.reply = replies, !.sent = nothing, !.owed = FALSE]
<1>1. dsp \in DspState /\ (dsp' = Stop(dsp) \/ dsp' = [t EXCEPT !.call = call, !.calls = @ + 1])
  BY DEF DspInv, DspTypeOK, HandleLoadComponent
<1>2. /\ FALSE \in BOOLEAN /\ NoWord \in WordType /\ call \in [c : {"none", "read", "load", "unload"}, n : Nat]
      /\ call.c = "load" /\ ~NoWord.full
  BY DEF NoWord, WordType, NoCall
<1>3. "reset" \in {"off", "reset", "boot1", "boot2", "boot3", "up", "data", "semaphore"}
  OBVIOUS
<1>4. pipes \in [Side -> Pipe] /\ pipes["toARM"].index = 4
  <2>1. ASSUME NEW x \in Side PROVE pipes[x] \in Pipe /\ (x = "toARM" => pipes[x].index = 4)
    <3>1. (IF x = "toARM" THEN IndexToARM11(2) ELSE IndexToDSP(2)) = IF x = "toARM" THEN 4 ELSE 5
      BY DEF IndexToARM11, IndexToDSP
    <3>2. pipes[x] = SubPipeInfo(IF x = "toARM" THEN 4 ELSE 5)
      BY <3>1
    <3>3. 0 \in 0 .. PipeSize - 1
      BY DspAssumption
    <3> HIDE DEF pipes
    <3> QED BY <3>2, <3>3 DEF SubPipeInfo, Cursor, Pipe
  <2> HIDE DEF pipes
  <2>2. pipes = [x \in Side |-> pipes[x]]
    BY DEF pipes
  <2> QED BY <2>1, <2>2 DEF Side
<1>5. memories \in [Side -> [0 .. PipeSize - 1 -> Byte]]
  BY DEF Byte
<1>6. replies \in [0 .. 2 -> WordType]
  BY <1>2
<1>7. nothing \in [Side -> Seq(SUBSET Byte)]
  OBVIOUS
<1>8. t = u
  BY DEF Reset
<1>9. \A side \in Side : Holds(pipes[side], memories[side], nothing[side])
  <2>1. ASSUME NEW side \in Side PROVE Holds(pipes[side], memories[side], nothing[side])
    <3>1. nothing[side] = <<>> /\ Len(<<>>) = 0
      OBVIOUS
    <3>2. PICK k : pipes[side] = SubPipeInfo(k)
      OBVIOUS
    <3> HIDE DEF pipes, memories, nothing
    <3>3. CursorsValid(pipes[side]) /\ CursorDistance(pipes[side]) = 0
      BY <3>2 DEF SubPipeInfo, Cursor, CursorsValid, CursorDistance, SameIteration
    <3> QED BY <3>1, <3>3 DEF Holds
  <2> QED BY <2>1
<1> HIDE DEF call, pipes, memories, replies, nothing, t
<1>10. u \in DspState
  BY <1>1, <1>2, <1>3, <1>4, <1>5, <1>6, <1>7, Zenon DEF DspState
<1>11. /\ u.stage = "reset" /\ ~u.loaded /\ ~u.started /\ u.cmd = NoWord /\ u.pipe = pipes /\ u.memory = memories /\ u.sent = nothing
       /\ ~u.owed /\ u.wrong = dsp.wrong /\ u.semaphore_signaled = dsp.semaphore_signaled /\ u.calls = dsp.calls
  BY <1>1 DEF DspState
<1> HIDE DEF u
<1>12. CASE dsp' = [t EXCEPT !.call = call, !.calls = @ + 1]
  <2>1. u.calls + 1 \in Nat
    BY <1>10 DEF DspState
  <2>2. [u EXCEPT !.call = call, !.calls = @ + 1] \in DspState
    BY <1>2, <1>10, <2>1, Zenon DEF DspState
  <2>3. /\ dsp'.stage = u.stage /\ dsp'.loaded = u.loaded /\ dsp'.started = u.started /\ dsp'.cmd = u.cmd /\ dsp'.pipe = u.pipe
        /\ dsp'.memory = u.memory /\ dsp'.sent = u.sent /\ dsp'.owed = u.owed /\ dsp'.wrong = u.wrong
        /\ dsp'.semaphore_signaled = u.semaphore_signaled /\ dsp'.call = call
    BY <1>8, <1>10, <1>12 DEF DspState
  <2>4. dsp' \in DspState
    BY <1>8, <1>12, <2>2
  <2>5. PipesHold'
    BY <1>9, <1>11, <2>3 DEF PipesHold
  <2>6. WordFirst'
    BY <1>2, <1>4, <1>11, <2>3 DEF WordFirst, DspInv
  <2> QED BY <1>11, <2>3, <2>4, <2>5, <2>6 DEF DspInv, DspTypeOK, AnnouncementsRelayed
<1> QED BY <1>1, <1>12, StopKeeps

\* The memory of one pipe, what is in it and its header change together.
LEMMA OnePipe ==
    ASSUME DspInv, NEW side \in Side, NEW p \in Pipe, NEW memory \in Memory, NEW sent \in Seq(SUBSET Byte), Holds(p, memory, sent),
           p.index = dsp.pipe[side].index,
           dsp'.pipe = [dsp.pipe EXCEPT ![side] = p], dsp'.memory = [dsp.memory EXCEPT ![side] = memory],
           dsp'.sent = [dsp.sent EXCEPT ![side] = sent]
    PROVE  PipesHold' /\ dsp'.pipe["toARM"].index = 4
<1>1. dsp.pipe \in [Side -> Pipe] /\ dsp.memory \in [Side -> [0 .. PipeSize - 1 -> Byte]] /\ dsp.sent \in [Side -> Seq(SUBSET Byte)]
  BY DEF DspInv, DspTypeOK, DspState
<1>2. dsp.pipe["toARM"].index = 4 /\ PipesHold
  BY DEF DspInv, WordFirst
<1>3. ASSUME NEW x \in Side PROVE Holds(dsp'.pipe[x], dsp'.memory[x], dsp'.sent[x])
  <2>1. CASE x = side
    BY <1>1, <2>1
  <2>2. CASE x # side
    BY <1>1, <1>2, <2>2 DEF PipesHold
  <2> QED BY <2>1, <2>2
<1>4. dsp'.pipe["toARM"].index = 4
  <2>1. "toARM" \in Side
    BY DEF Side
  <2> QED BY <1>1, <1>2, <2>1
<1> QED BY <1>3, <1>4 DEF PipesHold

\* The bytes of a turn, and what a reader may see of them (NextBytes).
LEMMA NextBytesRight ==
    ASSUME NEW count \in Nat, NEW n \in Nat, NEW extra \in SUBSET Byte, NEW replace \in BOOLEAN, replace /\ n >= 4 => 0 \in extra
    PROVE  LET bytes == NextBytes(count, n)
               may == [i \in 1 .. n |-> {bytes[i]} \cup extra]
           IN  bytes \in Seq(Byte) /\ may \in Seq(SUBSET Byte) /\ Allowed(bytes, may, replace)
<1> DEFINE bytes == NextBytes(count, n)
           may == [i \in 1 .. n |-> {bytes[i]} \cup extra]
<1>1. ASSUME NEW i \in 1 .. n PROVE 1 + ((count + i) % 3) \in Byte
  BY DEF Byte
<1>2. bytes \in [1 .. n -> Byte]
  BY <1>1 DEF NextBytes
<1> HIDE DEF bytes
<1>3. may \in [1 .. n -> SUBSET Byte] /\ \A i \in 1 .. n : bytes[i] \in may[i] /\ extra \subseteq may[i]
  BY <1>2
<1> HIDE DEF may
<1>4. bytes \in Seq(Byte) /\ Len(bytes) = n /\ may \in Seq(SUBSET Byte) /\ Len(may) = n
  BY <1>2, <1>3
<1>5. Allowed(bytes, may, replace)
  BY <1>3, <1>4 DEF Allowed
<1> QED BY <1>4, <1>5 DEF bytes, may

\* A client's bytes are under way behind what was, or the service stops (HandleWriteProcessPipe).
LEMMA WriteKeeps == ASSUME DspInv, NEW n \in Lengths, HandleWriteProcessPipe(n) PROVE DspInv'
<1> DEFINE bytes == NextBytes(dsp.sentBytes["toDSP"], n)
           done == WriteChunks(dsp.pipe["toDSP"], dsp.memory["toDSP"], bytes, TRUE)
           extra == IF n >= 4 THEN {0} ELSE {}
           may == [i \in 1 .. n |-> {bytes[i]} \cup extra]
           memories == [dsp.memory EXCEPT !["toDSP"] = done.memory]
           counts == [dsp.sentBytes EXCEPT !["toDSP"] = @ + n]
           sents == [dsp.sent EXCEPT !["toDSP"] = @ \o may]
           pipes == [dsp.pipe EXCEPT !["toDSP"] = done.p]
           word == FullWord(done.p.index)
           t == [dsp EXCEPT !.memory = memories, !.sentBytes = counts, !.sent = sents, !.pipe = pipes, !.cmd = word]
<1>1. dsp \in DspState /\ dsp.loaded
  BY DEF DspInv, DspTypeOK, HandleWriteProcessPipe, Serving
<1>2. /\ dsp.pipe \in [Side -> Pipe] /\ dsp.memory \in [Side -> Memory] /\ dsp.sent \in [Side -> Seq(SUBSET Byte)]
      /\ dsp.sentBytes \in [Side -> Nat] /\ "toDSP" \in Side /\ n \in Nat
  BY <1>1, DspAssumption DEF DspState, Memory, Side
<1>3. dsp' = IF done.ok THEN t ELSE Stop(dsp)
  <2>1. HandleWriteProcessPipe(n) = (/\ Serving /\ dsp.sentBytes["toARM"] + dsp.sentBytes["toDSP"] + n <= MaxBytes
          /\ dsp' = IF done.ok
                    THEN StoreHeader([dsp EXCEPT !.memory["toDSP"] = done.memory, !.sentBytes["toDSP"] = @ + n, !.sent["toDSP"] = @ \o may],
                                     "toDSP", done.p)
                    ELSE Stop(dsp))
    BY DEF HandleWriteProcessPipe, Load
  <2>2. StoreHeader([dsp EXCEPT !.memory["toDSP"] = done.memory, !.sentBytes["toDSP"] = @ + n, !.sent["toDSP"] = @ \o may],
                    "toDSP", done.p) = t
    <3> HIDE DEF done, may
    <3> QED BY <1>1 DEF StoreHeader, DspState
  <2> QED BY <2>1, <2>2
<1>4. CASE done.ok
  <2>1. bytes \in Seq(Byte) /\ may \in Seq(SUBSET Byte) /\ Allowed(bytes, may, TRUE)
    <3>1. extra \in SUBSET Byte /\ (TRUE /\ n >= 4 => 0 \in extra)
      BY DEF Byte
    <3> HIDE DEF extra
    <3> QED BY <1>2, <3>1, NextBytesRight
  <2> HIDE DEF bytes, may
  <2>2. Holds(dsp.pipe["toDSP"], dsp.memory["toDSP"], dsp.sent["toDSP"])
    BY <1>2 DEF DspInv, PipesHold
  <2>3. /\ done.p \in Pipe /\ done.p.index = dsp.pipe["toDSP"].index /\ done.memory \in Memory
        /\ Holds(done.p, done.memory, dsp.sent["toDSP"] \o may)
    BY <1>2, <1>4, <2>1, <2>2, WriteChunksKeep
  <2> HIDE DEF done
  <2>4. dsp.sent["toDSP"] \o may \in Seq(SUBSET Byte)
    BY <1>2, <2>1
  <2>5. word \in WordType
    BY <2>3 DEF FullWord, WordType, Pipe
  <2>6. memories \in [Side -> [0 .. PipeSize - 1 -> Byte]] /\ counts \in [Side -> Nat] /\ sents \in [Side -> Seq(SUBSET Byte)] /\ pipes \in [Side -> Pipe]
    BY <1>2, <2>3, <2>4 DEF Memory
  <2>7. sents = [dsp.sent EXCEPT !["toDSP"] = dsp.sent["toDSP"] \o may]
    OBVIOUS
  <2> HIDE DEF memories, counts, sents, pipes, word
  <2>8. t \in DspState
    BY <1>1, <2>5, <2>6, Zenon DEF DspState
  <2>9. dsp' = t
    BY <1>3, <1>4
  <2>10. /\ dsp'.memory = memories /\ dsp'.sent = sents /\ dsp'.pipe = pipes /\ dsp'.wrong = dsp.wrong /\ dsp'.owed = dsp.owed
         /\ dsp'.handlers = dsp.handlers /\ dsp'.reply = dsp.reply /\ Events(dsp, dsp')
    BY <1>1, <2>9 DEF DspState, Events
  <2>11. PipesHold' /\ dsp'.pipe["toARM"].index = 4
    <3>1. PICK p \in Pipe, m \in Memory, x \in Seq(SUBSET Byte) : p = done.p /\ m = done.memory /\ x = dsp.sent["toDSP"] \o may
      BY <2>3, <2>4
    <3>2. "toDSP" \in Side /\ Holds(p, m, x) /\ p.index = dsp.pipe["toDSP"].index
      BY <1>2, <2>3, <3>1
    <3>3. /\ dsp'.pipe = [dsp.pipe EXCEPT !["toDSP"] = p] /\ dsp'.memory = [dsp.memory EXCEPT !["toDSP"] = m]
          /\ dsp'.sent = [dsp.sent EXCEPT !["toDSP"] = x]
      BY <2>7, <2>10, <3>1 DEF memories, pipes
    <3> QED BY <3>2, <3>3, OnePipe
  <2>12. dsp.handlers
    BY <1>1 DEF DspInv, WordFirst
  <2>13. dsp' \in DspState
    BY <2>8, <2>9
  <2> QED BY <2>10, <2>11, <2>12, <2>13 DEF DspInv, DspTypeOK, WordFirst, AnnouncementsRelayed, Events
<1>5. CASE ~done.ok
  BY <1>3, <1>5, StopKeeps
<1> QED BY <1>4, <1>5

\* The signal processor's bytes are under way behind what was.
LEMMA DspWritesKeeps == ASSUME DspInv, DspWrites PROVE DspInv'
<1> DEFINE Bytes(n) == NextBytes(dsp.sentBytes["toARM"], n)
           Done(n) == WriteChunks(dsp.pipe["toARM"], dsp.memory["toARM"], Bytes(n), FALSE)
<1>1. PICK n \in Lengths :
        /\ Done(n).ok
        /\ dsp' = [dsp EXCEPT !.pipe["toARM"] = Done(n).p, !.memory["toARM"] = Done(n).memory, !.sentBytes["toARM"] = @ + n,
                              !.sent["toARM"] = @ \o [i \in 1 .. n |-> {Bytes(n)[i]}], !.stage = "data"]
  BY DEF DspWrites
<1> DEFINE bytes == Bytes(n)
           done == Done(n)
           extra == {}
           may == [i \in 1 .. n |-> {bytes[i]} \cup extra]
           memories == [dsp.memory EXCEPT !["toARM"] = done.memory]
           counts == [dsp.sentBytes EXCEPT !["toARM"] = @ + n]
           sents == [dsp.sent EXCEPT !["toARM"] = @ \o may]
           pipes == [dsp.pipe EXCEPT !["toARM"] = done.p]
           t == [dsp EXCEPT !.pipe = pipes, !.memory = memories, !.sentBytes = counts, !.sent = sents, !.stage = "data"]
<1>2. dsp \in DspState /\ dsp.started
  BY DEF DspInv, DspTypeOK, DspWrites
<1>3. /\ dsp.pipe \in [Side -> Pipe] /\ dsp.memory \in [Side -> Memory] /\ dsp.sent \in [Side -> Seq(SUBSET Byte)]
      /\ dsp.sentBytes \in [Side -> Nat] /\ "toARM" \in Side /\ n \in Nat
  BY <1>2, DspAssumption DEF DspState, Memory, Side
<1>4. dsp' = t /\ done.ok
  <2>1. may = [i \in 1 .. n |-> {bytes[i]}]
    OBVIOUS
  <2>2. dsp' = [dsp EXCEPT !.pipe["toARM"] = done.p, !.memory["toARM"] = done.memory, !.sentBytes["toARM"] = @ + n,
                           !.sent["toARM"] = @ \o may, !.stage = "data"]
    BY <1>1, <2>1
  <2> HIDE DEF done, may
  <2> QED BY <2>2, <1>1, <1>2 DEF DspState, done
<1>5. bytes \in Seq(Byte) /\ may \in Seq(SUBSET Byte) /\ Allowed(bytes, may, FALSE)
  <2>1. extra \in SUBSET Byte
    OBVIOUS
  <2>2. FALSE \in BOOLEAN
    OBVIOUS
  <2> HIDE DEF extra
  <2> QED BY <1>3, <2>1, <2>2, NextBytesRight
<1> HIDE DEF bytes, may
<1>6. Holds(dsp.pipe["toARM"], dsp.memory["toARM"], dsp.sent["toARM"])
  BY <1>3 DEF DspInv, PipesHold
<1>7. done = WriteChunks(dsp.pipe["toARM"], dsp.memory["toARM"], bytes, FALSE)
  BY DEF bytes
<1> HIDE DEF done
<1>8. /\ done.p \in Pipe /\ done.p.index = dsp.pipe["toARM"].index /\ done.memory \in Memory
      /\ Holds(done.p, done.memory, dsp.sent["toARM"] \o may)
  BY <1>3, <1>4, <1>5, <1>6, <1>7, WriteChunksKeep, ZenonT(60)
<1>9. dsp.sent["toARM"] \o may \in Seq(SUBSET Byte)
  BY <1>3, <1>5
<1>10. memories \in [Side -> [0 .. PipeSize - 1 -> Byte]] /\ counts \in [Side -> Nat] /\ sents \in [Side -> Seq(SUBSET Byte)] /\ pipes \in [Side -> Pipe]
  BY <1>3, <1>8, <1>9 DEF Memory
<1>11. sents = [dsp.sent EXCEPT !["toARM"] = dsp.sent["toARM"] \o may]
  OBVIOUS
<1>12. "data" \in {"off", "reset", "boot1", "boot2", "boot3", "up", "data", "semaphore"}
  OBVIOUS
<1> HIDE DEF memories, counts, sents, pipes
<1>13. t \in DspState
  BY <1>2, <1>10, <1>12, Zenon DEF DspState
<1>14. /\ dsp'.memory = memories /\ dsp'.sent = sents /\ dsp'.pipe = pipes /\ dsp'.wrong = dsp.wrong /\ dsp'.owed = dsp.owed
       /\ dsp'.handlers = dsp.handlers /\ dsp'.reply = dsp.reply /\ dsp'.stage = "data"
       /\ dsp'.semaphore_signaled = dsp.semaphore_signaled /\ dsp'.interrupt = dsp.interrupt /\ dsp'.stopped = dsp.stopped
  BY <1>2, <1>4 DEF DspState
<1>15. PipesHold' /\ dsp'.pipe["toARM"].index = 4
  <2>1. PICK p \in Pipe, m \in Memory, x \in Seq(SUBSET Byte) : p = done.p /\ m = done.memory /\ x = dsp.sent["toARM"] \o may
    BY <1>8, <1>9
  <2>2. "toARM" \in Side /\ Holds(p, m, x) /\ p.index = dsp.pipe["toARM"].index
    BY <1>3, <1>8, <2>1
  <2>3. /\ dsp'.pipe = [dsp.pipe EXCEPT !["toARM"] = p] /\ dsp'.memory = [dsp.memory EXCEPT !["toARM"] = m]
        /\ dsp'.sent = [dsp.sent EXCEPT !["toARM"] = x]
    BY <1>11, <1>14, <2>1 DEF memories, pipes
  <2> QED BY <2>2, <2>3, OnePipe
<1>16. dsp.handlers
  BY <1>2 DEF DspInv, WordFirst
<1>17. dsp' \in DspState
  BY <1>4, <1>13
<1> QED BY <1>14, <1>15, <1>16, <1>17 DEF DspInv, DspTypeOK, WordFirst, AnnouncementsRelayed

\* A read returns the first of what is under way, and the header that is stored has its rest (HandleReadPipeIfPossible).
LEMMA ReadRestKeeps == ASSUME DspInv, ReadPipeRest PROVE DspInv'
<1> DEFINE n == dsp.call.n
           p == dsp.pipe["toARM"]
           sent == dsp.sent["toARM"]
           done == ReadChunks(p, dsp.memory["toARM"], n)
           bad == ~Fits(done.got, SubSeq(sent, 1, n))
           sents == [dsp.sent EXCEPT !["toARM"] = SubSeq(@, n + 1, Len(@))]
           pipes == [dsp.pipe EXCEPT !["toARM"] = done.p]
           word == FullWord(done.p.index)
           read == [dsp EXCEPT !.call = NoCall, !.wrong = bad, !.sent = sents]
           t == [read EXCEPT !.pipe = pipes, !.cmd = word]
<1>1. dsp \in DspState /\ dsp.call.c = "read" /\ CursorDistance(p) >= n
  BY DEF DspInv, DspTypeOK, ReadPipeRest, Load
<1>2. /\ dsp.pipe \in [Side -> Pipe] /\ dsp.memory \in [Side -> Memory] /\ dsp.sent \in [Side -> Seq(SUBSET Byte)]
      /\ "toARM" \in Side /\ n \in Nat
  BY <1>1 DEF DspState, Memory, Side
<1>3. dsp' = IF n > 0 THEN t ELSE read
  <2>1. ReadPipeRest => dsp' = IF n > 0 THEN StoreHeader([dsp EXCEPT !.call = NoCall, !.wrong = bad, !.sent["toARM"] = SubSeq(@, n + 1, Len(@))],
                                                         "toARM", done.p)
                               ELSE [dsp EXCEPT !.call = NoCall, !.wrong = bad, !.sent["toARM"] = SubSeq(@, n + 1, Len(@))]
    BY DEF ReadPipeRest, Load
  <2>2. [dsp EXCEPT !.call = NoCall, !.wrong = bad, !.sent["toARM"] = SubSeq(@, n + 1, Len(@))] = read
    OBVIOUS
  <2>3. StoreHeader(read, "toARM", done.p) = t
    <3> HIDE DEF done, bad, sents
    <3> QED BY <1>1 DEF StoreHeader, DspState
  <2> HIDE DEF done, bad, sents, read, t
  <2> QED BY <2>1, <2>2, <2>3
<1>4. Holds(p, dsp.memory["toARM"], sent)
  BY <1>2 DEF DspInv, PipesHold
<1>5. /\ Fits(done.got, SubSeq(sent, 1, n))
      /\ done.p \in Pipe /\ done.p.index = p.index /\ Holds(done.p, dsp.memory["toARM"], SubSeq(sent, n + 1, Len(sent)))
  <2>1. PICK q \in Pipe, m \in Memory, x \in Seq(SUBSET Byte), k \in Nat : q = p /\ m = dsp.memory["toARM"] /\ x = sent /\ k = n
    BY <1>2
  <2>2. Holds(q, m, x) /\ k <= CursorDistance(q)
    <3>1. CursorDistance(q) \in Nat
      <4>1. CursorsValid(q)
        BY <1>4, <2>1 DEF Holds
      <4> QED BY <4>1, DistanceInRange, DspAssumption
    <3> HIDE DEF p, sent, n
    <3> QED BY <1>1, <1>4, <2>1, <3>1
  <2>3. LET y == ReadChunks(q, m, k)
        IN  Fits(y.got, SubSeq(x, 1, k)) /\ y.p \in Pipe /\ y.p.index = q.index /\ Holds(y.p, m, SubSeq(x, k + 1, Len(x)))
    BY <2>2, ReadChunksRight
  <2> QED BY <2>1, <2>3
<1>6. ~bad
  BY <1>5
<1>7. SubSeq(sent, n + 1, Len(sent)) \in Seq(SUBSET Byte)
  BY <1>2
<1>8. sents = [dsp.sent EXCEPT !["toARM"] = SubSeq(sent, n + 1, Len(sent))]
  OBVIOUS
<1>9. word \in WordType /\ bad \in BOOLEAN /\ NoCall \in [c : {"none", "read", "load", "unload"}, n : Nat]
  <2>1. word \in WordType
    <3> HIDE DEF done
    <3> QED BY <1>5 DEF FullWord, WordType, Pipe
  <2>2. NoCall \in [c : {"none", "read", "load", "unload"}, n : Nat]
    BY DEF NoCall
  <2>3. bad = FALSE
    BY <1>6
  <2> HIDE DEF bad, word
  <2> QED BY <2>1, <2>2, <2>3
<1>10. dsp.handlers
  BY <1>1 DEF DspInv, WordFirst
<1> HIDE DEF done, bad, word
<1>11. pipes \in [Side -> Pipe] /\ sents \in [Side -> Seq(SUBSET Byte)]
  <2>1. pipes \in [Side -> Pipe]
    BY <1>2, <1>5
  <2>2. sents \in [Side -> Seq(SUBSET Byte)]
    BY <1>2, <1>7, <1>8
  <2> QED BY <2>1, <2>2
<1> HIDE DEF pipes, sents
<1>12. read \in DspState
  BY <1>1, <1>9, <1>11, Zenon DEF DspState
<1>13. /\ read.memory = dsp.memory /\ read.sent = sents /\ read.pipe = dsp.pipe /\ read.wrong = bad /\ read.owed = dsp.owed
       /\ read.handlers = dsp.handlers /\ read.reply = dsp.reply /\ read.call = NoCall /\ Events(dsp, read)
  BY <1>1 DEF DspState, Events
<1> HIDE DEF read
<1>14. CASE n > 0
  <2>1. t \in DspState
    BY <1>9, <1>11, <1>12, Zenon DEF DspState
  <2>2. dsp' = t
    BY <1>3, <1>14
  <2>3. /\ dsp'.memory = read.memory /\ dsp'.sent = read.sent /\ dsp'.pipe = pipes /\ dsp'.wrong = read.wrong /\ dsp'.owed = read.owed
        /\ dsp'.handlers = read.handlers /\ dsp'.reply = read.reply /\ dsp'.call = read.call /\ Events(read, dsp')
    BY <1>12, <2>2 DEF DspState, Events
  <2>4. PipesHold' /\ dsp'.pipe["toARM"].index = 4
    <3>1. PICK q \in Pipe, m \in Memory, x \in Seq(SUBSET Byte) : q = done.p /\ m = dsp.memory["toARM"] /\ x = SubSeq(sent, n + 1, Len(sent))
      BY <1>2, <1>5, <1>7
    <3>2. "toARM" \in Side /\ Holds(q, m, x) /\ q.index = dsp.pipe["toARM"].index
      BY <1>2, <1>5, <3>1
    <3>3. dsp'.pipe = [dsp.pipe EXCEPT !["toARM"] = q] /\ dsp'.sent = [dsp.sent EXCEPT !["toARM"] = x]
      BY <1>8, <1>13, <2>3, <3>1 DEF pipes
    <3>4. dsp'.memory = [dsp.memory EXCEPT !["toARM"] = m]
      BY <1>2, <1>13, <2>3, <3>1
    <3> QED BY <3>2, <3>3, <3>4, OnePipe
  <2>5. dsp' \in DspState
    BY <2>1, <2>2
  <2> QED BY <1>6, <1>10, <1>13, <2>3, <2>4, <2>5 DEF DspInv, DspTypeOK, WordFirst, AnnouncementsRelayed, Events
<1>15. CASE ~(n > 0)
  <2>1. dsp' = read
    BY <1>3, <1>15
  <2>2. n = 0
    BY <1>2, <1>15
  <2>3. SubSeq(sent, n + 1, Len(sent)) = sent
    BY <1>2, <2>2, SubSeqFull
  <2>4. sents = dsp.sent
    BY <1>2, <1>8, <2>3
  <2>5. PipesHold'
    BY <1>13, <2>1, <2>4 DEF PipesHold, DspInv
  <2> QED BY <1>6, <1>10, <1>12, <1>13, <2>1, <2>5 DEF DspInv, DspTypeOK, WordFirst, AnnouncementsRelayed, Events
<1> QED BY <1>14, <1>15

-----------------------------------------------------------------------------
(* The steps of the signal processor.                                      *)

\* A word of the signal processor's at one of its stages (Send).
LEMMA WordKeeps ==
    ASSUME DspInv, NEW i \in 0 .. 2, NEW value \in Nat,
           NEW stage \in {"off", "reset", "boot1", "boot2", "boot3", "up", "data", "semaphore"}, stage # "data",
           stage = "semaphore" => dsp.stage = "data" /\ i = 2 /\ value = 4,
           dsp' = [Send(dsp, i, value) EXCEPT !.stage = stage]
    PROVE  DspInv'
<1> DEFINE t == Send(dsp, i, value)
<1>1. dsp \in DspState /\ ~dsp.semaphore_signaled
  BY DEF DspInv, DspTypeOK, WordFirst
<1>2. /\ t \in DspState /\ Same(dsp, t) /\ t.call = dsp.call /\ ~t.semaphore_signaled
      /\ t.stage = dsp.stage /\ t.interrupt = dsp.interrupt /\ t.stopped = dsp.stopped
      /\ i = 2 => t.reply[2].value = value /\ (dsp.handlers => t.data_signaled)
  BY <1>1, Sent
<1> HIDE DEF t
<1>3. [t EXCEPT !.stage = stage] \in DspState
  BY <1>2, Zenon DEF DspState
<1>4. /\ dsp'.stage = stage /\ Same(t, dsp') /\ dsp'.call = t.call /\ dsp'.semaphore_signaled = t.semaphore_signaled
      /\ dsp'.data_signaled = t.data_signaled /\ dsp'.interrupt = t.interrupt /\ dsp'.stopped = t.stopped /\ dsp'.reply = t.reply
  BY <1>2 DEF DspState, Same, t
<1>5. dsp' \in DspState
  BY <1>3 DEF t
<1>6. Same(dsp, dsp')
  BY <1>2, <1>4 DEF Same
<1>7. PipesHold'
  BY <1>6 DEF PipesHold, DspInv, Same
<1>8. stage = "semaphore" => dsp'.data_signaled /\ dsp'.reply[2].value = 4
  BY <1>2, <1>4 DEF DspInv, WordFirst
<1>9. WordFirst'
  BY <1>2, <1>4, <1>6, <1>8 DEF WordFirst, DspInv, Same
<1> QED BY <1>2, <1>4, <1>5, <1>6, <1>7, <1>9 DEF DspInv, DspTypeOK, AnnouncementsRelayed, Same

\* The words of a boot are not announcements.
LEMMA BootsKeep == ASSUME DspInv, DspBoots PROVE DspInv'
<1>1. CASE dsp' = [Send(dsp, 0, 1) EXCEPT !.stage = "boot1"]
  <2>1. PICK i \in 0 .. 2, value \in Nat, stage \in {"off", "reset", "boot1", "boot2", "boot3", "up", "data", "semaphore"} :
          i = 0 /\ value = 1 /\ stage = "boot1"
    OBVIOUS
  <2>2. stage # "data" /\ stage # "semaphore"
    BY <2>1
  <2>3. dsp' = [Send(dsp, i, value) EXCEPT !.stage = stage]
    BY <1>1, <2>1
  <2> QED BY <2>2, <2>3, WordKeeps
<1>2. CASE dsp' = [Send(dsp, 1, 1) EXCEPT !.stage = "boot2"]
  <2>1. PICK i \in 0 .. 2, value \in Nat, stage \in {"off", "reset", "boot1", "boot2", "boot3", "up", "data", "semaphore"} :
          i = 1 /\ value = 1 /\ stage = "boot2"
    OBVIOUS
  <2>2. stage # "data" /\ stage # "semaphore"
    BY <2>1
  <2>3. dsp' = [Send(dsp, i, value) EXCEPT !.stage = stage]
    BY <1>2, <2>1
  <2> QED BY <2>2, <2>3, WordKeeps
<1>3. CASE dsp' = [Send(dsp, 2, 1) EXCEPT !.stage = "boot3"]
  <2>1. PICK i \in 0 .. 2, value \in Nat, stage \in {"off", "reset", "boot1", "boot2", "boot3", "up", "data", "semaphore"} :
          i = 2 /\ value = 1 /\ stage = "boot3"
    OBVIOUS
  <2>2. stage # "data" /\ stage # "semaphore"
    BY <2>1
  <2>3. dsp' = [Send(dsp, i, value) EXCEPT !.stage = stage]
    BY <1>3, <2>1
  <2> QED BY <2>2, <2>3, WordKeeps
<1>4. CASE dsp' = [Send(dsp, 2, 6) EXCEPT !.stage = "up"]
  <2>1. PICK i \in 0 .. 2, value \in Nat, stage \in {"off", "reset", "boot1", "boot2", "boot3", "up", "data", "semaphore"} :
          i = 2 /\ value = 6 /\ stage = "up"
    OBVIOUS
  <2>2. stage # "data" /\ stage # "semaphore"
    BY <2>1
  <2>3. dsp' = [Send(dsp, i, value) EXCEPT !.stage = stage]
    BY <1>4, <2>1
  <2> QED BY <2>2, <2>3, WordKeeps
<1> QED BY <1>1, <1>2, <1>3, <1>4 DEF DspBoots

\* The word of an announcement comes first, and its semaphore raises the interrupt (ProcessPipeEventHandler).
LEMMA AnnouncesKeep == ASSUME DspInv, DspAnnounces PROVE DspInv'
<1>1. CASE dsp.stage = "data" /\ dsp' = [Send(dsp, 2, dsp.pipe["toARM"].index) EXCEPT !.stage = "semaphore"]
  <2>1. dsp.pipe["toARM"].index = 4
    BY DEF DspInv, WordFirst
  <2>2. PICK i \in 0 .. 2, value \in Nat, stage \in {"off", "reset", "boot1", "boot2", "boot3", "up", "data", "semaphore"} :
          i = 2 /\ value = 4 /\ stage = "semaphore"
    OBVIOUS
  <2>3. stage # "data" /\ (stage = "semaphore" => dsp.stage = "data" /\ i = 2 /\ value = 4)
    BY <1>1, <2>2
  <2>4. dsp' = [Send(dsp, i, value) EXCEPT !.stage = stage]
    BY <1>1, <2>1, <2>2
  <2> QED BY <2>3, <2>4, WordKeeps
<1>2. CASE dsp.stage = "semaphore" /\ dsp' = [ProcessPipeEvent(dsp, FALSE) EXCEPT !.stage = "up", !.owed = dsp.loaded]
  <2> DEFINE t == ProcessPipeEvent(dsp, FALSE)
             owed == dsp.loaded
  <2>1. dsp \in DspState /\ dsp.handlers /\ dsp.data_signaled /\ dsp.reply[2].value = 4
    BY <1>2 DEF DspInv, DspTypeOK, WordFirst
  <2>2. t \in DspState /\ Same(dsp, t) /\ t.call = dsp.call /\ ~t.semaphore_signaled /\ t.interrupt /\ t.stopped = dsp.stopped
    BY <2>1, Announced
  <2> HIDE DEF t
  <2>3. owed \in BOOLEAN /\ "up" \in {"off", "reset", "boot1", "boot2", "boot3", "up", "data", "semaphore"}
    BY <2>1 DEF DspState
  <2> HIDE DEF owed
  <2>4. [t EXCEPT !.stage = "up", !.owed = owed] \in DspState
    BY <2>2, <2>3, Zenon DEF DspState
  <2>5. dsp' = [t EXCEPT !.stage = "up", !.owed = owed]
    BY <1>2 DEF t, owed
  <2>6. /\ dsp'.pipe = t.pipe /\ dsp'.memory = t.memory /\ dsp'.sent = t.sent /\ dsp'.wrong = t.wrong /\ dsp'.handlers = t.handlers
        /\ dsp'.stage = "up" /\ dsp'.semaphore_signaled = t.semaphore_signaled /\ dsp'.interrupt = t.interrupt
    BY <2>2, <2>5 DEF DspState
  <2>7. dsp' \in DspState
    BY <2>4, <2>5
  <2>8. PipesHold'
    BY <2>2, <2>6 DEF PipesHold, DspInv, Same
  <2>9. WordFirst'
    BY <2>1, <2>2, <2>6 DEF WordFirst, DspInv, Same
  <2> QED BY <2>2, <2>6, <2>7, <2>8, <2>9 DEF DspInv, DspTypeOK, AnnouncementsRelayed, Same
<1> QED BY <1>1, <1>2 DEF DspAnnounces

\* The whole of what is under way can be read, and nothing remains (ReadChunks).
LEMMA ReadsAll ==
    ASSUME NEW p \in Pipe, NEW memory \in Memory, NEW sent \in Seq(SUBSET Byte), Holds(p, memory, sent)
    PROVE  LET done == ReadChunks(p, memory, CursorDistance(p))
           IN  Fits(done.got, sent) /\ done.p \in Pipe /\ done.p.index = p.index /\ Holds(done.p, memory, <<>>)
<1> DEFINE n == CursorDistance(p)
<1>1. n = Len(sent) /\ n \in Nat
  BY LenProperties DEF Holds
<1>2. SubSeq(sent, 1, n) = sent
  BY <1>1, SubSeqFull
<1>3. SubSeq(sent, n + 1, Len(sent)) = <<>>
  <2>1. SubSeq(sent, n + 1, Len(sent)) \in Seq(SUBSET Byte) /\ Len(SubSeq(sent, n + 1, Len(sent))) = 0
    <3>1. n \in 0 .. Len(sent)
      BY <1>1
    <3>2. Len(sent) - n = 0
      BY <1>1
    <3> HIDE DEF n
    <3> QED BY <3>1, <3>2, SplitAt
  <2> HIDE DEF n
  <2> QED BY <2>1, EmptySeq
<1>4. LET done == ReadChunks(p, memory, n)
      IN  /\ Fits(done.got, SubSeq(sent, 1, n))
          /\ done.p \in Pipe /\ done.p.index = p.index /\ Holds(done.p, memory, SubSeq(sent, n + 1, Len(sent)))
  <2>1. PICK k \in Nat : k = n
    BY <1>1
  <2>2. k <= CursorDistance(p)
    BY <2>1
  <2> HIDE DEF n
  <2>3. LET done == ReadChunks(p, memory, k)
        IN  /\ Fits(done.got, SubSeq(sent, 1, k))
            /\ done.p \in Pipe /\ done.p.index = p.index /\ Holds(done.p, memory, SubSeq(sent, k + 1, Len(sent)))
    BY <2>2, ReadChunksRight
  <2> QED BY <2>1, <2>3
<1> HIDE DEF n
<1>5. LET done == ReadChunks(p, memory, n)
      IN  Fits(done.got, sent) /\ done.p \in Pipe /\ done.p.index = p.index /\ Holds(done.p, memory, <<>>)
  BY <1>2, <1>3, <1>4
<1> QED BY <1>5 DEF n

\* The signal processor reads all that is under way when a word arrives.
LEMMA TakesKeep == ASSUME DspInv, DspTakes PROVE DspInv'
<1>1. dsp \in DspState /\ dsp.stage = "up" /\ dsp.handlers /\ ~dsp.semaphore_signaled
  BY DEF DspInv, DspTypeOK, DspTakes, WordFirst
<1>2. NoWord \in WordType /\ ~NoWord.full /\ TRUE \in BOOLEAN /\ FALSE \in BOOLEAN
  BY DEF NoWord, WordType
<1> DEFINE p == dsp.pipe["toDSP"]
           n == CursorDistance(p)
           done == ReadChunks(p, dsp.memory["toDSP"], n)
           bad == ~Fits(done.got, dsp.sent["toDSP"])
<1>3. CASE dsp' = [Send(dsp, 2, 0) EXCEPT !.cmd = NoWord, !.stage = "off"]
  <2> DEFINE t == Send(dsp, 2, 0)
  <2>1. PICK i \in 0 .. 2, value \in Nat : i = 2 /\ value = 0
    OBVIOUS
  <2>2. t \in DspState /\ Same(dsp, t) /\ t.call = dsp.call /\ ~t.semaphore_signaled /\ t.interrupt = dsp.interrupt /\ t.stopped = dsp.stopped
    BY <1>1, <2>1, Sent
  <2> HIDE DEF t
  <2>3. "off" \in {"off", "reset", "boot1", "boot2", "boot3", "up", "data", "semaphore"}
    OBVIOUS
  <2>4. [t EXCEPT !.cmd = NoWord, !.stage = "off"] \in DspState
    BY <1>2, <2>2, <2>3, Zenon DEF DspState
  <2>5. dsp' = [t EXCEPT !.cmd = NoWord, !.stage = "off"]
    BY <1>3 DEF t
  <2>6. /\ dsp'.pipe = t.pipe /\ dsp'.memory = t.memory /\ dsp'.sent = t.sent /\ dsp'.wrong = t.wrong /\ dsp'.handlers = t.handlers
        /\ dsp'.stage = "off" /\ dsp'.semaphore_signaled = t.semaphore_signaled /\ dsp'.interrupt = t.interrupt
        /\ dsp'.stopped = t.stopped /\ dsp'.owed = t.owed
    BY <2>2, <2>5 DEF DspState
  <2>7. dsp' \in DspState
    BY <2>4, <2>5
  <2>8. PipesHold'
    BY <2>2, <2>6 DEF PipesHold, DspInv, Same
  <2>9. WordFirst'
    BY <1>1, <2>2, <2>6 DEF WordFirst, DspInv, Same
  <2> QED BY <2>2, <2>6, <2>7, <2>8, <2>9 DEF DspInv, DspTypeOK, AnnouncementsRelayed, Same
<1>4. CASE dsp' = [dsp EXCEPT !.cmd = NoWord, !.started = TRUE]
  <2>1. [dsp EXCEPT !.cmd = NoWord, !.started = TRUE] \in DspState
    BY <1>1, <1>2, Zenon DEF DspState
  <2>2. /\ dsp'.pipe = dsp.pipe /\ dsp'.memory = dsp.memory /\ dsp'.sent = dsp.sent /\ dsp'.wrong = dsp.wrong
        /\ dsp'.owed = dsp.owed /\ dsp'.reply = dsp.reply /\ dsp'.handlers = dsp.handlers /\ Events(dsp, dsp')
    BY <1>1, <1>4 DEF DspState, Events
  <2> QED BY <1>1, <1>4, <2>1, <2>2 DEF DspInv, DspTypeOK, PipesHold, WordFirst, AnnouncementsRelayed, Events
<1>5. CASE dsp' = [dsp EXCEPT !.cmd = NoWord, !.started = TRUE, !.pipe["toDSP"] = done.p, !.sent["toDSP"] = <<>>, !.wrong = bad]
  <2> DEFINE pipes == [dsp.pipe EXCEPT !["toDSP"] = done.p]
             sents == [dsp.sent EXCEPT !["toDSP"] = <<>>]
             t == [dsp EXCEPT !.cmd = NoWord, !.started = TRUE, !.pipe = pipes, !.sent = sents, !.wrong = bad]
  <2>1. /\ dsp.pipe \in [Side -> Pipe] /\ dsp.memory \in [Side -> Memory] /\ dsp.sent \in [Side -> Seq(SUBSET Byte)] /\ "toDSP" \in Side
    BY <1>1 DEF DspState, Memory, Side
  <2>2. Holds(p, dsp.memory["toDSP"], dsp.sent["toDSP"])
    BY <2>1 DEF DspInv, PipesHold
  <2>3. /\ Fits(done.got, dsp.sent["toDSP"]) /\ done.p \in Pipe /\ done.p.index = p.index
        /\ Holds(done.p, dsp.memory["toDSP"], <<>>)
    <3>1. PICK q \in Pipe, m \in Memory, x \in Seq(SUBSET Byte) : q = p /\ m = dsp.memory["toDSP"] /\ x = dsp.sent["toDSP"]
      BY <2>1
    <3>2. Holds(q, m, x)
      BY <2>2, <3>1
    <3>3. LET y == ReadChunks(q, m, CursorDistance(q))
          IN  Fits(y.got, x) /\ y.p \in Pipe /\ y.p.index = q.index /\ Holds(y.p, m, <<>>)
      BY <3>2, ReadsAll
    <3> QED BY <3>1, <3>3
  <2>4. bad = FALSE
    BY <2>3
  <2> HIDE DEF bad, done
  <2>5. bad \in BOOLEAN
    BY <2>4
  <2>6. pipes \in [Side -> Pipe]
    BY <2>1, <2>3
  <2>7. sents \in [Side -> Seq(SUBSET Byte)]
    BY <2>1
  <2>8. dsp' = t
    BY <1>5
  <2> HIDE DEF pipes, sents
  <2>9. t \in DspState
    BY <1>1, <1>2, <2>5, <2>6, <2>7, Zenon DEF DspState
  <2>10. /\ dsp'.pipe = pipes /\ dsp'.memory = dsp.memory /\ dsp'.sent = sents /\ dsp'.wrong = bad
         /\ dsp'.owed = dsp.owed /\ dsp'.reply = dsp.reply /\ dsp'.handlers = dsp.handlers /\ Events(dsp, dsp')
    BY <1>1, <2>8 DEF DspState, Events
  <2>11. PipesHold' /\ dsp'.pipe["toARM"].index = 4
    <3>1. PICK q \in Pipe, m \in Memory, x \in Seq(SUBSET Byte) : q = done.p /\ m = dsp.memory["toDSP"] /\ x = <<>>
      <4>1. <<>> \in Seq(SUBSET Byte)
        OBVIOUS
      <4>2. dsp.memory["toDSP"] \in Memory
        BY <2>1
      <4> QED BY <2>3, <4>1, <4>2, Zenon
    <3>2. "toDSP" \in Side /\ Holds(q, m, x) /\ q.index = dsp.pipe["toDSP"].index
      BY <2>1, <2>3, <3>1
    <3>3. dsp'.pipe = [dsp.pipe EXCEPT !["toDSP"] = q] /\ dsp'.sent = [dsp.sent EXCEPT !["toDSP"] = x]
      BY <2>10, <3>1 DEF pipes, sents
    <3>4. dsp'.memory = [dsp.memory EXCEPT !["toDSP"] = m]
      BY <2>1, <2>10, <3>1
    <3> QED BY <3>2, <3>3, <3>4, OnePipe
  <2>12. dsp' \in DspState
    BY <2>8, <2>9
  <2> QED BY <1>1, <2>4, <2>10, <2>11, <2>12 DEF DspInv, DspTypeOK, WordFirst, AnnouncementsRelayed, Events
<1>6. \/ dsp' = [Send(dsp, 2, 0) EXCEPT !.cmd = NoWord, !.stage = "off"]
      \/ dsp' = [dsp EXCEPT !.cmd = NoWord, !.started = TRUE]
      \/ dsp' = [dsp EXCEPT !.cmd = NoWord, !.started = TRUE, !.pipe["toDSP"] = done.p, !.sent["toDSP"] = <<>>, !.wrong = bad]
  BY DEF DspTakes
<1> HIDE DEF done, bad
<1> QED BY <1>3, <1>4, <1>5, <1>6

-----------------------------------------------------------------------------
(* The invariant holds.                                                    *)

\* Nothing is under way before a component is loaded.
LEMMA StartHolds == DspInit => DspInv
<1> SUFFICES ASSUME DspInit PROVE DspInv
  OBVIOUS
<1> DEFINE pipes == [x \in Side |-> SubPipeInfo(IF x = "toARM" THEN 4 ELSE 5)]
           memories == [x \in Side |-> [a \in 0 .. PipeSize - 1 |-> 0]]
           replies == [channel \in 0 .. 2 |-> NoWord]
           nothing == [x \in Side |-> <<>>]
           counts == [x \in Side |-> 0]
           t == [stage |-> "off", pipe |-> pipes, memory |-> memories, cmd |-> NoWord, reply |-> replies, sent |-> nothing, owed |-> FALSE,
                 sentBytes |-> counts, call |-> NoCall, calls |-> 0, handlers |-> FALSE, loaded |-> FALSE, started |-> FALSE,
                 data_signaled |-> FALSE, semaphore_signaled |-> FALSE, interrupt |-> FALSE, channel_event |-> "none",
                 mask |-> {}, semaphore |-> {}, wrong |-> FALSE, stopped |-> FALSE]
<1>1. dsp = t
  <2>1. [x \in Side |-> SubPipeInfo(IF x = "toARM" THEN IndexToARM11(2) ELSE IndexToDSP(2))] = pipes
    <3>1. IndexToARM11(2) = 4 /\ IndexToDSP(2) = 5
      BY DEF IndexToARM11, IndexToDSP
    <3>2. ASSUME NEW x \in Side
          PROVE  SubPipeInfo(IF x = "toARM" THEN IndexToARM11(2) ELSE IndexToDSP(2)) = SubPipeInfo(IF x = "toARM" THEN 4 ELSE 5)
      <4>1. (IF x = "toARM" THEN IndexToARM11(2) ELSE IndexToDSP(2)) = IF x = "toARM" THEN 4 ELSE 5
        BY <3>1
      <4> QED BY <4>1
    <3> QED BY <3>2
  <2> HIDE DEF pipes, memories, nothing, counts, replies
  <2> QED BY <2>1, ZenonT(60) DEF DspInit, Reset, memories, nothing, counts, replies
<1>2. NoWord \in WordType /\ ~NoWord.full /\ NoCall \in [c : {"none", "read", "load", "unload"}, n : Nat] /\ NoCall.c = "none"
  BY DEF NoWord, WordType, NoCall
<1>3. ASSUME NEW x \in Side
      PROVE  /\ pipes[x] \in Pipe /\ (x = "toARM" => pipes[x].index = 4)
             /\ CursorsValid(pipes[x]) /\ CursorDistance(pipes[x]) = 0
  <2>1. pipes[x] = SubPipeInfo(IF x = "toARM" THEN 4 ELSE 5)
    OBVIOUS
  <2>2. 0 \in 0 .. PipeSize - 1
    BY DspAssumption
  <2> HIDE DEF pipes
  <2>3. pipes[x] \in Pipe /\ (x = "toARM" => pipes[x].index = 4)
    BY <2>1, <2>2 DEF SubPipeInfo, Cursor, Pipe
  <2>4. CursorsValid(pipes[x]) /\ CursorDistance(pipes[x]) = 0
    BY <2>1 DEF SubPipeInfo, Cursor, CursorsValid, CursorDistance, SameIteration
  <2> QED BY <2>3, <2>4
<1>4. pipes \in [Side -> Pipe] /\ pipes["toARM"].index = 4
  <2> HIDE DEF pipes
  <2>1. pipes = [x \in Side |-> pipes[x]]
    BY DEF pipes
  <2> QED BY <1>3, <2>1 DEF Side
<1>5. memories \in [Side -> [0 .. PipeSize - 1 -> Byte]]
  BY DEF Byte
<1>6. replies \in [0 .. 2 -> WordType] /\ counts \in [Side -> Nat] /\ nothing \in [Side -> Seq(SUBSET Byte)]
  BY <1>2
<1>7. \A x \in Side : nothing[x] = <<>> /\ Len(nothing[x]) = 0
  OBVIOUS
<1> HIDE DEF pipes, memories, replies, nothing, counts
<1>8. dsp \in DspState
  <2>1. t \in DspState
    BY <1>2, <1>4, <1>5, <1>6 DEF DspState
  <2> QED BY <1>1, <2>1
<1>9. /\ dsp.stage = "off" /\ ~dsp.loaded /\ ~dsp.started /\ dsp.cmd = NoWord /\ dsp.call = NoCall /\ dsp.pipe = pipes
      /\ dsp.sent = nothing /\ dsp.memory = memories /\ ~dsp.owed /\ ~dsp.wrong /\ ~dsp.semaphore_signaled
  BY <1>1
<1>10. PipesHold
  BY <1>3, <1>7, <1>9 DEF PipesHold, Holds
<1>11. WordFirst
  BY <1>2, <1>4, <1>9 DEF WordFirst
<1> QED BY <1>8, <1>9, <1>10, <1>11 DEF DspInv, DspTypeOK, AnnouncementsRelayed

\* Every step keeps the invariant.
LEMMA DspStepKeeps == DspInv /\ [DspNext]_dsp => DspInv'
<1> SUFFICES ASSUME DspInv, [DspNext]_dsp PROVE DspInv'
  OBVIOUS
<1>1. CASE UNCHANGED dsp
  BY <1>1 DEF DspInv, DspTypeOK, PipesHold, WordFirst, AnnouncementsRelayed
<1>2. CASE \E n \in Lengths : HandleWriteProcessPipe(n)
  BY <1>2, WriteKeeps
<1>3. CASE \E n \in Lengths \cup {0} : HandleReadPipeIfPossible(n)
  BY <1>3, ReadKeeps
<1>4. CASE \E valid \in BOOLEAN : HandleLoadComponent(valid)
  BY <1>4, LoadKeeps
<1>5. CASE \E register \in BOOLEAN : RegisterInterruptEvents(register)
  BY <1>5, RegisterKeeps
<1>6. CASE ReadPipeRest
  BY <1>6, ReadRestKeeps
<1>7. CASE AwaitChannel \/ AwaitPipes \/ InstallHandlers
  BY <1>7, AwaitChannelKeeps, AwaitPipesKeeps, InstallKeeps
<1>8. CASE UnloadComponent \/ UnloadRest
  BY <1>8, UnloadKeeps, UnloadRestKeeps
<1>9. CASE SetSemaphoreMask \/ SetSemaphore \/ SemaphoreEvent
  BY <1>9, SetSemaphoreMaskKeeps, SetSemaphoreKeeps, SemaphoreEventKeeps
<1>10. CASE HandleRecvData \/ InterruptEvent \/ ClientWakes
  BY <1>10, RecvDataKeeps, InterruptKeeps, ClientWakesKeeps
<1>11. CASE DspBoots \/ DspWrites \/ DspAnnounces \/ DspTakes
  BY <1>11, BootsKeep, DspWritesKeeps, AnnouncesKeep, TakesKeep
<1> QED BY <1>1, <1>2, <1>3, <1>4, <1>5, <1>6, <1>7, <1>8, <1>9, <1>10, <1>11 DEF DspNext

\* What is under way is what a read of all of it returns (PipesAreQueues).
LEMMA DspInvServes == DspInv => PipesServed
<1> SUFFICES ASSUME DspInv PROVE PipesServed
  OBVIOUS
<1>1. ASSUME NEW side \in Side
      PROVE  LET p == dsp.pipe[side] IN
             CursorsValid(p) /\ Fits(ReadChunks(p, dsp.memory[side], CursorDistance(p)).got, dsp.sent[side])
  <2>1. /\ dsp.pipe[side] \in Pipe /\ dsp.memory[side] \in Memory /\ dsp.sent[side] \in Seq(SUBSET Byte)
    BY DEF DspInv, DspTypeOK, DspState, Memory
  <2>2. Holds(dsp.pipe[side], dsp.memory[side], dsp.sent[side])
    BY DEF DspInv, PipesHold
  <2>3. PICK q \in Pipe, m \in Memory, x \in Seq(SUBSET Byte) : q = dsp.pipe[side] /\ m = dsp.memory[side] /\ x = dsp.sent[side]
    BY <2>1
  <2>4. Holds(q, m, x) /\ CursorsValid(q)
    BY <2>2, <2>3 DEF Holds
  <2>5. Fits(ReadChunks(q, m, CursorDistance(q)).got, x)
    BY <2>4, ReadsAll
  <2> QED BY <2>3, <2>4, <2>5
<1> QED BY <1>1 DEF PipesServed, PipesAreQueues, DspInv

\* The pipes of the audio service are queues, through every wrap, unload and reload, and every announcement of the
\* signal processor raises the interrupt (HandleWriteProcessPipe, HandleReadPipeIfPossible, ProcessPipeEvent).
THEOREM PipesAreServed == DspSpec => []PipesServed
<1>1. DspInit => DspInv
  BY StartHolds
<1>2. DspInv /\ [DspNext]_dsp => DspInv'
  BY DspStepKeeps
<1>3. DspInv => PipesServed
  BY DspInvServes
<1> QED BY <1>1, <1>2, <1>3, PTL DEF DspSpec

\* The types of the audio service's state.
THEOREM DspTypeCorrect == DspSpec => []DspTypeOK
<1>1. DspInit => DspInv
  BY StartHolds
<1>2. DspInv /\ [DspNext]_dsp => DspInv'
  BY DspStepKeeps
<1>3. DspInv => DspTypeOK
  BY DEF DspInv
<1> QED BY <1>1, <1>2, <1>3, PTL DEF DspSpec
=============================================================================
