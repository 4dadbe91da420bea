------------------------- MODULE AddressSpaceProofs -------------------------
(***************************************************************************)
(* Proofs about AddressSpace, for any number of virtual and physical pages *)
(* and requests of any size.                                               *)
(*                                                                         *)
(* Everything that looks at the map (the search for a free range, the two  *)
(* tests of MapVirtualMemory, UnmapVirtualMemory) looks at single mappings *)
(* and their neighbours.  GoodMap says when that is enough: the mappings   *)
(* follow each other.  Under it a page is translated by the one mapping    *)
(* that covers it, and the two operations on the map are the operations on *)
(* single pages that the calls stand for (Performed).                      *)
(***************************************************************************)
EXTENDS AddressSpace, ListLemmas

-----------------------------------------------------------------------------
(* The greatest number of a set, which CHOOSE finds. *)
LEMMA GreatestElement ==
    ASSUME NEW N \in Nat, NEW T \in SUBSET (0..N), T # {}
    PROVE  Max(T) \in T /\ \A j \in T : j <= Max(T)
<1> DEFINE R == {N - i : i \in T}
<1>0. \A i \in T : i \in Nat /\ i <= N /\ N - i \in Nat
  <2>1. \A i \in T : i \in 0..N
    OBVIOUS
  <2> QED BY <2>1
<1>1. R \in SUBSET Nat /\ R # {}
  <2>1. \A r \in R : r \in Nat
    BY <1>0
  <2>2. PICK i : i \in T
    OBVIOUS
  <2>3. N - i \in R
    BY <2>2
  <2> QED BY <2>1, <2>3
<1>2. PICK r \in R : \A j \in R : r <= j
  <2> HIDE DEF R
  <2> QED BY <1>1, LeastElement
<1>3. PICK m \in T : r = N - m
  OBVIOUS
<1>4. ASSUME NEW j \in T PROVE m >= j
  <2>1. N - j \in R /\ j \in 0..N /\ m \in 0..N
    OBVIOUS
  <2>2. r <= N - j
    BY <1>2, <2>1
  <2> QED BY <1>3, <2>1, <2>2
<1>5. Max(T) \in T /\ \A j \in T : Max(T) >= j
  BY <1>4 DEF Max
<1>6. \A j \in T : Max(T) >= j => j <= Max(T)
  <2>1. PICK x : x = Max(T)
    OBVIOUS
  <2>2. x \in Nat
    BY <1>0, <1>5, <2>1
  <2>3. \A j \in T : x >= j => j <= x
    BY <1>0, <2>2
  <2> QED BY <2>1, <2>3
<1> QED BY <1>5, <1>6

(* The least one. *)
LEMMA LeastOf ==
    ASSUME NEW T \in SUBSET Nat, T # {}
    PROVE  Min(T) \in T /\ \A j \in T : Min(T) <= j
BY LeastElement DEF Min

-----------------------------------------------------------------------------
(* Maps of virtual memory.                                                  *)

Mapping == [phys : PPage, size : 1..VPages, perm : Perm]
Limit(m, k) == k + m[k].size

GoodMap(m) ==
    /\ m = [k \in DOMAIN m |-> m[k]]
    /\ DOMAIN m \subseteq VPage
    /\ \A k \in DOMAIN m : /\ m[k] \in Mapping
                           /\ Limit(m, k) <= VPages /\ m[k].phys + m[k].size <= PPages
    /\ \A j, k \in DOMAIN m : j < k => Limit(m, j) <= k

Covers(m, k, w) == k \in DOMAIN m /\ k <= w /\ w < Limit(m, k)
PageAt(m, k, w) == [phys |-> m[k].phys + w - k, perm |-> m[k].perm]
EntryIn(m, w) ==
    LET below == {k \in DOMAIN m : k <= w}
    IN  IF below = {} \/ Limit(m, Max(below)) <= w THEN Nowhere
        ELSE [phys |-> m[Max(below)].phys + w - Max(below), perm |-> m[Max(below)].perm]

(* The map of the module, in this notation. *)
LEMMA EntryOfMap ==
    \A w : Entry(w) = EntryIn(vm, w) /\ Entry(w)' = EntryIn(vm', w)
BY DEF Entry, EntryIn, End, Limit

(* The fields of a mapping. *)
LEMMA MappingFacts ==
    ASSUME NEW m, GoodMap(m), NEW k \in DOMAIN m
    PROVE  /\ k \in Nat /\ k < VPages /\ VPages \in Nat /\ PPages \in Nat
           /\ m[k].phys \in Nat /\ m[k].phys < PPages /\ m[k].size \in Nat
           /\ m[k].size >= 1 /\ m[k].size <= VPages /\ m[k].perm \in Perm
           /\ Limit(m, k) \in Nat /\ Limit(m, k) <= VPages /\ k < Limit(m, k)
           /\ m[k].phys + m[k].size <= PPages
<1>1. k \in VPage /\ m[k] \in Mapping /\ Limit(m, k) <= VPages /\ m[k].phys + m[k].size <= PPages
  BY DEF GoodMap
<1>2. VPages \in Nat /\ PPages \in Nat
  BY AddressSpaceAssumption
<1>3. m[k].phys \in PPage /\ m[k].size \in 1..VPages /\ m[k].perm \in Perm
  BY <1>1 DEF Mapping
<1>4. m[k].phys \in Nat /\ m[k].phys < PPages
  BY <1>2, <1>3 DEF PPage
<1>5. k \in Nat /\ k < VPages
  BY <1>1, <1>2 DEF VPage
<1> QED BY <1>1, <1>2, <1>3, <1>4, <1>5 DEF Limit

(* A page is translated by the mapping that covers it. *)
LEMMA Covered ==
    ASSUME NEW m, GoodMap(m), NEW w \in VPage, NEW k, Covers(m, k, w)
    PROVE  EntryIn(m, w) = PageAt(m, k, w) /\ PageAt(m, k, w) # Nowhere
<1> DEFINE below == {j \in DOMAIN m : j <= w}
<1>1. /\ w \in Nat /\ k \in DOMAIN m /\ k \in Nat /\ k <= w /\ w < Limit(m, k)
      /\ m[k].phys \in Nat /\ m[k].perm \in Perm
  BY MappingFacts, AddressSpaceAssumption DEF Covers, VPage
<1>2. below \in SUBSET (0..w) /\ k \in below
  BY <1>1, MappingFacts
<1> DEFINE K == Max(below)
<1>3. K \in below /\ k <= K
  <2> HIDE DEF below
  <2> QED BY <1>1, <1>2, GreatestElement
<1>4. K \in DOMAIN m /\ K <= w /\ K \in Nat /\ Limit(m, K) \in Nat /\ Limit(m, k) \in Nat
  BY <1>1, <1>3, MappingFacts
<1> HIDE DEF K
<1>5. ~(k < K)
  BY <1>1, <1>4 DEF GoodMap
<1>6. K = k
  BY <1>1, <1>3, <1>4, <1>5
<1>7. ~(Limit(m, K) <= w)
  BY <1>1, <1>4, <1>6
<1>8. EntryIn(m, w) = PageAt(m, k, w)
  BY <1>2, <1>6, <1>7 DEF EntryIn, PageAt, K
<1>9. PageAt(m, k, w).phys # Unmapped
  BY <1>1 DEF PageAt, Unmapped
<1> QED BY <1>8, <1>9 DEF Nowhere

(* A page that no mapping covers is mapped nowhere. *)
LEMMA NotCovered ==
    ASSUME NEW m, GoodMap(m), NEW w \in VPage, \A k : ~Covers(m, k, w)
    PROVE  EntryIn(m, w) = Nowhere
<1> DEFINE below == {j \in DOMAIN m : j <= w}
           K == Max(below)
<1>1. w \in Nat
  BY AddressSpaceAssumption DEF VPage
<1>2. CASE below = {}
  BY <1>2 DEF EntryIn
<1>3. CASE below # {}
  <2>1. below \in SUBSET (0..w)
    BY <1>1, MappingFacts
  <2>2. K \in below
    <3> HIDE DEF below
    <3> QED BY <1>1, <1>3, <2>1, GreatestElement
  <2>3. K \in DOMAIN m /\ K <= w /\ Limit(m, K) \in Nat
    BY <2>2, MappingFacts
  <2>4. Limit(m, K) <= w
    <3> HIDE DEF K
    <3> QED BY <1>1, <2>3 DEF Covers
  <2> QED BY <2>4 DEF EntryIn
<1> QED BY <1>2, <1>3

(* Both in one. *)
LEMMA MappedIffCovered ==
    ASSUME NEW m, GoodMap(m), NEW w \in VPage
    PROVE  /\ EntryIn(m, w) # Nowhere <=> \E k : Covers(m, k, w)
           /\ \A k : Covers(m, k, w) => EntryIn(m, w) = PageAt(m, k, w)
           /\ EntryIn(m, w) = Nowhere \/ EntryIn(m, w) \in [phys : PPage, perm : Perm]
<1>1. \A k : Covers(m, k, w) => EntryIn(m, w) = PageAt(m, k, w) /\ EntryIn(m, w) # Nowhere
  BY Covered
<1>2. (\A k : ~Covers(m, k, w)) => EntryIn(m, w) = Nowhere
  BY NotCovered
<1>3. ASSUME NEW k, Covers(m, k, w) PROVE PageAt(m, k, w) \in [phys : PPage, perm : Perm]
  <2>1. k \in DOMAIN m /\ w \in Nat /\ k <= w /\ w < Limit(m, k)
    BY <1>3, AddressSpaceAssumption DEF Covers, VPage
  <2>2. /\ k \in Nat /\ m[k].phys \in Nat /\ m[k].size \in Nat /\ PPages \in Nat
        /\ m[k].phys + m[k].size <= PPages /\ m[k].perm \in Perm
    BY <2>1, MappingFacts
  <2>3. m[k].phys + w - k \in PPage
    BY <2>1, <2>2 DEF PPage, Limit
  <2> QED BY <2>2, <2>3 DEF PageAt
<1> QED BY <1>1, <1>2, <1>3

-----------------------------------------------------------------------------
(* What MapVirtualMemory does to the map.                                   *)

(* No mapping reaches into the range. *)
Free(m, v, n) == \A k \in DOMAIN m : Limit(m, k) <= v \/ v + n <= k

(* The two tests of MapVirtualMemory find every mapping in the way. *)
LEMMA NotTaken ==
    ASSUME GoodMap(vm), NEW v \in Nat, NEW n \in Nat, ~Taken(v, n)
    PROVE  Free(vm, v, n)
<1> DEFINE before == {k \in DOMAIN vm : k < v}
           K == Max(before)
<1>1. DOMAIN vm \cap Span(v, n) = {} /\ (before = {} \/ ~(Limit(vm, K) > v))
  BY DEF Taken, End, Limit
<1>2. ASSUME NEW k \in DOMAIN vm PROVE Limit(vm, k) <= v \/ v + n <= k
  <2>1. k \in Nat /\ k \notin Span(v, n) /\ Limit(vm, k) \in Nat
    BY <1>1, MappingFacts
  <2>2. CASE k >= v
    BY <2>1, <2>2 DEF Span
  <2>3. CASE k < v
    <3>1. before \in SUBSET (0..v) /\ k \in before
      BY <2>3, MappingFacts
    <3>2. K \in before /\ k <= K
      <4> HIDE DEF before
      <4> QED BY <3>1, GreatestElement
    <3>3. K \in DOMAIN vm /\ K < v /\ K \in Nat /\ Limit(vm, K) \in Nat
      BY <3>2, MappingFacts
    <3>4. ~(Limit(vm, K) > v)
      BY <1>1, <3>1
    <3> HIDE DEF K
    <3>5. k < K => Limit(vm, k) <= K
      BY <3>3 DEF GoodMap
    <3> QED BY <2>1, <3>2, <3>3, <3>4, <3>5
  <2> QED BY <2>1, <2>2, <2>3
<1> QED BY <1>2 DEF Free

(* The new mapping translates its range and leaves the rest as it was. *)
LEMMA MapAdds ==
    ASSUME NEW m, GoodMap(m), NEW p \in PPage, NEW v \in VPage, NEW n \in 1..VPages, NEW perm \in Perm,
           v + n <= VPages, p + n <= PPages, Free(m, v, n),
           NEW r, r = Merged(Single(v, [phys |-> p, size |-> n, perm |-> perm]), m)
    PROVE  /\ GoodMap(r)
           /\ \A w \in VPage : EntryIn(r, w) = IF w \in Span(v, n)
                                               THEN [phys |-> p + w - v, perm |-> perm]
                                               ELSE EntryIn(m, w)
<1> DEFINE x == [phys |-> p, size |-> n, perm |-> perm]
<1>1. /\ r = [k \in DOMAIN r |-> r[k]] /\ DOMAIN r = {v} \cup DOMAIN m
      /\ r[v] = x /\ \A k \in DOMAIN m : k # v => r[k] = m[k]
  BY DEF Merged, Single
<1>2. v \in Nat /\ n \in Nat /\ n >= 1 /\ p \in Nat /\ VPages \in Nat /\ PPages \in Nat
  BY AddressSpaceAssumption DEF VPage, PPage
<1>3. x \in Mapping /\ Limit(r, v) = v + n
  BY <1>1 DEF Mapping, Limit
<1>4. v \notin DOMAIN m
  <2> SUFFICES ASSUME v \in DOMAIN m PROVE FALSE
    OBVIOUS
  <2>1. Limit(m, v) <= v \/ v + n <= v
    BY DEF Free
  <2> QED BY <1>2, <2>1, MappingFacts
<1>5. \A k \in DOMAIN m : r[k] = m[k] /\ Limit(r, k) = Limit(m, k)
  BY <1>1, <1>4 DEF Limit
<1>6. GoodMap(r)
  <2>1. DOMAIN r \subseteq VPage
    BY <1>1 DEF GoodMap
  <2>2. ASSUME NEW k \in DOMAIN r
        PROVE  r[k] \in Mapping /\ Limit(r, k) <= VPages /\ r[k].phys + r[k].size <= PPages
    <3>1. CASE k = v
      <4>1. r[k].phys = p /\ r[k].size = n
        BY <1>1, <3>1
      <4> QED BY <1>1, <1>3, <3>1, <4>1
    <3>2. CASE k \in DOMAIN m
      BY <1>5, <3>2 DEF GoodMap
    <3> QED BY <1>1, <3>1, <3>2
  <2>3. ASSUME NEW j \in DOMAIN r, NEW k \in DOMAIN r, j < k PROVE Limit(r, j) <= k
    <3>1. CASE j \in DOMAIN m /\ k \in DOMAIN m
      BY <1>5, <2>3, <3>1 DEF GoodMap
    <3>2. CASE j = v /\ k \in DOMAIN m
      <4>1. Limit(m, k) <= v \/ v + n <= k
        BY <3>2 DEF Free
      <4>2. k < Limit(m, k) /\ k \in Nat /\ Limit(m, k) \in Nat
        BY <3>2, MappingFacts
      <4> QED BY <1>2, <1>3, <2>3, <3>2, <4>1, <4>2
    <3>3. CASE j \in DOMAIN m /\ k = v
      <4>1. Limit(m, j) <= v \/ v + n <= j
        BY <3>3 DEF Free
      <4>2. j \in Nat
        BY <3>3, MappingFacts
      <4> QED BY <1>2, <1>5, <2>3, <3>3, <4>1, <4>2
    <3>4. CASE j = v /\ k = v
      BY <1>2, <2>3, <3>4
    <3> QED BY <1>1, <3>1, <3>2, <3>3, <3>4
  <2> QED BY <1>1, <2>1, <2>2, <2>3 DEF GoodMap
<1>7. ASSUME NEW w \in VPage
      PROVE  EntryIn(r, w) = IF w \in Span(v, n) THEN [phys |-> p + w - v, perm |-> perm]
                             ELSE EntryIn(m, w)
  <2>0. w \in Nat
    BY AddressSpaceAssumption DEF VPage
  <2>1. CASE w \in Span(v, n)
    <3>1. Covers(r, v, w)
      BY <1>1, <1>2, <1>3, <2>0, <2>1 DEF Covers, Span
    <3>2. PageAt(r, v, w) = [phys |-> p + w - v, perm |-> perm]
      BY <1>1 DEF PageAt
    <3> QED BY <1>6, <2>1, <3>1, <3>2, Covered
  <2>2. CASE w \notin Span(v, n)
    <3>1. ~Covers(r, v, w)
      BY <1>1, <1>2, <1>3, <2>0, <2>2 DEF Covers, Span
    <3>2. \A k : k # v => (Covers(r, k, w) <=> Covers(m, k, w))
      BY <1>1, <1>5 DEF Covers
    <3>3. ~Covers(m, v, w)
      BY <1>4 DEF Covers
    <3>4. \A k : Covers(m, k, w) => PageAt(r, k, w) = PageAt(m, k, w)
      BY <1>5 DEF PageAt, Covers
    <3>5. \A k : Covers(r, k, w) <=> Covers(m, k, w)
      BY <3>1, <3>2, <3>3
    <3>6. CASE \E k : Covers(m, k, w)
      <4>1. PICK k : Covers(m, k, w)
        BY <3>6
      <4>2. EntryIn(m, w) = PageAt(m, k, w)
        BY <4>1, Covered
      <4>3. EntryIn(r, w) = PageAt(r, k, w)
        BY <1>6, <3>5, <4>1, Covered
      <4> QED BY <2>2, <3>4, <4>1, <4>2, <4>3
    <3>7. CASE \A k : ~Covers(m, k, w)
      <4>1. EntryIn(m, w) = Nowhere
        BY <3>7, NotCovered
      <4>2. EntryIn(r, w) = Nowhere
        BY <1>6, <3>5, <3>7, NotCovered
      <4> QED BY <2>2, <4>1, <4>2
    <3> QED BY <3>6, <3>7
  <2> QED BY <2>1, <2>2
<1> QED BY <1>6, <1>7

-----------------------------------------------------------------------------
(* What a recursion of UnmapVirtualMemory does to the map.                  *)

(* A part of a mapping. *)
LEMMA PartIs ==
    ASSUME NEW x \in Mapping, NEW from, NEW size
    PROVE  Part(x, from, size) = [phys |-> x.phys + from, size |-> size, perm |-> x.perm]
<1>1. PICK p, z, q : x = [phys |-> p, size |-> z, perm |-> q]
  BY DEF Mapping
<1>2. x.phys = p /\ x.perm = q
  BY <1>1
<1>3. Part(x, from, size) = [[phys |-> p, size |-> z, perm |-> q] EXCEPT !.phys = p + from, !.size = size]
  BY <1>1, <1>2 DEF Part
<1> QED BY <1>2, <1>3

(* The mapping k, which the range reaches into, is replaced by what is     *)
(* left of it before and beyond the range.                                 *)
Cut(k, v) == IF k < v THEN v - k ELSE 0
CutMap(k, v, n) == Merged(Before(k, v), Merged(Without(k), Beyond(k, v, n)))

(* The mappings of the new map, one by one. *)
LEMMA Pieces ==
    ASSUME GoodMap(vm), NEW k \in DOMAIN vm, NEW v \in VPage, NEW n \in 1..VPages,
           v < Limit(vm, k), k < v + n, NEW r, r = CutMap(k, v, n)
    PROVE  /\ r = [j \in DOMAIN r |-> r[j]]
           /\ \A j : j \in DOMAIN r <=> \/ j = k /\ k < v
                                        \/ j \in DOMAIN vm /\ j # k
                                        \/ j = v + n /\ vm[k].size - Cut(k, v) > n
           /\ k < v => r[k] = [phys |-> vm[k].phys, size |-> v - k, perm |-> vm[k].perm]
           /\ \A j \in DOMAIN vm : j # k => r[j] = vm[j]
           /\ vm[k].size - Cut(k, v) > n =>
                 /\ v + n \notin DOMAIN vm /\ v + n # k
                 /\ r[v + n] = [phys |-> vm[k].phys + (Cut(k, v) + n),
                                size |-> (vm[k].size - Cut(k, v)) - n, perm |-> vm[k].perm]
<1> DEFINE a == Before(k, v)
           b == Without(k)
           c == Beyond(k, v, n)
           d == Merged(b, c)
           x == [phys |-> vm[k].phys, size |-> v - k, perm |-> vm[k].perm]
           y == [phys |-> vm[k].phys + (Cut(k, v) + n), size |-> (vm[k].size - Cut(k, v)) - n, perm |-> vm[k].perm]
<1>0. /\ vm[k] \in Mapping /\ k \in Nat /\ v \in Nat /\ n \in Nat /\ n >= 1
      /\ vm[k].phys \in Nat /\ vm[k].size \in Nat /\ Limit(vm, k) = k + vm[k].size
      /\ Limit(vm, k) \in Nat
  <2>1. vm[k] \in Mapping
    BY DEF GoodMap
  <2>2. v \in Nat /\ n \in Nat /\ n >= 1
    BY AddressSpaceAssumption DEF VPage
  <2>3. Limit(vm, k) = k + vm[k].size
    BY DEF Limit
  <2> QED BY <2>1, <2>2, <2>3, MappingFacts
<1>1. /\ \A j : j \in DOMAIN a <=> j = k /\ k < v
      /\ k < v => a[k] = x
  <2>1. Part(vm[k], 0, v - k) = x
    <3>1. vm[k].phys + 0 = vm[k].phys
      BY <1>0
    <3> QED BY <1>0, <3>1, PartIs
  <2>2. CASE k < v
    <3>1. a = [j \in {k} |-> x]
      BY <2>1, <2>2 DEF Before, Single
    <3> HIDE DEF a, x
    <3> QED BY <2>2, <3>1
  <2>3. CASE ~(k < v)
    <3>1. a = << >>
      BY <2>3 DEF Before
    <3>2. DOMAIN a = {}
      BY <3>1
    <3> HIDE DEF a, x
    <3> QED BY <2>3, <3>2
  <2> QED BY <2>2, <2>3
<1>2. /\ \A j : j \in DOMAIN b <=> j \in DOMAIN vm /\ j # k
      /\ \A j \in DOMAIN vm : j # k => b[j] = vm[j]
  BY DEF Without
<1>3. /\ \A j : j \in DOMAIN c <=> j = v + n /\ vm[k].size - Cut(k, v) > n
      /\ vm[k].size - Cut(k, v) > n => c[v + n] = y
  <2>1. Part(vm[k], Cut(k, v) + n, (vm[k].size - Cut(k, v)) - n) = y
    BY <1>0, PartIs
  <2>2. CASE vm[k].size - Cut(k, v) > n
    <3>1. c = [j \in {v + n} |-> y]
      BY <2>1, <2>2 DEF Beyond, Single, Cut
    <3> HIDE DEF c, y
    <3> QED BY <2>2, <3>1
  <2>3. CASE ~(vm[k].size - Cut(k, v) > n)
    <3>1. c = << >>
      BY <2>3 DEF Beyond, Cut
    <3>2. DOMAIN c = {}
      BY <3>1
    <3> HIDE DEF c, y
    <3> QED BY <2>3, <3>2
  <2> QED BY <2>2, <2>3
<1>4. vm[k].size - Cut(k, v) > n => v + n \notin DOMAIN vm /\ v + n # k
  <2> SUFFICES ASSUME vm[k].size - Cut(k, v) > n PROVE v + n \notin DOMAIN vm /\ v + n # k
    OBVIOUS
  <2>1. k < v + n /\ v + n < Limit(vm, k)
    BY <1>0 DEF Cut
  <2>2. v + n \in DOMAIN vm => Limit(vm, k) <= v + n
    BY <2>1 DEF GoodMap
  <2> QED BY <1>0, <2>1, <2>2
<1> HIDE DEF a, b, c, x, y
<1>5. /\ DOMAIN d = DOMAIN b \cup DOMAIN c
      /\ \A j \in DOMAIN d : d[j] = IF j \in DOMAIN b THEN b[j] ELSE c[j]
  BY DEF Merged
<1> HIDE DEF d
<1>6. /\ r = [j \in DOMAIN r |-> r[j]] /\ DOMAIN r = DOMAIN a \cup DOMAIN d
      /\ \A j \in DOMAIN r : r[j] = IF j \in DOMAIN a THEN a[j] ELSE d[j]
  BY DEF CutMap, Merged, a, b, c, d
<1>7. \A j : j \in DOMAIN r <=> \/ j = k /\ k < v
                                \/ j \in DOMAIN vm /\ j # k
                                \/ j = v + n /\ vm[k].size - Cut(k, v) > n
  BY <1>1, <1>2, <1>3, <1>5, <1>6
<1>8. k < v => r[k] = x
  BY <1>1, <1>6
<1>9. ASSUME NEW j \in DOMAIN vm, j # k PROVE r[j] = vm[j]
  BY <1>1, <1>2, <1>5, <1>6, <1>9
<1>10. vm[k].size - Cut(k, v) > n => r[v + n] = y
  BY <1>1, <1>2, <1>3, <1>4, <1>5, <1>6
<1> QED BY <1>4, <1>6, <1>7, <1>8, <1>9, <1>10 DEF x, y

(* The mappings still follow each other. *)
LEMMA CutGood ==
    ASSUME GoodMap(vm), NEW k \in DOMAIN vm, NEW v \in VPage, NEW n \in 1..VPages,
           v < Limit(vm, k), k < v + n, NEW r, r = CutMap(k, v, n)
    PROVE  GoodMap(r)
<1> DEFINE s == vm[k].size
           cut == Cut(k, v)
<1>1. /\ k \in Nat /\ v \in Nat /\ n \in Nat /\ n >= 1 /\ VPages \in Nat /\ PPages \in Nat /\ v < VPages
      /\ vm[k].phys \in Nat /\ s \in Nat /\ s >= 1 /\ Limit(vm, k) = k + s /\ Limit(vm, k) <= VPages
      /\ vm[k].phys + s <= PPages /\ vm[k].perm \in Perm
  BY MappingFacts, AddressSpaceAssumption DEF VPage, Limit
<1>2. cut \in Nat /\ (k < v => cut = v - k) /\ (~(k < v) => cut = 0) /\ cut < s
  BY <1>1 DEF Cut
<1>3. /\ r = [j \in DOMAIN r |-> r[j]]
      /\ \A j : j \in DOMAIN r <=> \/ j = k /\ k < v
                                   \/ j \in DOMAIN vm /\ j # k
                                   \/ j = v + n /\ s - cut > n
      /\ k < v => r[k] = [phys |-> vm[k].phys, size |-> v - k, perm |-> vm[k].perm]
      /\ \A j \in DOMAIN vm : j # k => r[j] = vm[j]
      /\ s - cut > n =>
            /\ v + n \notin DOMAIN vm /\ v + n # k
            /\ r[v + n] = [phys |-> vm[k].phys + (cut + n), size |-> (s - cut) - n, perm |-> vm[k].perm]
  BY Pieces
<1> HIDE DEF s, cut
<1>4. k < v => Limit(r, k) = v
  BY <1>1, <1>3 DEF Limit
<1>5. \A j \in DOMAIN vm : j # k => Limit(r, j) = Limit(vm, j)
  BY <1>3 DEF Limit
<1>6. s - cut > n => Limit(r, v + n) = v + (s - cut) /\ Limit(r, v + n) <= Limit(vm, k) /\ v + n < Limit(vm, k)
  <2>1. s - cut > n => Limit(r, v + n) = (v + n) + ((s - cut) - n)
    BY <1>3 DEF Limit
  <2> QED BY <1>1, <1>2, <2>1
<1>7. DOMAIN r \subseteq VPage
  <2> SUFFICES ASSUME NEW j \in DOMAIN r PROVE j \in VPage
    OBVIOUS
  <2>1. CASE j \in DOMAIN vm
    BY <2>1 DEF GoodMap
  <2>2. CASE j = v + n /\ s - cut > n
    BY <1>1, <1>6, <2>2 DEF VPage
  <2> QED BY <1>3, <2>1, <2>2
<1>8. ASSUME NEW j \in DOMAIN r
      PROVE  r[j] \in Mapping /\ Limit(r, j) <= VPages /\ r[j].phys + r[j].size <= PPages
  <2>1. CASE j = k /\ k < v
    <3>1. r[j].phys = vm[k].phys /\ r[j].size = v - k
      BY <1>3, <2>1
    <3>2. vm[k].phys \in PPage /\ v - k \in 1..VPages
      BY <1>1, <2>1 DEF PPage
    <3>3. r[j] \in Mapping
      BY <1>1, <1>3, <2>1, <3>2 DEF Mapping
    <3> QED BY <1>1, <1>2, <1>4, <2>1, <3>1, <3>3
  <2>2. CASE j \in DOMAIN vm /\ j # k
    BY <1>3, <1>5, <2>2 DEF GoodMap
  <2>3. CASE j = v + n /\ s - cut > n
    <3>1. r[j].phys = vm[k].phys + (cut + n) /\ r[j].size = (s - cut) - n
      BY <1>3, <2>3
    <3>2. vm[k].phys + (cut + n) \in PPage /\ (s - cut) - n \in 1..VPages
      BY <1>1, <1>2, <2>3 DEF PPage
    <3>3. r[j] \in Mapping
      BY <1>1, <1>3, <2>3, <3>2 DEF Mapping
    <3>4. r[j].phys + r[j].size <= PPages
      BY <1>1, <1>2, <3>1
    <3>5. Limit(r, j) <= VPages
      BY <1>1, <1>2, <1>6, <2>3
    <3> QED BY <3>3, <3>4, <3>5
  <2> QED BY <1>3, <2>1, <2>2, <2>3
<1>9. ASSUME NEW i \in DOMAIN r, NEW j \in DOMAIN r, i < j PROVE Limit(r, i) <= j
  <2>1. i \in Nat /\ j \in Nat
    BY <1>1, <1>7, <1>9 DEF VPage
  <2>2. \A h \in DOMAIN vm : /\ h \in Nat /\ Limit(vm, h) \in Nat
                             /\ h < k => Limit(vm, h) <= k
                             /\ k < h => Limit(vm, k) <= h
    BY MappingFacts DEF GoodMap
  <2>3. CASE i \in DOMAIN vm /\ i # k /\ j \in DOMAIN vm /\ j # k
    BY <1>5, <1>9, <2>3 DEF GoodMap
  <2>4. CASE i = k /\ k < v
    <3>1. CASE j \in DOMAIN vm /\ j # k
      BY <1>1, <1>4, <1>9, <2>2, <2>4, <3>1
    <3>2. CASE j = v + n
      BY <1>1, <1>4, <2>4, <3>2
    <3> QED BY <1>3, <1>9, <2>1, <2>4, <3>1, <3>2
  <2>5. CASE j = k /\ k < v
    <3>1. CASE i \in DOMAIN vm /\ i # k
      BY <1>5, <1>9, <2>2, <2>5, <3>1
    <3>2. CASE i = v + n
      BY <1>1, <1>9, <2>5, <3>2
    <3> QED BY <1>3, <1>9, <2>1, <2>5, <3>1, <3>2
  <2>6. CASE i \in DOMAIN vm /\ i # k /\ j = v + n /\ s - cut > n
    <3>1. Limit(r, i) = Limit(vm, i)
      BY <1>5, <2>6
    <3>2. ~(k < i)
      BY <1>1, <1>6, <1>9, <2>1, <2>2, <2>6
    <3> QED BY <1>1, <2>1, <2>2, <2>6, <3>1, <3>2
  <2>7. CASE i = v + n /\ s - cut > n /\ j \in DOMAIN vm /\ j # k
    <3>1. k < j
      BY <1>1, <1>9, <2>1, <2>7
    <3>2. Limit(vm, k) <= j /\ Limit(r, i) <= Limit(vm, k)
      BY <1>6, <2>2, <2>7, <3>1
    <3>3. Limit(r, i) \in Int
      BY <1>1, <1>2, <1>6, <2>7
    <3> QED BY <1>1, <2>1, <3>2, <3>3
  <2>8. CASE i = v + n /\ j = v + n
    BY <1>1, <1>9, <2>8
  <2> QED BY <1>3, <2>3, <2>4, <2>5, <2>6, <2>7, <2>8
<1> QED BY <1>3, <1>7, <1>8, <1>9 DEF GoodMap

(* If the mapping covers the address, its chunk of the range is unmapped,  *)
(* and every other page stays where it was.                                *)
LEMMA CutEntries ==
    ASSUME GoodMap(vm), NEW k \in DOMAIN vm, NEW v \in VPage, NEW n \in 1..VPages,
           v < Limit(vm, k), k <= v, NEW r, r = CutMap(k, v, n),
           NEW size, size = Min({Limit(vm, k) - v, n})
    PROVE  /\ size \in 1..n
           /\ \A w \in VPage : EntryIn(r, w) = IF w \in Span(v, size) THEN Nowhere ELSE EntryIn(vm, w)
<1> DEFINE s == vm[k].size
           cut == Cut(k, v)
<1>1. /\ k \in Nat /\ v \in Nat /\ n \in Nat /\ n >= 1
      /\ vm[k].phys \in Nat /\ s \in Nat /\ Limit(vm, k) = k + s
  BY MappingFacts, AddressSpaceAssumption DEF VPage, Limit
<1>2. cut = v - k /\ k < v + n /\ cut \in Nat /\ s - cut = Limit(vm, k) - v
  BY <1>1 DEF Cut
<1>3. /\ size \in Nat /\ size >= 1 /\ size <= n /\ v + size <= Limit(vm, k)
      /\ size = n \/ v + size = Limit(vm, k)
  <2>1. {Limit(vm, k) - v, n} \in SUBSET Nat /\ {Limit(vm, k) - v, n} # {}
    BY <1>1
  <2>2. size \in {Limit(vm, k) - v, n} /\ \A j \in {Limit(vm, k) - v, n} : size <= j
    BY <2>1, LeastOf
  <2>3. size <= n /\ size <= Limit(vm, k) - v
    BY <2>2
  <2> QED BY <1>1, <2>2, <2>3
<1>4. GoodMap(r)
  BY <1>2, CutGood
<1>5. /\ \A j : j \in DOMAIN r <=> \/ j = k /\ k < v
                                   \/ j \in DOMAIN vm /\ j # k
                                   \/ j = v + n /\ s - cut > n
      /\ k < v => r[k] = [phys |-> vm[k].phys, size |-> v - k, perm |-> vm[k].perm]
      /\ \A j \in DOMAIN vm : j # k => r[j] = vm[j]
      /\ s - cut > n =>
            /\ v + n \notin DOMAIN vm /\ v + n # k
            /\ r[v + n] = [phys |-> vm[k].phys + (cut + n), size |-> (s - cut) - n, perm |-> vm[k].perm]
  BY <1>2, Pieces
<1> HIDE DEF s, cut
<1>6. /\ k < v => Limit(r, k) = v
      /\ \A j \in DOMAIN vm : j # k => Limit(r, j) = Limit(vm, j)
      /\ s - cut > n => Limit(r, v + n) = Limit(vm, k)
  <2>1. k < v => Limit(r, k) = v
    BY <1>1, <1>5 DEF Limit
  <2>2. \A j \in DOMAIN vm : j # k => Limit(r, j) = Limit(vm, j)
    BY <1>5 DEF Limit
  <2>3. s - cut > n => Limit(r, v + n) = (v + n) + ((s - cut) - n)
    BY <1>5 DEF Limit
  <2> QED BY <1>1, <1>2, <2>1, <2>2, <2>3
<1>7. ASSUME NEW w \in VPage
      PROVE  EntryIn(r, w) = IF w \in Span(v, size) THEN Nowhere ELSE EntryIn(vm, w)
  <2>1. w \in Nat /\ (w \in Span(v, size) <=> v <= w /\ w < v + size)
    BY <1>1, <1>3, AddressSpaceAssumption DEF VPage, Span
  <2>2. \A j \in DOMAIN vm : j \in Nat /\ Limit(vm, j) \in Nat
    BY MappingFacts
  <2>3. ASSUME NEW j, Covers(vm, j, w), k <= w, w < Limit(vm, k) PROVE j = k
    <3>1. j \in DOMAIN vm /\ j <= w /\ w < Limit(vm, j)
      BY <2>3 DEF Covers
    <3>2. (j < k => Limit(vm, j) <= k) /\ (k < j => Limit(vm, k) <= j)
      BY <3>1 DEF GoodMap
    <3> QED BY <2>1, <2>2, <2>3, <3>1, <3>2
  <2>4. CASE w \in Span(v, size)
    <3>1. k <= w /\ w < Limit(vm, k) /\ w < v + n
      BY <1>1, <1>3, <2>1, <2>4
    <3>2. ASSUME NEW j, Covers(r, j, w) PROVE FALSE
      <4>1. j \in DOMAIN r /\ j <= w /\ w < Limit(r, j)
        BY <3>2 DEF Covers
      <4>2. CASE j = k /\ k < v
        BY <1>1, <1>6, <2>1, <2>4, <4>1, <4>2
      <4>3. CASE j \in DOMAIN vm /\ j # k
        <5>1. Covers(vm, j, w)
          BY <1>6, <4>1, <4>3 DEF Covers
        <5> QED BY <2>3, <3>1, <4>3, <5>1
      <4>4. CASE j = v + n
        BY <1>1, <2>1, <3>1, <4>1, <4>4
      <4> QED BY <1>5, <4>1, <4>2, <4>3, <4>4
    <3> QED BY <1>4, <2>4, <3>2, NotCovered
  <2>5. CASE w \notin Span(v, size)
    <3>1. ASSUME NEW j, Covers(vm, j, w)
          PROVE  \E i : Covers(r, i, w) /\ PageAt(r, i, w) = PageAt(vm, j, w)
      <4>1. j \in DOMAIN vm /\ j <= w /\ w < Limit(vm, j)
        BY <3>1 DEF Covers
      <4>2. CASE j # k
        <5>1. Covers(r, j, w)
          BY <1>5, <1>6, <4>1, <4>2 DEF Covers
        <5>2. PageAt(r, j, w) = PageAt(vm, j, w)
          BY <1>5, <4>1, <4>2 DEF PageAt
        <5> QED BY <5>1, <5>2
      <4>3. CASE j = k /\ w < v
        <5>1. k < v
          BY <1>1, <2>1, <4>1, <4>3
        <5>2. Covers(r, k, w)
          BY <1>5, <1>6, <4>1, <4>3, <5>1 DEF Covers
        <5>3. PageAt(r, k, w) = PageAt(vm, k, w)
          BY <1>5, <5>1 DEF PageAt
        <5> QED BY <4>3, <5>2, <5>3
      <4>4. CASE j = k /\ ~(w < v)
        <5>1. v + size <= w
          BY <1>1, <1>3, <2>1, <2>5, <4>4
        <5>2. size = n /\ s - cut > n
          BY <1>1, <1>2, <1>3, <2>1, <4>1, <4>4, <5>1
        <5>3. Covers(r, v + n, w)
          BY <1>1, <1>5, <1>6, <4>1, <4>4, <5>1, <5>2 DEF Covers
        <5>4. vm[k].phys + (cut + n) + w - (v + n) = vm[k].phys + w - k
          BY <1>1, <1>2, <2>1
        <5>5. r[v + n].phys = vm[k].phys + (cut + n) /\ r[v + n].perm = vm[k].perm
          BY <1>5, <5>2
        <5>6. PageAt(r, v + n, w) = PageAt(vm, k, w)
          BY <5>4, <5>5 DEF PageAt
        <5> QED BY <4>4, <5>3, <5>6
      <4> QED BY <4>2, <4>3, <4>4
    <3>2. ASSUME NEW j, Covers(r, j, w) PROVE \E i : Covers(vm, i, w)
      <4>1. j \in DOMAIN r /\ j <= w /\ w < Limit(r, j)
        BY <3>2 DEF Covers
      <4>2. CASE j = k /\ k < v
        <5>1. Covers(vm, k, w)
          BY <1>1, <1>6, <2>1, <4>1, <4>2 DEF Covers
        <5> QED BY <5>1
      <4>3. CASE j \in DOMAIN vm /\ j # k
        <5>1. Covers(vm, j, w)
          BY <1>6, <4>1, <4>3 DEF Covers
        <5> QED BY <5>1
      <4>4. CASE j = v + n /\ s - cut > n
        <5>1. Covers(vm, k, w)
          BY <1>1, <1>6, <2>1, <4>1, <4>4 DEF Covers
        <5> QED BY <5>1
      <4> QED BY <1>5, <4>1, <4>2, <4>3, <4>4
    <3>3. CASE \E j : Covers(vm, j, w)
      <4>1. PICK j : Covers(vm, j, w)
        BY <3>3
      <4>2. PICK i : Covers(r, i, w) /\ PageAt(r, i, w) = PageAt(vm, j, w)
        BY <3>1, <4>1
      <4>3. EntryIn(vm, w) = PageAt(vm, j, w)
        BY <4>1, Covered
      <4>4. EntryIn(r, w) = PageAt(r, i, w)
        BY <1>4, <4>2, Covered
      <4> QED BY <2>5, <4>2, <4>3, <4>4
    <3>4. CASE \A j : ~Covers(vm, j, w)
      <4>1. EntryIn(vm, w) = Nowhere
        BY <3>4, NotCovered
      <4>2. \A j : ~Covers(r, j, w)
        BY <3>2, <3>4
      <4>3. EntryIn(r, w) = Nowhere
        BY <1>4, <4>2, NotCovered
      <4> QED BY <2>5, <4>1, <4>3
    <3> QED BY <3>3, <3>4
  <2> QED BY <2>4, <2>5
<1>8. size \in 1..n
  BY <1>1, <1>3
<1> QED BY <1>7, <1>8

-----------------------------------------------------------------------------
(* The search for a free range.                                             *)

(* The candidate c after the mappings that start below a: it is behind all *)
(* that are in its way, and every earlier address has one in its way.      *)
Hits(x, n, j) == j \in DOMAIN vm /\ j < x + n /\ x < Limit(vm, j)
SearchInv(c, a, n, from) ==
    /\ c \in Nat /\ from <= c
    /\ \A j \in DOMAIN vm : j < a => Limit(vm, j) <= c \/ c + n <= j
    /\ \A x \in Nat : from <= x /\ x < c => \E j : Hits(x, n, j)

(* One iteration of the loop. *)
LEMMA SearchStep ==
    ASSUME GoodMap(vm), NEW from \in Nat, NEW n \in Nat, n >= 1, NEW a \in Nat, NEW c, SearchInv(c, a, n, from),
           NEW d, d = IF a \in DOMAIN vm THEN Behind(c, a, n) ELSE c
    PROVE  SearchInv(d, a + 1, n, from)
<1>1. /\ c \in Nat /\ from <= c
      /\ \A j \in DOMAIN vm : j < a => Limit(vm, j) <= c \/ c + n <= j
      /\ \A x \in Nat : from <= x /\ x < c => \E j : Hits(x, n, j)
  BY DEF SearchInv
<1>2. \A j \in DOMAIN vm : j \in Nat /\ Limit(vm, j) \in Nat /\ j < Limit(vm, j)
  BY MappingFacts
<1>3. \A j \in Nat : j < a + 1 <=> j < a \/ j = a
  OBVIOUS
<1>4. CASE a \notin DOMAIN vm
  <2>1. d = c
    BY <1>4
  <2>2. \A j \in DOMAIN vm : j < a + 1 => Limit(vm, j) <= c \/ c + n <= j
    BY <1>1, <1>2, <1>3, <1>4
  <2> QED BY <1>1, <2>1, <2>2 DEF SearchInv
<1>5. CASE a \in DOMAIN vm /\ Limit(vm, a) >= c /\ a < c + n
  <2>1. d = Limit(vm, a)
    BY <1>5 DEF Behind, End, Limit
  <2>2. d \in Nat /\ from <= d /\ c <= d
    BY <1>1, <1>2, <1>5, <2>1
  <2>3. ASSUME NEW j \in DOMAIN vm, j < a + 1 PROVE Limit(vm, j) <= d
    <3>1. j < a => Limit(vm, j) <= a
      BY <1>5 DEF GoodMap
    <3> QED BY <1>2, <1>3, <1>5, <2>1, <2>3, <3>1
  <2>4. ASSUME NEW x \in Nat, from <= x, x < d PROVE \E j : Hits(x, n, j)
    <3>1. CASE x < c
      BY <1>1, <2>4, <3>1
    <3>2. CASE c <= x
      <4>1. Hits(x, n, a)
        BY <1>1, <1>2, <1>5, <2>1, <2>4, <3>2 DEF Hits
      <4> QED BY <4>1
    <3> QED BY <1>1, <3>1, <3>2
  <2> QED BY <2>2, <2>3, <2>4 DEF SearchInv
<1>6. CASE a \in DOMAIN vm /\ ~(Limit(vm, a) >= c /\ a < c + n)
  <2>1. d = c
    BY <1>6 DEF Behind, End, Limit
  <2>2. Limit(vm, a) <= c \/ c + n <= a
    BY <1>1, <1>2, <1>6
  <2>3. \A j \in DOMAIN vm : j < a + 1 => Limit(vm, j) <= c \/ c + n <= j
    BY <1>1, <1>2, <1>3, <2>2
  <2> QED BY <1>1, <2>1, <2>3 DEF SearchInv
<1> QED BY <1>4, <1>5, <1>6

(* The whole loop. *)
LEMMA Search ==
    ASSUME GoodMap(vm), NEW from \in Nat, NEW n \in Nat, n >= 1
    PROVE  \E c : /\ SearchInv(c, VPages, n, from)
                  /\ \A to : FindAvailableVirtualMemory(n, from, to) =
                                 IF c + n > to THEN Unmapped ELSE c
<1> DEFINE Step(f, a) == IF a = 0 THEN from
                         ELSE IF a - 1 \in DOMAIN vm THEN Behind(f[a - 1], a - 1, n)
                         ELSE f[a - 1]
           N == VPages
           G == {b \in 0..N : \E f \in [0..b -> Nat] : f = [a \in 0..b |-> Step(f, a)]}
<1>1. N \in Nat
  BY AddressSpaceAssumption
<1> HIDE DEF N
<1>2. 0 \in G
  <2> DEFINE f == [a \in 0..0 |-> from]
  <2>1. f \in [0..0 -> Nat] /\ f = [a \in 0..0 |-> Step(f, a)]
    OBVIOUS
  <2> HIDE DEF f, Step
  <2>2. 0 \in 0..N
    BY <1>1
  <2> QED BY <2>1, <2>2
<1>3. ASSUME NEW b \in 1..N, b - 1 \in G PROVE b \in G
  <2>1. PICK f \in [0..(b - 1) -> Nat] : f = [a \in 0..(b - 1) |-> Step(f, a)]
    BY <1>3
  <2>2. b - 1 \in 0..(b - 1) /\ b \in 0..N /\ f[b - 1] \in Nat
    BY <1>1
  <2> DEFINE g == [a \in 0..b |-> IF a < b THEN f[a] ELSE Step(f, b)]
  <2>3. Step(f, b) \in Nat
    <3>1. Step(f, b) = IF b - 1 \in DOMAIN vm THEN Behind(f[b - 1], b - 1, n) ELSE f[b - 1]
      BY <1>1
    <3>2. b - 1 \in DOMAIN vm => Limit(vm, b - 1) \in Nat
      BY MappingFacts
    <3> QED BY <2>2, <3>1, <3>2 DEF Behind, End, Limit
  <2>4. g \in [0..b -> Nat]
    <3> HIDE DEF Step
    <3> QED BY <1>1, <2>3
  <2>5. ASSUME NEW a \in 0..b PROVE g[a] = Step(g, a)
    <3>1. a # 0 => a - 1 \in 0..b /\ g[a - 1] = f[a - 1]
      BY <1>1, <2>1
    <3>2. CASE a < b
      <4>1. a \in 0..(b - 1) /\ g[a] = f[a]
        BY <1>1, <3>2
      <4>2. f[a] = Step(f, a)
        <5> HIDE DEF Step
        <5> QED BY <2>1, <4>1
      <4>3. Step(f, a) = Step(g, a)
        BY <3>1
      <4> QED BY <4>1, <4>2, <4>3
    <3>3. CASE a = b
      <4>1. g[a] = Step(f, b)
        <5> HIDE DEF Step
        <5> QED BY <1>1, <3>3
      <4>2. Step(f, b) = Step(g, b)
        BY <3>1, <3>3
      <4> QED BY <3>3, <4>1, <4>2
    <3> QED BY <1>1, <3>2, <3>3
  <2> HIDE DEF g, Step
  <2>6. g = [a \in 0..b |-> Step(g, a)]
    BY <2>4, <2>5
  <2> QED BY <2>2, <2>4, <2>6
<1>4. \E f : f = [a \in 0..N |-> Step(f, a)]
  <2>1. N \in G
    <3> HIDE DEF G
    <3>1. \A b \in 0..N : b \in G
      BY <1>1, <1>2, <1>3, UpTo
    <3> QED BY <1>1, <3>1
  <2> QED BY <2>1
<1> DEFINE F == CHOOSE f : f = [a \in 0..N |-> Step(f, a)]
<1>5. F = [a \in 0..N |-> Step(F, a)]
  <2> HIDE DEF Step
  <2> QED BY <1>4
<1>6. \A to : FindAvailableVirtualMemory(n, from, to) = IF F[N] + n > to THEN Unmapped ELSE F[N]
  BY DEF FindAvailableVirtualMemory, N
<1> HIDE DEF F
<1> DEFINE H == {a \in 0..N : SearchInv(F[a], a, n, from)}
<1>7. 0 \in H
  <2>1. 0 \in 0..N /\ F[0] = Step(F, 0)
    <3> HIDE DEF Step
    <3> QED BY <1>1, <1>5
  <2>2. F[0] = from
    BY <2>1
  <2>3. \A j \in DOMAIN vm : ~(j < 0)
    <3>1. \A j \in DOMAIN vm : j \in Nat
      BY MappingFacts
    <3> QED BY <3>1
  <2>4. SearchInv(from, 0, n, from)
    BY <2>3 DEF SearchInv
  <2> QED BY <2>1, <2>2, <2>4
<1>8. ASSUME NEW b \in 1..N, b - 1 \in H PROVE b \in H
  <2>1. PICK a : a = b - 1
    OBVIOUS
  <2>2. a \in Nat /\ a + 1 = b /\ b \in 0..N /\ b # 0
    BY <1>1, <2>1
  <2>3. SearchInv(F[a], a, n, from)
    BY <1>8, <2>1
  <2>4. F[b] = Step(F, b)
    <3> HIDE DEF Step
    <3> QED BY <1>5, <2>2
  <2>5. F[b] = IF a \in DOMAIN vm THEN Behind(F[a], a, n) ELSE F[a]
    BY <2>1, <2>2, <2>4
  <2>6. SearchInv(F[b], a + 1, n, from)
    BY <2>2, <2>3, <2>5, SearchStep
  <2> QED BY <2>2, <2>6
<1>9. N \in H
  <2> HIDE DEF H
  <2>1. \A b \in 0..N : b \in H
    BY <1>1, <1>7, <1>8, UpTo
  <2> QED BY <1>1, <2>1
<1>10. SearchInv(F[N], N, n, from)
  BY <1>9
<1> QED BY <1>6, <1>10 DEF N

(* It finds the first free range within the bounds, if there is one. *)
LEMMA FindResult ==
    ASSUME GoodMap(vm), NEW from \in Nat, NEW n \in Nat, n >= 1, NEW to \in Nat,
           NEW at, at = FindAvailableVirtualMemory(n, from, to)
    PROVE  /\ at = Unmapped => \A x \in Nat : from <= x /\ x + n <= to => \E j : Hits(x, n, j)
           /\ at # Unmapped => /\ at \in Nat /\ from <= at /\ at + n <= to /\ Free(vm, at, n)
                               /\ \A x \in Nat : from <= x /\ x < at => \E j : Hits(x, n, j)
<1>1. PICK c : SearchInv(c, VPages, n, from) /\ at = IF c + n > to THEN Unmapped ELSE c
  BY Search
<1>2. /\ c \in Nat /\ from <= c
      /\ \A j \in DOMAIN vm : j < VPages => Limit(vm, j) <= c \/ c + n <= j
      /\ \A x \in Nat : from <= x /\ x < c => \E j : Hits(x, n, j)
  BY <1>1 DEF SearchInv
<1>3. c # Unmapped
  BY <1>2 DEF Unmapped
<1>4. Free(vm, c, n)
  BY <1>2, MappingFacts DEF Free
<1>5. CASE c + n > to
  <2>1. at = Unmapped
    BY <1>1, <1>5
  <2>2. \A x \in Nat : x + n <= to => x < c
    BY <1>2, <1>5
  <2> QED BY <1>2, <2>1, <2>2
<1>6. CASE ~(c + n > to)
  <2>1. at = c /\ c + n <= to
    BY <1>1, <1>2, <1>6
  <2> QED BY <1>2, <1>3, <1>4, <2>1
<1> QED BY <1>5, <1>6

(* A mapping in the way covers a page of the range. *)
LEMMA HitsCovers ==
    ASSUME GoodMap(vm), NEW x \in Nat, NEW n \in Nat, n >= 1, x + n <= VPages
    PROVE  /\ Span(x, n) \subseteq VPage
           /\ (\E j : Hits(x, n, j)) <=> \E w \in Span(x, n) : EntryIn(vm, w) # Nowhere
<1>1. Span(x, n) \subseteq VPage
  BY AddressSpaceAssumption DEF Span, VPage
<1>2. ASSUME NEW j, Hits(x, n, j) PROVE \E w \in Span(x, n) : EntryIn(vm, w) # Nowhere
  <2>1. j \in DOMAIN vm /\ j < x + n /\ x < Limit(vm, j) /\ j \in Nat /\ j < Limit(vm, j)
        /\ Limit(vm, j) \in Nat
    BY <1>2, MappingFacts DEF Hits
  <2>2. PICK e : e = Limit(vm, j)
    OBVIOUS
  <2>3. \E w \in Nat : x <= w /\ w < x + n /\ j <= w /\ w < e
    <3>1. CASE j < x
      <4>1. x <= x /\ x < x + n /\ j <= x /\ x < e
        BY <2>1, <2>2, <3>1
      <4> QED BY <4>1
    <3>2. CASE x <= j
      <4>1. j <= j
        BY <2>1
      <4> QED BY <2>1, <2>2, <3>2, <4>1
    <3> QED BY <2>1, <3>1, <3>2
  <2>4. PICK w \in Nat : x <= w /\ w < x + n /\ j <= w /\ w < e
    BY <2>3
  <2>5. w \in Span(x, n) /\ Covers(vm, j, w)
    BY <2>1, <2>2, <2>4 DEF Span, Covers
  <2>6. w \in VPage
    BY <1>1, <2>5
  <2> QED BY <2>5, <2>6, MappedIffCovered
<1>3. ASSUME NEW w \in Span(x, n), EntryIn(vm, w) # Nowhere PROVE \E j : Hits(x, n, j)
  <2>1. w \in VPage /\ x <= w /\ w < x + n /\ w \in Nat
    BY <1>1 DEF Span
  <2>2. PICK j : Covers(vm, j, w)
    BY <1>3, <2>1, MappedIffCovered
  <2>3. j \in DOMAIN vm /\ j <= w /\ w < Limit(vm, j) /\ j \in Nat /\ Limit(vm, j) \in Nat
    BY <2>2, MappingFacts DEF Covers
  <2>4. Hits(x, n, j)
    BY <2>1, <2>3 DEF Hits
  <2> QED BY <2>4
<1> QED BY <1>1, <1>2, <1>3

(* The least element of a set of numbers is the only one below all others. *)
LEMMA LeastIs ==
    ASSUME NEW T \in SUBSET Nat, NEW x \in T, \A y \in T : x <= y
    PROVE  Min(T) = x
<1>1. Min(T) \in T /\ \A y \in T : Min(T) <= y
  BY LeastOf
<1>2. Min(T) \in Nat /\ x \in Nat /\ Min(T) <= x /\ x <= Min(T)
  BY <1>1
<1> QED BY <1>2

(* So FindsFirst holds of every good map. *)
LEMMA GoodFindsFirst == GoodMap(vm) => FindsFirst
<1> SUFFICES ASSUME GoodMap(vm), NEW n \in 1..MaxSize, NEW from \in VPage, NEW to \in 0..VPages
             PROVE  LET free == {v \in from..(to - n) : \A w \in Span(v, n) : Entry(w) = Nowhere}
                    IN  FindAvailableVirtualMemory(n, from, to) =
                            IF free = {} THEN Unmapped ELSE Min(free)
  BY DEF FindsFirst
<1> DEFINE free == {v \in from..(to - n) : \A w \in Span(v, n) : Entry(w) = Nowhere}
<1>1. PICK at : at = FindAvailableVirtualMemory(n, from, to)
  OBVIOUS
<1>2. n \in Nat /\ n >= 1 /\ from \in Nat /\ to \in Nat /\ to <= VPages /\ VPages \in Nat
  BY AddressSpaceAssumption DEF VPage
<1>3. /\ at = Unmapped => \A x \in Nat : from <= x /\ x + n <= to => \E j : Hits(x, n, j)
      /\ at # Unmapped => /\ at \in Nat /\ from <= at /\ at + n <= to /\ Free(vm, at, n)
                          /\ \A x \in Nat : from <= x /\ x < at => \E j : Hits(x, n, j)
  BY <1>1, <1>2, FindResult
<1>4. ASSUME NEW x
      PROVE  x \in free <=> x \in Nat /\ from <= x /\ x + n <= to /\ ~\E j : Hits(x, n, j)
  <2>1. x \in from..(to - n) <=> x \in Nat /\ from <= x /\ x + n <= to
    BY <1>2
  <2>2. ASSUME x \in Nat, x + n <= to
        PROVE  (\A w \in Span(x, n) : Entry(w) = Nowhere) <=> ~\E j : Hits(x, n, j)
    <3>1. x + n <= VPages
      BY <1>2, <2>2
    <3> QED BY <1>2, <2>2, <3>1, HitsCovers, EntryOfMap
  <2> QED BY <2>1, <2>2
<1> HIDE DEF free
<1>5. free \in SUBSET Nat
  BY <1>4
<1>6. CASE at = Unmapped
  <2>1. free = {}
    BY <1>3, <1>4, <1>6
  <2> QED BY <1>1, <1>6, <2>1 DEF free
<1>7. CASE at # Unmapped
  <2>1. at \in Nat /\ \A j : ~Hits(at, n, j)
    <3> SUFFICES ASSUME NEW j, Hits(at, n, j) PROVE FALSE
      BY <1>3, <1>7
    <3>1. j \in DOMAIN vm /\ j < at + n /\ at < Limit(vm, j) /\ at \in Nat
      BY <1>3, <1>7 DEF Hits
    <3>2. Limit(vm, j) <= at \/ at + n <= j
      BY <1>3, <1>7, <3>1 DEF Free
    <3>3. Limit(vm, j) \in Nat /\ j \in Nat
      BY <3>1, MappingFacts
    <3> QED BY <1>2, <3>1, <3>2, <3>3
  <2>2. at \in free
    BY <1>3, <1>4, <1>7, <2>1
  <2>3. ASSUME NEW x \in free PROVE at <= x
    <3>1. x \in Nat /\ ~(from <= x /\ x < at) /\ from <= x
      BY <1>3, <1>4, <1>7
    <3> QED BY <2>1, <3>1
  <2>4. Min(free) = at
    BY <1>5, <2>2, <2>3, LeastIs
  <2> QED BY <1>1, <2>2, <2>4 DEF free
<1> QED BY <1>6, <1>7

-----------------------------------------------------------------------------
(* The calls that are left.                                                 *)

UnmapCall == {t \in [op : {"unmap"}, v : VPage, n : 1..VPages, must : BOOLEAN] : t.v + t.n <= VPages}
MapCall == {t \in [op : {"map"}, p : PPage, v : VPage, n : 1..VPages, perm : Perm] :
               t.v + t.n <= VPages /\ t.p + t.n <= PPages}

(* A system call unmaps, or maps, or does one after the other. *)
CallsOK(q) ==
    \/ q = <<>>
    \/ \E t \in UnmapCall \cup MapCall : q = <<t>>
    \/ \E t \in UnmapCall, u \in MapCall : q = <<t, u>>

(* The fields of a call of MapVirtualMemory. *)
LEMMA MapFields ==
    ASSUME NEW t \in MapCall
    PROVE  /\ t.op = "map" /\ t.p \in PPage /\ t.v \in VPage /\ t.n \in 1..VPages /\ t.perm \in Perm
           /\ t.v + t.n <= VPages /\ t.p + t.n <= PPages
           /\ t = Map(t.p, t.v, t.n, t.perm)
BY DEF MapCall, Map

(* The fields of a call of UnmapVirtualMemory. *)
LEMMA UnmapFields ==
    ASSUME NEW t \in UnmapCall
    PROVE  /\ t.op = "unmap" /\ t.v \in VPage /\ t.n \in 1..VPages /\ t.v + t.n <= VPages
           /\ t.must \in BOOLEAN
BY DEF UnmapCall

(* Map makes such a call. *)
LEMMA MapIsCall ==
    ASSUME NEW p \in PPage, NEW v \in VPage, NEW n \in 1..VPages, NEW perm \in Perm,
           v + n <= VPages, p + n <= PPages
    PROVE  Map(p, v, n, perm) \in MapCall
BY DEF Map, MapCall

(* So does Unmap. *)
LEMMA UnmapIsCall ==
    ASSUME NEW v \in VPage, NEW n \in 1..VPages, NEW must \in BOOLEAN, v + n <= VPages
    PROVE  Unmap(v, n, must) \in UnmapCall
BY DEF Unmap, UnmapCall

(* The call that is made next, and what is left then. *)
LEMMA NextCall ==
    ASSUME NEW q, CallsOK(q), q # <<>>
    PROVE  /\ Head(q).op = "map" => Head(q) \in MapCall /\ q = <<Head(q)>> /\ Tail(q) = <<>>
           /\ Head(q).op = "unmap" =>
                 /\ Head(q) \in UnmapCall
                 /\ \/ Tail(q) = <<>> /\ q = <<Head(q)>>
                    \/ \E u \in MapCall : Tail(q) = <<u>> /\ q = <<Head(q), u>>
           /\ CallsOK(Tail(q))
<1>1. CASE \E t \in UnmapCall \cup MapCall : q = <<t>>
  <2>1. PICK t \in UnmapCall \cup MapCall : q = <<t>>
    BY <1>1
  <2>2. Head(q) = t /\ Tail(q) = <<>>
    BY <2>1
  <2>3. t.op = "map" => t \in MapCall
    BY <2>1, UnmapFields
  <2>4. t.op = "unmap" => t \in UnmapCall
    BY <2>1, MapFields
  <2> QED BY <2>1, <2>2, <2>3, <2>4 DEF CallsOK
<1>2. CASE \E t \in UnmapCall, u \in MapCall : q = <<t, u>>
  <2>1. PICK t \in UnmapCall, u \in MapCall : q = <<t, u>>
    BY <1>2
  <2>2. Head(q) = t /\ Tail(q) = <<u>>
    BY <2>1
  <2>3. t.op = "unmap"
    BY <2>1, UnmapFields
  <2>4. CallsOK(Tail(q))
    BY <2>1, <2>2 DEF CallsOK
  <2> QED BY <2>1, <2>2, <2>3, <2>4
<1> QED BY <1>1, <1>2 DEF CallsOK

(* Lists of one and two calls. *)
LEMMA Joined ==
    ASSUME NEW x, NEW y
    PROVE  <<x>> \o <<>> = <<x>> /\ <<x>> \o <<y>> = <<x, y>>
<1> DEFINE S == {x, y}
<1>1. <<x>> \in Seq(S) /\ y \in S
  OBVIOUS
<1>2. <<x>> \o <<>> = <<x>>
  BY <1>1, ConcatEmptySeq
<1>3. Append(<<x>>, y) = <<x>> \o <<y>>
  BY <1>1, AppendIsConcat
<1>4. Append(<<x>>, y) = <<x, y>>
  <2>1. /\ Append(<<x>>, y) \in Seq(S) /\ Len(Append(<<x>>, y)) = 2
        /\ Append(<<x>>, y)[1] = x /\ Append(<<x>>, y)[2] = y
    BY <1>1, AppendProperties
  <2>2. <<x, y>> \in Seq(S) /\ Len(<<x, y>>) = 2 /\ <<x, y>>[1] = x /\ <<x, y>>[2] = y
    BY <1>1
  <2>3. \A i \in 1..2 : i = 1 \/ i = 2
    OBVIOUS
  <2>4. \A i \in 1..Len(Append(<<x>>, y)) : Append(<<x>>, y)[i] = <<x, y>>[i]
    BY <2>1, <2>2, <2>3
  <2> HIDE DEF S
  <2> QED BY <2>1, <2>2, <2>4, SeqEqual
<1> QED BY <1>2, <1>3, <1>4

(* What a recursion of UnmapVirtualMemory leaves to do. *)
LEMMA RestOfCall ==
    ASSUME NEW q, CallsOK(q), q # <<>>, Head(q).op = "unmap", NEW t \in UnmapCall
    PROVE  CallsOK(<<t>> \o Tail(q))
<1>1. Tail(q) = <<>> \/ \E u \in MapCall : Tail(q) = <<u>>
  BY NextCall
<1>2. CASE Tail(q) = <<>>
  <2>1. <<t>> \o Tail(q) = <<t>>
    BY <1>2, Joined
  <2> QED BY <2>1 DEF CallsOK
<1>3. CASE \E u \in MapCall : Tail(q) = <<u>>
  <2>1. PICK u \in MapCall : Tail(q) = <<u>>
    BY <1>3
  <2>2. <<t>> \o Tail(q) = <<t, u>>
    BY <2>1, Joined
  <2> QED BY <2>2 DEF CallsOK
<1> QED BY <1>1, <1>2, <1>3

-----------------------------------------------------------------------------
(* The map and the calls stay in order, whatever the programs do.           *)

PageTypes ==
    /\ physical \in [VPage -> PPage \cup {Unmapped}]
    /\ virtual \in [PPage -> Seq(VPage)]
    /\ host \subseteq VPage
PagesOK == pages \in [VPage -> [phys : PPage, perm : Perm] \cup {Nowhere}]

Inv == /\ GoodMap(vm) /\ CallsOK(todo)
       /\ PageTypes /\ PagesOK
       /\ hooked \subseteq PPage /\ allocated \subseteq PPage

(* Mappings that follow each other do not overlap. *)
LEMMA GoodNoOverlap == GoodMap(vm) => NoOverlap
BY DEF GoodMap, NoOverlap, End, Limit

(* The invariant has the types. *)
LEMMA InvTypes == Inv => TypeOK
<1> SUFFICES ASSUME Inv PROVE TypeOK
  OBVIOUS
<1>1. DOMAIN vm \subseteq VPage
  BY DEF Inv, GoodMap
<1>2. ASSUME NEW k \in DOMAIN vm
      PROVE  vm[k].phys \in PPage /\ vm[k].size \in 1..VPages /\ vm[k].perm \in Perm
  <2>1. vm[k] \in Mapping
    BY DEF Inv, GoodMap
  <2> QED BY <2>1 DEF Mapping
<1>3. PageTypes /\ hooked \cup allocated \subseteq PPage
  BY DEF Inv
<1>4. \A v \in VPage : pages[v] = Nowhere \/ pages[v] \in [phys : PPage, perm : Perm]
  BY DEF Inv, PagesOK
<1> QED BY <1>1, <1>2, <1>3, <1>4 DEF TypeOK, PageTypes

(* A process starts with an empty map. *)
LEMMA InitInv == Init => Inv
<1> SUFFICES ASSUME Init PROVE Inv
  OBVIOUS
<1>1. GoodMap(vm)
  <2>1. vm = <<>> /\ DOMAIN vm = {}
    BY DEF Init
  <2>2. vm = [k \in DOMAIN vm |-> vm[k]]
    BY <2>1
  <2> QED BY <2>1, <2>2 DEF GoodMap
<1>2. CallsOK(todo)
  BY DEF Init, CallsOK
<1>3. PageTypes
  <2>1. <<>> \in Seq(VPage)
    BY EmptySeq
  <2> QED BY <2>1 DEF Init, PageTypes
<1>4. PagesOK
  BY DEF Init, PagesOK
<1> QED BY <1>1, <1>2, <1>3, <1>4 DEF Init, Inv

(* The page that With makes of a page that is mapped. *)
LEMMA WithIs ==
    ASSUME NEW perm \in Perm, NEW x \in [phys : PPage, perm : Perm] \cup {Nowhere}
    PROVE  /\ With(perm, x) \in [phys : PPage, perm : Perm] \cup {Nowhere}
           /\ x.phys # Unmapped => With(perm, x) = [phys |-> x.phys, perm |-> perm]
           /\ x.phys = Unmapped <=> x = Nowhere
<1>1. Nowhere.phys = Unmapped
  BY DEF Nowhere
<1>2. CASE x = Nowhere
  BY <1>1, <1>2 DEF With
<1>3. CASE x # Nowhere
  <2>1. PICK p \in PPage, q \in Perm : x = [phys |-> p, perm |-> q]
    BY <1>3
  <2>2. x.phys = p /\ p # Unmapped
    BY <2>1, AddressSpaceAssumption DEF PPage, Unmapped
  <2>3. With(perm, x) = [[phys |-> p, perm |-> q] EXCEPT !.perm = perm]
    BY <1>3, <2>1 DEF With
  <2>4. With(perm, x) = [phys |-> p, perm |-> perm]
    BY <2>3
  <2>5. With(perm, x) \in [phys : PPage, perm : Perm]
    BY <2>4
  <2> QED BY <1>3, <2>2, <2>4, <2>5
<1> QED BY <1>2, <1>3

(* An address of the map that is resolved is a physical page. *)
LEMMA Resolved ==
    ASSUME GoodMap(vm), NEW v \in VPage
    PROVE  /\ ResolveVirtualAddr(v) = EntryIn(vm, v).phys
           /\ ResolveVirtualAddr(v) # Unmapped => ResolveVirtualAddr(v) \in PPage
<1>1. ResolveVirtualAddr(v) = EntryIn(vm, v).phys
  BY EntryOfMap DEF ResolveVirtualAddr
<1>2. EntryIn(vm, v) = Nowhere \/ EntryIn(vm, v) \in [phys : PPage, perm : Perm]
  BY MappedIffCovered
<1> QED BY <1>1, <1>2 DEF Nowhere

(* MapVirtualMemory maps a range only if no mapping is in the way. *)
LEMMA MapPreserves ==
    ASSUME Inv, MapVirtualMemory
    PROVE  Inv'
<1>1. todo # <<>> /\ Head(todo).op = "map" /\ todo' = Tail(todo)
      /\ hooked' = hooked /\ allocated' = allocated /\ pages' = pages
  BY DEF MapVirtualMemory
<1>2. PICK t : t = Head(todo) /\ t \in MapCall /\ CallsOK(Tail(todo))
  BY <1>1, NextCall DEF Inv
<1>3. /\ t.p \in PPage /\ t.v \in VPage /\ t.n \in 1..VPages /\ t.perm \in Perm
      /\ t.v + t.n <= VPages /\ t.p + t.n <= PPages
  BY <1>2, MapFields
<1>4. \/ UNCHANGED <<vm, physical, virtual, host>>
      \/ /\ ~Taken(t.v, t.n)
         /\ vm' = Merged(Single(t.v, [phys |-> t.p, size |-> t.n, perm |-> t.perm]), vm)
         /\ InsertPages(t.p, t.v, t.n)
  BY <1>2 DEF MapVirtualMemory, Fail
<1>5. PagesOK' /\ CallsOK(todo')
  BY <1>1, <1>2 DEF Inv, PagesOK
<1>6. CASE UNCHANGED <<vm, physical, virtual, host>>
  <2>1. GoodMap(vm') /\ PageTypes'
    BY <1>6 DEF Inv, PageTypes
  <2> QED BY <1>1, <1>5, <2>1 DEF Inv
<1>7. CASE /\ ~Taken(t.v, t.n)
           /\ vm' = Merged(Single(t.v, [phys |-> t.p, size |-> t.n, perm |-> t.perm]), vm)
           /\ InsertPages(t.p, t.v, t.n)
  <2>0. /\ t.v \in Nat /\ t.n \in Nat /\ t.n >= 1 /\ t.p \in Nat
        /\ VPages \in Nat /\ PPages \in Nat
    BY <1>3, AddressSpaceAssumption DEF VPage, PPage
  <2>1. Free(vm, t.v, t.n)
    BY <1>7, <2>0, NotTaken DEF Inv
  <2>2. GoodMap(vm')
    BY <1>3, <1>7, <2>1, MapAdds DEF Inv
  <2>3. physical' \in [VPage -> PPage \cup {Unmapped}]
    <3>1. \A w \in VPage : w \in Span(t.v, t.n) => t.p + w - t.v \in PPage
      BY <1>3, <2>0 DEF VPage, PPage, Span
    <3>2. physical' = [w \in VPage |-> IF w \in Span(t.v, t.n) THEN t.p + w - t.v ELSE physical[w]]
      BY <1>7 DEF InsertPages
    <3> QED BY <3>1, <3>2 DEF Inv, PageTypes
  <2>4. virtual' \in [PPage -> Seq(VPage)]
    <3>1. \A q \in PPage : q \in Span(t.p, t.n) => t.v + q - t.p \in VPage
      BY <1>3, <2>0 DEF VPage, PPage, Span
    <3>2. virtual' = [q \in PPage |-> IF q \in Span(t.p, t.n)
                                      THEN Append(virtual[q], t.v + q - t.p) ELSE virtual[q]]
      BY <1>7 DEF InsertPages
    <3>3. \A q \in PPage : virtual[q] \in Seq(VPage)
      BY DEF Inv, PageTypes
    <3>4. \A q \in PPage : q \in Span(t.p, t.n) => Append(virtual[q], t.v + q - t.p) \in Seq(VPage)
      BY <3>1, <3>3, AppendProperties
    <3> QED BY <3>2, <3>3, <3>4
  <2>5. host' \subseteq VPage
    <3>1. Span(t.v, t.n) \subseteq VPage
      BY <1>3, <2>0 DEF VPage, Span
    <3> QED BY <1>7, <3>1 DEF InsertPages, Inv, PageTypes
  <2> QED BY <1>1, <1>5, <2>2, <2>3, <2>4, <2>5 DEF Inv, PageTypes
<1> QED BY <1>4, <1>6, <1>7

(* The recursion that UnmapVirtualMemory makes: nothing of the range is    *)
(* mapped, or a mapping k is cut.                                          *)
LEMMA AffectedIs ==
    ASSUME Inv, UnmapVirtualMemory
    PROVE  \E t \in UnmapCall :
              /\ todo # <<>> /\ t = Head(todo) /\ t.op = "unmap"
              /\ \/ UNCHANGED <<vm, physical, virtual, host>> /\ todo' = Tail(todo)
                 \/ \E k \in DOMAIN vm, size \in 1..t.n :
                       /\ t.v < Limit(vm, k) /\ k < t.v + t.n
                       /\ size = Min({Limit(vm, k) - (IF k < t.v THEN t.v ELSE k), t.n})
                       /\ vm' = CutMap(k, t.v, t.n)
                       /\ RemovePages(IF k < t.v THEN t.v ELSE k, size)
                       /\ todo' = IF t.n > size
                                  THEN <<Unmap(t.v + size, t.n - size, t.must)>> \o Tail(todo)
                                  ELSE Tail(todo)
<1>1. todo # <<>> /\ Head(todo).op = "unmap" /\ CallsOK(todo)
  BY DEF UnmapVirtualMemory, Inv
<1>2. PICK t \in UnmapCall : t = Head(todo)
  BY <1>1, NextCall
<1>3. PICK k : k = Min(Affected(t.v))
  OBVIOUS
<1>4. PICK size : size = Min({Limit(vm, k) - (IF k < t.v THEN t.v ELSE k), t.n})
  OBVIOUS
<1>5. /\ t.v \in Nat /\ t.n \in Nat /\ t.n >= 1 /\ VPages \in Nat
  BY UnmapFields, AddressSpaceAssumption DEF VPage
<1>6. \/ UNCHANGED <<vm, physical, virtual, host>> /\ todo' = Tail(todo)
      \/ /\ Affected(t.v) # {} /\ k < t.v + t.n
         /\ vm' = CutMap(k, t.v, t.n)
         /\ RemovePages(IF k < t.v THEN t.v ELSE k, size)
         /\ todo' = IF t.n > size
                    THEN <<Unmap(t.v + size, t.n - size, t.must)>> \o Tail(todo)
                    ELSE Tail(todo)
  BY <1>2, <1>3, <1>4 DEF UnmapVirtualMemory, Fail, CutMap, End, Limit
<1>7. ASSUME Affected(t.v) # {}, k < t.v + t.n
      PROVE  k \in DOMAIN vm /\ t.v < Limit(vm, k) /\ size \in 1..t.n
  <2>1. Affected(t.v) \in SUBSET Nat /\ Affected(t.v) \subseteq DOMAIN vm
    BY MappingFacts DEF Affected, Inv
  <2>2. k \in Affected(t.v)
    BY <1>3, <1>7, <2>1, LeastOf
  <2>3. k \in DOMAIN vm /\ ((k <= t.v /\ End(k) > t.v) \/ k > t.v)
    BY <2>2 DEF Affected
  <2>4. k \in Nat /\ Limit(vm, k) \in Nat /\ k < Limit(vm, k) /\ End(k) = Limit(vm, k)
    BY <2>3, MappingFacts DEF Inv, End, Limit
  <2>5. t.v < Limit(vm, k)
    BY <1>5, <2>3, <2>4
  <2>6. PICK s \in Nat : s = (IF k < t.v THEN t.v ELSE k) /\ s < Limit(vm, k)
    BY <1>5, <2>4, <2>5
  <2>7. PICK rest : rest = Limit(vm, k) - s /\ rest \in Nat /\ rest >= 1
    BY <2>4, <2>6
  <2>8. size = Min({rest, t.n}) /\ {rest, t.n} \in SUBSET Nat /\ {rest, t.n} # {}
    BY <1>4, <1>5, <2>6, <2>7
  <2>9. size \in {rest, t.n} /\ size <= t.n
    BY <2>8, LeastOf
  <2> QED BY <1>5, <2>3, <2>5, <2>7, <2>9
<1> QED BY <1>1, <1>2, <1>4, <1>6, <1>7

(* UnmapVirtualMemory, whatever the recursion cuts. *)
LEMMA UnmapPreserves ==
    ASSUME Inv, UnmapVirtualMemory
    PROVE  Inv'
<1>1. hooked' = hooked /\ allocated' = allocated /\ pages' = pages
  BY DEF UnmapVirtualMemory
<1>2. PICK t \in UnmapCall :
         /\ todo # <<>> /\ t = Head(todo) /\ t.op = "unmap"
         /\ \/ UNCHANGED <<vm, physical, virtual, host>> /\ todo' = Tail(todo)
            \/ \E k \in DOMAIN vm, size \in 1..t.n :
                  /\ t.v < Limit(vm, k) /\ k < t.v + t.n
                  /\ size = Min({Limit(vm, k) - (IF k < t.v THEN t.v ELSE k), t.n})
                  /\ vm' = CutMap(k, t.v, t.n)
                  /\ RemovePages(IF k < t.v THEN t.v ELSE k, size)
                  /\ todo' = IF t.n > size
                             THEN <<Unmap(t.v + size, t.n - size, t.must)>> \o Tail(todo)
                             ELSE Tail(todo)
  BY AffectedIs
<1>3. CallsOK(todo) /\ CallsOK(Tail(todo))
  BY <1>2, NextCall DEF Inv
<1>4. PagesOK'
  BY <1>1 DEF Inv, PagesOK
<1>5. CASE UNCHANGED <<vm, physical, virtual, host>> /\ todo' = Tail(todo)
  <2>1. GoodMap(vm') /\ PageTypes'
    BY <1>5 DEF Inv, PageTypes
  <2> QED BY <1>1, <1>3, <1>4, <1>5, <2>1 DEF Inv
<1>6. ASSUME NEW k \in DOMAIN vm, NEW size \in 1..t.n,
             t.v < Limit(vm, k), k < t.v + t.n,
             vm' = CutMap(k, t.v, t.n),
             RemovePages(IF k < t.v THEN t.v ELSE k, size),
             todo' = IF t.n > size
                     THEN <<Unmap(t.v + size, t.n - size, t.must)>> \o Tail(todo)
                     ELSE Tail(todo)
      PROVE  Inv'
  <2>1. t.v \in VPage /\ t.n \in 1..VPages /\ t.v + t.n <= VPages /\ t.must \in BOOLEAN
    BY UnmapFields
  <2>2. GoodMap(vm')
    BY <1>6, <2>1, CutGood DEF Inv
  <2>3. CallsOK(todo')
    <3>1. CASE t.n > size
      <4>1. t.v + size \in VPage /\ t.n - size \in 1..VPages /\ t.v + size + (t.n - size) <= VPages
        BY <2>1, <3>1, AddressSpaceAssumption DEF VPage
      <4>2. Unmap(t.v + size, t.n - size, t.must) \in UnmapCall
        BY <2>1, <4>1, UnmapIsCall
      <4>3. CallsOK(<<Unmap(t.v + size, t.n - size, t.must)>> \o Tail(todo))
        BY <1>2, <1>3, <4>2, RestOfCall
      <4> QED BY <1>6, <3>1, <4>3
    <3>2. CASE ~(t.n > size)
      BY <1>3, <1>6, <3>2
    <3> QED BY <3>1, <3>2
  <2>4. PageTypes'
    <3>1. PICK v : v = IF k < t.v THEN t.v ELSE k
      OBVIOUS
    <3>2. RemovePages(v, size)
      BY <1>6, <3>1
    <3>3. physical' \in [VPage -> PPage \cup {Unmapped}]
      BY <3>2 DEF RemovePages, Inv, PageTypes
    <3>4. virtual' \in [PPage -> Seq(VPage)]
      <4>1. <<>> \in Seq(VPage)
        BY EmptySeq
      <4>2. PICK gone : virtual' = [q \in PPage |-> IF q \in gone THEN <<>> ELSE virtual[q]]
        BY <3>2 DEF RemovePages
      <4> QED BY <4>1, <4>2 DEF Inv, PageTypes
    <3>5. host' \subseteq VPage
      BY <3>2 DEF RemovePages, Inv, PageTypes
    <3> QED BY <3>3, <3>4, <3>5 DEF PageTypes
  <2> QED BY <1>1, <1>4, <2>2, <2>3, <2>4 DEF Inv
<1> QED BY <1>2, <1>5, <1>6

(* The calls of a system call, once it has looked for an address. *)
LEMMA AllocatePreserves ==
    ASSUME Inv, NEW n \in 1..MaxSize, NEW p \in PPage, Allocate(p, n)
    PROVE  Inv'
<1>1. /\ p + n <= PPages /\ allocated' = allocated \cup Span(p, n)
      /\ UNCHANGED <<vm, physical, virtual, host, hooked>>
  BY DEF Allocate
<1>2. PICK v \in {FindAvailableVirtualMemory(n, 0, VPages)} \cup 0..(VPages - n) :
         IF v = Unmapped
         THEN /\ fault' = "no address space" /\ UNCHANGED <<todo, pages>>
         ELSE /\ todo' = <<Map(p, v, n, "rw")>> /\ UNCHANGED fault
              /\ pages' = [w \in VPage |-> IF w \in Span(v, n)
                                           THEN [phys |-> p + w - v, perm |-> "rw"]
                                           ELSE pages[w]]
  BY DEF Allocate
<1>3. /\ n \in Nat /\ n >= 1 /\ VPages \in Nat /\ PPages \in Nat /\ p \in Nat
  BY AddressSpaceAssumption DEF PPage
<1>4. GoodMap(vm') /\ PageTypes' /\ hooked' \subseteq PPage
  BY <1>1 DEF Inv, PageTypes
<1>5. allocated' \subseteq PPage
  <2>1. Span(p, n) \subseteq PPage
    BY <1>1, <1>3 DEF Span, PPage
  <2> QED BY <1>1, <2>1 DEF Inv
<1>6. CallsOK(todo') /\ PagesOK'
  <2>1. CASE v = Unmapped
    BY <1>2, <2>1 DEF Inv, PagesOK
  <2>2. CASE v # Unmapped
    <3>1. v \in Nat /\ v + n <= VPages
      <4>1. CASE v = FindAvailableVirtualMemory(n, 0, VPages)
        BY <1>3, <2>2, <4>1, FindResult DEF Inv
      <4>2. CASE v \in 0..(VPages - n)
        BY <1>3, <4>2
      <4> QED BY <1>2, <4>1, <4>2
    <3>2. v \in VPage /\ n \in 1..VPages
      BY <1>3, <3>1 DEF VPage
    <3>3. Map(p, v, n, "rw") \in MapCall
      BY <1>1, <3>1, <3>2, MapIsCall DEF Perm
    <3>4. CallsOK(<<Map(p, v, n, "rw")>>)
      BY <3>3 DEF CallsOK
    <3>5. \A w \in VPage : w \in Span(v, n) => p + w - v \in PPage
      BY <1>1, <1>3, <3>1 DEF Span, VPage, PPage
    <3>6. \A w \in VPage : w \in Span(v, n) =>
             [phys |-> p + w - v, perm |-> "rw"] \in [phys : PPage, perm : Perm]
      BY <3>5 DEF Perm
    <3>7. pages' = [w \in VPage |-> IF w \in Span(v, n)
                                    THEN [phys |-> p + w - v, perm |-> "rw"]
                                    ELSE pages[w]]
      BY <1>2, <2>2
    <3>8. PagesOK'
      BY <3>6, <3>7 DEF Inv, PagesOK
    <3> QED BY <1>2, <2>2, <3>4, <3>8
  <2> QED BY <2>1, <2>2
<1> QED BY <1>4, <1>5, <1>6 DEF Inv

(* Operation 4: its calls have their types. *)
LEMMA MapAlsoPreserves ==
    ASSUME Inv, NEW n \in 1..MaxSize, NEW v \in 0..(VPages - n), NEW w \in 0..(VPages - n),
           NEW foreign \in BOOLEAN, MapAlso(v, w, n, foreign)
    PROVE  Inv'
<1> DEFINE p == ResolveVirtualAddr(w)
<1>1. /\ p # Unmapped /\ p + n <= PPages
      /\ UNCHANGED <<vm, physical, virtual, host, hooked, allocated>>
      /\ pages' = [u \in VPage |-> IF u \in Span(v, n) THEN With("r", pages[w + u - v]) ELSE pages[u]]
  BY DEF MapAlso
<1>2. /\ n \in Nat /\ n >= 1 /\ VPages \in Nat /\ v \in Nat /\ v + n <= VPages
      /\ w \in Nat /\ w + n <= VPages /\ v \in VPage /\ w \in VPage /\ n \in 1..VPages
  BY AddressSpaceAssumption DEF VPage
<1>3. p \in PPage
  BY <1>1, <1>2, Resolved DEF Inv
<1>4. CallsOK(todo')
  <2>1. PICK m : m = Map(p, v, n, "r")
    OBVIOUS
  <2>2. m \in MapCall
    BY <1>1, <1>2, <1>3, <2>1, MapIsCall DEF Perm
  <2>3. PICK u : u = Unmap(v, n, FALSE)
    OBVIOUS
  <2>4. u \in UnmapCall
    BY <1>2, <2>3, UnmapIsCall
  <2>5. todo' = <<u>> \o <<m>> \/ todo' = <<>> \o <<m>>
    BY <2>1, <2>3 DEF MapAlso
  <2>6. <<u>> \o <<m>> = <<u, m>>
    BY Joined
  <2>7. <<>> \o <<m>> = <<m>>
    <3>1. <<m>> \in Seq({m})
      OBVIOUS
    <3> QED BY <3>1, ConcatEmptySeq
  <2> QED BY <2>2, <2>4, <2>5, <2>6, <2>7 DEF CallsOK
<1>5. PagesOK'
  <2>1. ASSUME NEW u \in VPage
        PROVE  u \in Span(v, n) =>
                  With("r", pages[w + u - v]) \in [phys : PPage, perm : Perm] \cup {Nowhere}
    <3>1. u \in Span(v, n) => w + u - v \in VPage
      BY <1>2 DEF Span, VPage
    <3>2. "r" \in Perm
      BY DEF Perm
    <3> QED BY <3>1, <3>2, WithIs DEF Inv, PagesOK
  <2> QED BY <1>1, <2>1 DEF Inv, PagesOK
<1> QED BY <1>1, <1>4, <1>5 DEF Inv, PageTypes

(* Operation 5. *)
LEMMA ReleasePreserves ==
    ASSUME Inv, NEW n \in 1..MaxSize, NEW v \in 0..(VPages - n), Release(v, n)
    PROVE  Inv'
<1>1. /\ todo' = <<Unmap(v, n, TRUE)>>
      /\ pages' = [w \in VPage |-> IF w \in Span(v, n) THEN Nowhere ELSE pages[w]]
      /\ UNCHANGED <<vm, physical, virtual, host, hooked, allocated>>
  BY DEF Release
<1>2. v \in VPage /\ n \in 1..VPages /\ v + n <= VPages
  BY AddressSpaceAssumption DEF VPage
<1>3. Unmap(v, n, TRUE) \in UnmapCall
  BY <1>2, UnmapIsCall
<1>4. CallsOK(todo')
  BY <1>1, <1>3 DEF CallsOK
<1>5. PagesOK'
  BY <1>1 DEF Inv, PagesOK
<1> QED BY <1>1, <1>4, <1>5 DEF Inv, PageTypes

(* Operation 6. *)
LEMMA ProtectPreserves ==
    ASSUME Inv, NEW n \in 1..MaxSize, NEW v \in 0..(VPages - n), Protect(v, n)
    PROVE  Inv'
<1> DEFINE p == ResolveVirtualAddr(v)
<1>1. /\ p # Unmapped /\ p + n <= PPages
      /\ todo' = <<Unmap(v, n, TRUE), Map(p, v, n, "rx")>>
      /\ pages' = [w \in VPage |-> IF w \in Span(v, n) THEN With("rx", pages[w]) ELSE pages[w]]
      /\ UNCHANGED <<vm, physical, virtual, host, hooked, allocated>>
  BY DEF Protect
<1>2. v \in VPage /\ n \in 1..VPages /\ v + n <= VPages
  BY AddressSpaceAssumption DEF VPage
<1>3. p \in PPage
  BY <1>1, <1>2, Resolved DEF Inv
<1>4. Unmap(v, n, TRUE) \in UnmapCall
  BY <1>2, UnmapIsCall
<1>5. Map(p, v, n, "rx") \in MapCall
  BY <1>1, <1>2, <1>3, MapIsCall DEF Perm
<1>6. CallsOK(todo')
  BY <1>1, <1>4, <1>5 DEF CallsOK
<1>7. PagesOK'
  <2>1. "rx" \in Perm
    BY DEF Perm
  <2>2. \A w \in VPage : With("rx", pages[w]) \in [phys : PPage, perm : Perm] \cup {Nowhere}
    BY <2>1, WithIs DEF Inv, PagesOK
  <2> QED BY <1>1, <2>2 DEF Inv, PagesOK
<1> QED BY <1>1, <1>6, <1>7 DEF Inv, PageTypes

(* Hooks change neither the map nor the calls. *)
LEMMA HooksPreserve ==
    ASSUME Inv, NEW p \in PPage, SetHook(p) \/ ClearHook(p)
    PROVE  Inv'
<1>1. /\ UNCHANGED <<vm, physical, virtual, allocated, todo, pages>>
      /\ hooked' \subseteq hooked \cup {p}
      /\ host' \subseteq host \cup ToSet(virtual[p])
  BY DEF SetHook, ClearHook, OnUnbackedByHostMemory
<1>2. ToSet(virtual[p]) \subseteq VPage
  BY DEF Inv, PageTypes, ToSet
<1> QED BY <1>1, <1>2 DEF Inv, PageTypes, PagesOK

(* Every step keeps the map and the calls in order. *)
LEMMA InvStep == Inv /\ [Next]_vars => Inv'
<1> SUFFICES ASSUME Inv, [Next]_vars PROVE Inv'
  OBVIOUS
<1>1. CASE MapVirtualMemory
  BY <1>1, MapPreserves
<1>2. CASE UnmapVirtualMemory
  BY <1>2, UnmapPreserves
<1>3. ASSUME NEW n \in 1..MaxSize, NEW p \in PPage, Allocate(p, n) PROVE Inv'
  BY <1>3, AllocatePreserves
<1>4. ASSUME NEW n \in 1..MaxSize, NEW v \in 0..(VPages - n), Release(v, n) PROVE Inv'
  BY <1>4, ReleasePreserves
<1>5. ASSUME NEW n \in 1..MaxSize, NEW v \in 0..(VPages - n), Protect(v, n) PROVE Inv'
  BY <1>5, ProtectPreserves
<1>6. ASSUME NEW n \in 1..MaxSize, NEW v \in 0..(VPages - n), NEW w \in 0..(VPages - n),
             NEW foreign \in BOOLEAN, MapAlso(v, w, n, foreign)
      PROVE  Inv'
  BY <1>6, MapAlsoPreserves
<1>7. ASSUME NEW p \in PPage, SetHook(p) \/ ClearHook(p) PROVE Inv'
  BY <1>7, HooksPreserve
<1>8. CASE UNCHANGED vars
  BY <1>8 DEF vars, Inv, PageTypes, PagesOK
<1> QED BY <1>1, <1>2, <1>3, <1>4, <1>5, <1>6, <1>7, <1>8 DEF Next, Halted

(* So they always are. *)
LEMMA InvAlways == Spec => []Inv
BY InitInv, InvStep, PTL DEF Spec

(* Types. *)
THEOREM TypeCorrect == Spec => []TypeOK
BY InvAlways, InvTypes, PTL

(* The mappings never overlap, between any two recursions of               *)
(* UnmapVirtualMemory, for programs that unmap what is not mapped and map  *)
(* a page as often as they like.                                           *)
THEOREM MappingsSeparate == Spec => []NoOverlap
<1>1. Inv => NoOverlap
  BY GoodNoOverlap DEF Inv
<1> QED BY <1>1, InvAlways, PTL

(* FindAvailableVirtualMemory finds the first free range, and fails only   *)
(* if there is none, in every map that a program can build.                *)
THEOREM SearchIsExact == Spec => []FindsFirst
<1>1. Inv => FindsFirst
  BY GoodFindsFirst DEF Inv
<1> QED BY <1>1, InvAlways, PTL

-----------------------------------------------------------------------------
(* What the calls do to a page.                                             *)

(* The translation of the page w after a call, if it was e before, and     *)
(* after all calls that are left.                                          *)
Performed(t, w, e) ==
    IF w \notin Span(t.v, t.n) THEN e
    ELSE IF t.op = "map" THEN [phys |-> t.p + w - t.v, perm |-> t.perm] ELSE Nowhere
AfterAll(q, w, e) ==
    CASE q = <<>> -> e
      [] q # <<>> /\ Tail(q) = <<>> -> Performed(Head(q), w, e)
      [] OTHER -> Performed(Head(Tail(q)), w, Performed(Head(q), w, e))

(* Every page is as the calls that are left still have to find it.  They   *)
(* begin to unmap only where everything is mapped.                         *)
Agree ==
    /\ \A w \in VPage : physical[w] = EntryIn(vm, w).phys
    /\ \A w \in VPage : pages[w] = AfterAll(todo, w, EntryIn(vm, w))
    /\ todo # <<>> /\ Head(todo).op = "unmap" =>
           \A w \in Span(Head(todo).v, Head(todo).n) : EntryIn(vm, w) # Nowhere
AgreeInv == fault = "none" => Agree

(* The only call that is left. *)
LEMMA AfterOne ==
    ASSUME NEW t, NEW w, NEW e
    PROVE  AfterAll(<<t>>, w, e) = Performed(t, w, e) /\ AfterAll(<<>>, w, e) = e
<1>1. <<t>> # <<>> /\ Tail(<<t>>) = <<>> /\ Head(<<t>>) = t
  OBVIOUS
<1>2. AfterAll(<<t>>, w, e) = Performed(Head(<<t>>), w, e)
  BY <1>1 DEF AfterAll
<1> QED BY <1>1, <1>2 DEF AfterAll

(* Two calls. *)
LEMMA AfterTwo ==
    ASSUME NEW t, NEW u, NEW w, NEW e
    PROVE  AfterAll(<<t, u>>, w, e) = Performed(u, w, Performed(t, w, e))
<1>1. <<t, u>> # <<>> /\ Tail(<<t, u>>) = <<u>> /\ Head(<<t, u>>) = t /\ <<u>> # <<>> /\ Head(<<u>>) = u
  OBVIOUS
<1>2. AfterAll(<<t, u>>, w, e) = Performed(Head(Tail(<<t, u>>)), w, Performed(Head(<<t, u>>), w, e))
  BY <1>1 DEF AfterAll
<1> QED BY <1>1, <1>2

(* A call, and then the others. *)
LEMMA AfterHead ==
    ASSUME NEW q, CallsOK(q), q # <<>>, NEW w, NEW e
    PROVE  AfterAll(q, w, e) = AfterAll(Tail(q), w, Performed(Head(q), w, e))
<1>1. CASE \E t : q = <<t>>
  <2>1. PICK t : q = <<t>>
    BY <1>1
  <2>2. Head(q) = t /\ Tail(q) = <<>>
    BY <2>1
  <2> QED BY <2>1, <2>2, AfterOne
<1>2. CASE \E t, u : q = <<t, u>>
  <2>1. PICK t, u : q = <<t, u>>
    BY <1>2
  <2>2. Head(q) = t /\ Tail(q) = <<u>>
    BY <2>1
  <2> QED BY <2>1, <2>2, AfterOne, AfterTwo
<1> QED BY <1>1, <1>2 DEF CallsOK

(* With no call left, every page is as it has to be. *)
LEMMA AgreeTranslates == Inv /\ AgreeInv => Translates
<1> SUFFICES ASSUME Inv, AgreeInv PROVE Translates
  OBVIOUS
<1>1. NoOverlap
  BY GoodNoOverlap DEF Inv
<1>2. ASSUME Ready, NEW v \in VPage PROVE Entry(v) = pages[v] /\ physical[v] = pages[v].phys
  <2>1. Agree /\ todo = <<>>
    BY <1>2 DEF AgreeInv, Ready
  <2>2. pages[v] = EntryIn(vm, v) /\ physical[v] = EntryIn(vm, v).phys
    BY <2>1 DEF Agree, AfterAll
  <2> QED BY <2>2, EntryOfMap
<1> QED BY <1>1, <1>2 DEF Translates

(* At the start nothing is mapped. *)
LEMMA AgreeAtFirst == Init => AgreeInv
<1> SUFFICES ASSUME Init PROVE Agree
  BY DEF AgreeInv
<1>1. vm = <<>> /\ DOMAIN vm = {} /\ todo = <<>>
  BY DEF Init
<1>2. \A w : EntryIn(vm, w) = Nowhere
  BY <1>1 DEF EntryIn
<1>3. \A w \in VPage : physical[w] = Unmapped /\ pages[w] = Nowhere
  BY DEF Init
<1>4. Nowhere.phys = Unmapped
  BY DEF Nowhere
<1> QED BY <1>1, <1>2, <1>3, <1>4 DEF Agree, AfterAll

(* MapVirtualMemory does its part. *)
LEMMA MapAgrees ==
    ASSUME Inv, AgreeInv, MapVirtualMemory
    PROVE  AgreeInv'
<1> SUFFICES ASSUME fault' = "none" PROVE Agree'
  BY DEF AgreeInv
<1>1. fault = "none" /\ todo # <<>> /\ Head(todo).op = "map" /\ todo' = Tail(todo) /\ pages' = pages
  BY DEF MapVirtualMemory
<1>2. PICK t : t = Head(todo) /\ t \in MapCall /\ todo = <<t>> /\ Tail(todo) = <<>>
  BY <1>1, NextCall DEF Inv
<1>3. /\ t.p \in PPage /\ t.v \in VPage /\ t.n \in 1..VPages /\ t.perm \in Perm
      /\ t.v + t.n <= VPages /\ t.p + t.n <= PPages /\ t.op = "map"
  BY <1>2, MapFields
<1>4. /\ ~Taken(t.v, t.n)
      /\ vm' = Merged(Single(t.v, [phys |-> t.p, size |-> t.n, perm |-> t.perm]), vm)
      /\ InsertPages(t.p, t.v, t.n)
  BY <1>2 DEF MapVirtualMemory, Fail
<1>5. Free(vm, t.v, t.n)
  <2>1. t.v \in Nat /\ t.n \in Nat
    BY <1>3, AddressSpaceAssumption DEF VPage
  <2> QED BY <1>4, <2>1, NotTaken DEF Inv
<1>6. \A w \in VPage : EntryIn(vm', w) = IF w \in Span(t.v, t.n)
                                         THEN [phys |-> t.p + w - t.v, perm |-> t.perm]
                                         ELSE EntryIn(vm, w)
  BY <1>3, <1>4, <1>5, MapAdds DEF Inv
<1>7. \A w \in VPage : physical'[w] = IF w \in Span(t.v, t.n) THEN t.p + w - t.v ELSE physical[w]
  BY <1>4 DEF InsertPages
<1>8. Agree
  BY <1>1 DEF AgreeInv
<1>9. ASSUME NEW w \in VPage PROVE physical'[w] = EntryIn(vm', w).phys
  BY <1>6, <1>7, <1>8 DEF Agree
<1>10. todo' = <<>>
  BY <1>1, <1>2
<1>11. ASSUME NEW w \in VPage PROVE pages'[w] = AfterAll(todo', w, EntryIn(vm', w))
  <2>1. pages[w] = Performed(t, w, EntryIn(vm, w))
    BY <1>2, <1>8, AfterOne DEF Agree
  <2>2. Performed(t, w, EntryIn(vm, w)) = EntryIn(vm', w)
    BY <1>3, <1>6 DEF Performed
  <2>3. AfterAll(todo', w, EntryIn(vm', w)) = EntryIn(vm', w)
    BY <1>10 DEF AfterAll
  <2> QED BY <1>1, <2>1, <2>2, <2>3
<1> QED BY <1>9, <1>10, <1>11 DEF Agree

(* So does a recursion of UnmapVirtualMemory where all is mapped: it       *)
(* unmaps the first chunk of the range, which is all mapped, too, and      *)
(* leaves the rest.                                                        *)
LEMMA ChunkIs ==
    ASSUME Inv, AgreeInv, UnmapVirtualMemory
    PROVE  \E t \in UnmapCall : \E k \in DOMAIN vm, size \in 1..t.n :
              /\ fault = "none" /\ Agree /\ todo # <<>> /\ t = Head(todo) /\ t.op = "unmap"
              /\ k <= t.v /\ t.v < Limit(vm, k) /\ size = Min({Limit(vm, k) - t.v, t.n})
              /\ vm' = CutMap(k, t.v, t.n) /\ RemovePages(t.v, size) /\ fault' = "none"
              /\ todo' = IF t.n > size
                         THEN <<Unmap(t.v + size, t.n - size, t.must)>> \o Tail(todo)
                         ELSE Tail(todo)
<1>1. todo # <<>> /\ Head(todo).op = "unmap" /\ fault = "none" /\ Agree
  BY DEF UnmapVirtualMemory, AgreeInv
<1>2. PICK t \in UnmapCall : t = Head(todo)
  BY <1>1, NextCall DEF Inv
<1>3. /\ t.v \in VPage /\ t.v \in Nat /\ t.n \in Nat /\ t.n >= 1 /\ t.n \in 1..VPages
      /\ t.v + t.n <= VPages /\ VPages \in Nat
  BY UnmapFields, AddressSpaceAssumption DEF VPage
<1>4. PICK j : Covers(vm, j, t.v)
  <2>1. t.v \in Span(t.v, t.n)
    BY <1>3 DEF Span
  <2>2. EntryIn(vm, t.v) # Nowhere
    BY <1>1, <1>2, <2>1 DEF Agree
  <2> QED BY <1>3, <2>2, MappedIffCovered DEF Inv
<1>5. PICK k : k = Min(Affected(t.v))
  OBVIOUS
<1>6. j \in DOMAIN vm /\ j \in Nat /\ j <= t.v /\ t.v < Limit(vm, j) /\ j \in Affected(t.v)
  <2>1. j \in DOMAIN vm /\ j <= t.v /\ t.v < Limit(vm, j)
    BY <1>4 DEF Covers
  <2>2. j \in Nat /\ Limit(vm, j) \in Nat
    BY <2>1, MappingFacts DEF Inv
  <2>3. End(j) > t.v
    BY <1>3, <2>1, <2>2 DEF End, Limit
  <2> QED BY <2>1, <2>2, <2>3 DEF Affected
<1>7. k \in DOMAIN vm /\ k \in Nat /\ k <= t.v /\ t.v < Limit(vm, k) /\ Limit(vm, k) \in Nat
  <2>1. Affected(t.v) \in SUBSET Nat
    BY MappingFacts DEF Affected, Inv
  <2>2. k \in Affected(t.v) /\ k <= j
    BY <1>5, <1>6, <2>1, LeastOf
  <2>3. k \in DOMAIN vm /\ ((k <= t.v /\ End(k) > t.v) \/ k > t.v)
    BY <2>2 DEF Affected
  <2>4. k \in Nat /\ Limit(vm, k) \in Nat
    BY <2>3, MappingFacts DEF Inv
  <2>5. k <= t.v
    BY <1>3, <1>6, <2>2, <2>4
  <2>6. End(k) > t.v
    BY <1>3, <2>3, <2>4, <2>5
  <2> QED BY <1>3, <2>3, <2>4, <2>5, <2>6 DEF End, Limit
<1>8. PICK size : size = Min({Limit(vm, k) - t.v, t.n})
  OBVIOUS
<1>9. size \in 1..t.n
  <2>1. Limit(vm, k) - t.v \in Nat /\ Limit(vm, k) - t.v >= 1
    BY <1>3, <1>7
  <2>2. {Limit(vm, k) - t.v, t.n} \in SUBSET Nat /\ {Limit(vm, k) - t.v, t.n} # {}
    BY <1>3, <2>1
  <2>3. size \in {Limit(vm, k) - t.v, t.n} /\ size <= t.n
    BY <1>8, <2>2, LeastOf
  <2> QED BY <1>3, <2>1, <2>3
<1>10. ~(\A i \in Affected(t.v) : i > t.v + t.n) /\ k # t.v + t.n
  <2>1. j \in Affected(t.v) /\ ~(j > t.v + t.n)
    BY <1>3, <1>6
  <2> QED BY <1>3, <1>7, <2>1
<1>11. (IF k < t.v THEN t.v ELSE k) = t.v
  BY <1>3, <1>7
<1>12. /\ vm' = CutMap(k, t.v, t.n) /\ RemovePages(t.v, size)
       /\ fault' = IF \E w \in Span(t.v, size) : physical[w] = Unmapped
                   THEN "no mapping to remove" ELSE fault
       /\ todo' = IF t.n > size
                  THEN <<Unmap(t.v + size, t.n - size, t.must)>> \o Tail(todo)
                  ELSE Tail(todo)
  BY <1>2, <1>5, <1>8, <1>10, <1>11 DEF UnmapVirtualMemory, Fail, CutMap, End, Limit
<1>13. fault' = "none"
  <2>1. ASSUME NEW w \in Span(t.v, size) PROVE physical[w] # Unmapped
    <3>1. w \in VPage /\ w \in Span(t.v, t.n)
      BY <1>3, <1>9 DEF Span, VPage
    <3>2. EntryIn(vm, w) # Nowhere /\ physical[w] = EntryIn(vm, w).phys
      BY <1>1, <1>2, <3>1 DEF Agree
    <3>3. EntryIn(vm, w) \in [phys : PPage, perm : Perm]
      BY <3>1, <3>2, MappedIffCovered DEF Inv
    <3> QED BY <3>2, <3>3, AddressSpaceAssumption DEF PPage, Unmapped
  <2> QED BY <1>1, <1>12, <2>1
<1> QED BY <1>1, <1>2, <1>7, <1>8, <1>9, <1>12, <1>13

(* What is left of the call does the rest of the range. *)
LEMMA UnmapAgrees ==
    ASSUME Inv, AgreeInv, UnmapVirtualMemory
    PROVE  AgreeInv'
<1>1. PICK t \in UnmapCall : \E k \in DOMAIN vm, size \in 1..t.n :
              /\ fault = "none" /\ Agree /\ todo # <<>> /\ t = Head(todo) /\ t.op = "unmap"
              /\ k <= t.v /\ t.v < Limit(vm, k) /\ size = Min({Limit(vm, k) - t.v, t.n})
              /\ vm' = CutMap(k, t.v, t.n) /\ RemovePages(t.v, size) /\ fault' = "none"
              /\ todo' = IF t.n > size
                         THEN <<Unmap(t.v + size, t.n - size, t.must)>> \o Tail(todo)
                         ELSE Tail(todo)
  BY ChunkIs
<1>2. PICK k \in DOMAIN vm, size \in 1..t.n :
              /\ fault = "none" /\ Agree /\ todo # <<>> /\ t = Head(todo) /\ t.op = "unmap"
              /\ k <= t.v /\ t.v < Limit(vm, k) /\ size = Min({Limit(vm, k) - t.v, t.n})
              /\ vm' = CutMap(k, t.v, t.n) /\ RemovePages(t.v, size) /\ fault' = "none"
              /\ todo' = IF t.n > size
                         THEN <<Unmap(t.v + size, t.n - size, t.must)>> \o Tail(todo)
                         ELSE Tail(todo)
  BY <1>1
<1>3. /\ t.v \in VPage /\ t.v \in Nat /\ t.n \in Nat /\ t.n >= 1 /\ t.n \in 1..VPages
      /\ t.v + t.n <= VPages /\ VPages \in Nat /\ size \in Nat /\ size >= 1 /\ size <= t.n
  BY UnmapFields, AddressSpaceAssumption DEF VPage
<1>4. \A w \in VPage : EntryIn(vm', w) = IF w \in Span(t.v, size) THEN Nowhere ELSE EntryIn(vm, w)
  <2>1. GoodMap(vm) /\ k <= t.v /\ t.v < Limit(vm, k)
    BY <1>2 DEF Inv
  <2>2. PICK r : r = CutMap(k, t.v, t.n) /\ vm' = r
    BY <1>2
  <2>3. PICK z : z = size /\ z = Min({Limit(vm, k) - t.v, t.n})
    BY <1>2
  <2>4. \A w \in VPage : EntryIn(r, w) = IF w \in Span(t.v, z) THEN Nowhere ELSE EntryIn(vm, w)
    BY <1>3, <2>1, <2>2, <2>3, CutEntries
  <2> QED BY <2>2, <2>3, <2>4
<1>5. \A w \in VPage : physical'[w] = IF w \in Span(t.v, size) THEN Unmapped ELSE physical[w]
  BY <1>2 DEF RemovePages
<1>6. ASSUME NEW w \in VPage PROVE physical'[w] = EntryIn(vm', w).phys
  <2>1. physical[w] = EntryIn(vm, w).phys /\ Nowhere.phys = Unmapped
    BY <1>2 DEF Agree, Nowhere
  <2> QED BY <1>4, <1>5, <2>1
<1>7. \A w \in VPage : pages'[w] = AfterAll(Tail(todo), w, Performed(t, w, EntryIn(vm, w)))
  <2>1. pages' = pages /\ CallsOK(todo)
    BY DEF UnmapVirtualMemory, Inv
  <2> QED BY <1>2, <2>1, AfterHead DEF Agree
<1>8. CASE t.n > size
  <2>1. PICK u : u = Unmap(t.v + size, t.n - size, t.must)
    OBVIOUS
  <2>2. u.op = "unmap" /\ u.v = t.v + size /\ u.n = t.n - size
    BY <2>1 DEF Unmap
  <2>3. todo' # <<>> /\ Head(todo') = u /\ Tail(todo') = Tail(todo) /\ CallsOK(todo')
    <3>0. CallsOK(todo')
      BY UnmapPreserves DEF Inv
    <3>1. todo' = <<u>> \o Tail(todo)
      BY <1>2, <1>8, <2>1
    <3>2. Tail(todo) = <<>> \/ \E x \in MapCall : Tail(todo) = <<x>>
      BY <1>2, NextCall DEF Inv
    <3>3. CASE Tail(todo) = <<>>
      <4>1. todo' = <<u>>
        BY <3>1, <3>3, Joined
      <4>2. todo' # <<>> /\ Head(todo') = u /\ Tail(todo') = <<>>
        BY <4>1
      <4> QED BY <3>0, <3>3, <4>2
    <3>4. CASE \E x \in MapCall : Tail(todo) = <<x>>
      <4>1. PICK x \in MapCall : Tail(todo) = <<x>>
        BY <3>4
      <4>2. todo' = <<u, x>>
        BY <3>1, <4>1, Joined
      <4>3. todo' # <<>> /\ Head(todo') = u /\ Tail(todo') = <<x>>
        BY <4>2
      <4> QED BY <3>0, <4>1, <4>3
    <3> QED BY <3>2, <3>3, <3>4
  <2>4. ASSUME NEW w \in VPage
        PROVE  /\ w \in Span(t.v, t.n) <=> w \in Span(t.v, size) \/ w \in Span(u.v, u.n)
               /\ ~(w \in Span(t.v, size) /\ w \in Span(u.v, u.n))
    BY <1>3, <1>8, <2>2 DEF Span, VPage
  <2>5. ASSUME NEW w \in VPage PROVE pages'[w] = AfterAll(todo', w, EntryIn(vm', w))
    <3>1. Performed(u, w, EntryIn(vm', w)) = Performed(t, w, EntryIn(vm, w))
      BY <1>2, <1>4, <2>2, <2>4 DEF Performed
    <3>2. AfterAll(todo', w, EntryIn(vm', w)) = AfterAll(Tail(todo'), w, Performed(u, w, EntryIn(vm', w)))
      BY <2>3, AfterHead
    <3> QED BY <1>7, <2>3, <3>1, <3>2
  <2>6. \A w \in Span(u.v, u.n) : EntryIn(vm', w) # Nowhere
    <3>1. ASSUME NEW w \in Span(u.v, u.n) PROVE EntryIn(vm', w) # Nowhere
      <4>1. w \in VPage
        BY <1>3, <1>8, <2>2 DEF Span, VPage
      <4>2. EntryIn(vm, w) # Nowhere
        BY <1>2, <2>4, <4>1 DEF Agree
      <4> QED BY <1>4, <2>4, <4>1, <4>2
    <3> QED BY <3>1
  <2> QED BY <1>6, <2>3, <2>5, <2>6 DEF Agree, AgreeInv
<1>9. CASE ~(t.n > size)
  <2>1. size = t.n /\ todo' = Tail(todo)
    BY <1>2, <1>3, <1>9
  <2>2. ASSUME NEW w \in VPage PROVE pages'[w] = AfterAll(todo', w, EntryIn(vm', w))
    <3>1. EntryIn(vm', w) = Performed(t, w, EntryIn(vm, w))
      BY <1>2, <1>4, <2>1 DEF Performed
    <3> QED BY <1>7, <2>1, <3>1
  <2>3. ~(todo' # <<>> /\ Head(todo').op = "unmap")
    <3>1. Tail(todo) = <<>> \/ \E x \in MapCall : Tail(todo) = <<x>>
      BY <1>2, NextCall DEF Inv
    <3>2. ASSUME NEW x \in MapCall, Tail(todo) = <<x>> PROVE Head(todo').op = "map"
      <4>1. todo' = <<x>>
        BY <2>1, <3>2
      <4>2. Head(todo') = x
        BY <4>1
      <4> QED BY <4>2, MapFields
    <3> QED BY <2>1, <3>1, <3>2
  <2> QED BY <1>6, <2>2, <2>3 DEF Agree, AgreeInv
<1> QED BY <1>8, <1>9

(* A system call that changes no memory itself. *)
LEMMA CallAgrees ==
    ASSUME Inv, AgreeInv, Ready,
           UNCHANGED <<vm, physical>>,
           \A w \in VPage : pages'[w] = AfterAll(todo', w, pages[w]),
           todo' # <<>> /\ Head(todo').op = "unmap" =>
               \A w \in Span(Head(todo').v, Head(todo').n) : w \in VPage /\ pages[w] # Nowhere
    PROVE  AgreeInv'
<1>1. Agree /\ todo = <<>>
  BY DEF Ready, AgreeInv
<1>2. \A w \in VPage : pages[w] = EntryIn(vm, w) /\ physical[w] = EntryIn(vm, w).phys
  BY <1>1 DEF Agree, AfterAll
<1>3. \A w \in VPage : EntryIn(vm', w) = EntryIn(vm, w) /\ physical'[w] = physical[w]
  OBVIOUS
<1>4. \A w \in VPage : physical'[w] = EntryIn(vm', w).phys
  BY <1>2, <1>3
<1>5. \A w \in VPage : pages'[w] = AfterAll(todo', w, EntryIn(vm', w))
  BY <1>2, <1>3
<1>6. todo' # <<>> /\ Head(todo').op = "unmap" =>
           \A w \in Span(Head(todo').v, Head(todo').n) : EntryIn(vm', w) # Nowhere
  BY <1>2, <1>3
<1> QED BY <1>4, <1>5, <1>6 DEF Agree, AgreeInv

(* Operation 3. *)
LEMMA AllocateAgrees ==
    ASSUME Inv, AgreeInv, NEW n \in 1..MaxSize, NEW p \in PPage, Allocate(p, n)
    PROVE  AgreeInv'
<1> SUFFICES ASSUME fault' = "none" PROVE AgreeInv'
  BY DEF AgreeInv
<1>1. Ready /\ UNCHANGED <<vm, physical>>
  BY DEF Allocate
<1>2. PICK v : /\ todo' = <<Map(p, v, n, "rw")>>
               /\ pages' = [w \in VPage |-> IF w \in Span(v, n)
                                            THEN [phys |-> p + w - v, perm |-> "rw"]
                                            ELSE pages[w]]
  BY DEF Allocate
<1>3. PICK t : t = Map(p, v, n, "rw")
  OBVIOUS
<1>4. t.op = "map" /\ t.p = p /\ t.v = v /\ t.n = n /\ t.perm = "rw"
  BY <1>3 DEF Map
<1>5. todo' = <<t>> /\ Head(todo') = t
  BY <1>2, <1>3
<1>6. ASSUME NEW w \in VPage PROVE pages'[w] = AfterAll(todo', w, pages[w])
  <2>1. AfterAll(todo', w, pages[w]) = Performed(t, w, pages[w])
    BY <1>5, AfterOne
  <2> QED BY <1>2, <1>4, <2>1 DEF Performed
<1> QED BY <1>1, <1>4, <1>5, <1>6, CallAgrees

(* Operation 5, where all is mapped. *)
LEMMA ReleaseAgrees ==
    ASSUME Inv, AgreeInv, "gaps" \notin Programs,
           NEW n \in 1..MaxSize, NEW v \in 0..(VPages - n), Release(v, n)
    PROVE  AgreeInv'
<1>1. Ready /\ UNCHANGED <<vm, physical>> /\ FullyMapped(v, n)
  BY DEF Release
<1>2. PICK t : t = Unmap(v, n, TRUE)
  OBVIOUS
<1>3. t.op = "unmap" /\ t.v = v /\ t.n = n
  BY <1>2 DEF Unmap
<1>4. todo' = <<t>> /\ Head(todo') = t
  BY <1>2 DEF Release
<1>5. ASSUME NEW w \in VPage PROVE pages'[w] = AfterAll(todo', w, pages[w])
  <2>1. AfterAll(todo', w, pages[w]) = Performed(t, w, pages[w])
    BY <1>4, AfterOne
  <2> QED BY <1>3, <2>1 DEF Performed, Release
<1>6. \A w \in Span(v, n) : w \in VPage /\ pages[w] # Nowhere
  BY <1>1, AddressSpaceAssumption DEF FullyMapped, Span, VPage
<1> QED BY <1>1, <1>3, <1>4, <1>5, <1>6, CallAgrees

(* Pages that follow each other, the first of which is mapped, all are. *)
LEMMA ContiguousMapped ==
    ASSUME Inv, AgreeInv, Ready, NEW n \in Nat, n >= 1, NEW w \in VPage, w + n <= VPages,
           Contiguous(w, n), ResolveVirtualAddr(w) # Unmapped,
           NEW p, p = ResolveVirtualAddr(w)
    PROVE  /\ p \in PPage /\ w \in Nat
           /\ \A x \in Span(w, n) : /\ x \in VPage /\ x \in Nat /\ pages[x] # Nowhere
                                    /\ pages[x].phys = p + x - w /\ pages[x].phys # Unmapped
<1>1. Agree /\ todo = <<>>
  BY DEF Ready, AgreeInv
<1>2. \A x \in VPage : pages[x] = EntryIn(vm, x)
  BY <1>1 DEF Agree, AfterAll
<1>3. p \in PPage /\ p = pages[w].phys
  BY <1>2, Resolved DEF Inv
<1>4. w \in Nat /\ p \in Nat /\ VPages \in Nat
  BY <1>3, AddressSpaceAssumption DEF VPage, PPage
<1>5. ASSUME NEW x \in Span(w, n)
      PROVE  /\ x \in VPage /\ x \in Nat /\ pages[x] # Nowhere
             /\ pages[x].phys = p + x - w /\ pages[x].phys # Unmapped
  <2>1. x \in VPage /\ x \in Nat /\ w <= x
    BY <1>4 DEF Span, VPage
  <2>2. pages[x].phys = p + x - w
    BY <1>3 DEF Contiguous
  <2>3. pages[x].phys # Unmapped
    BY <1>4, <2>1, <2>2 DEF Unmapped
  <2> QED BY <2>1, <2>2, <2>3 DEF Nowhere
<1> QED BY <1>3, <1>4, <1>5

(* Operation 6: pages that follow each other are mapped again as they were. *)
LEMMA ProtectAgrees ==
    ASSUME Inv, AgreeInv, NEW n \in 1..MaxSize, NEW v \in 0..(VPages - n), Protect(v, n)
    PROVE  AgreeInv'
<1> DEFINE p == ResolveVirtualAddr(v)
<1>1. Ready /\ UNCHANGED <<vm, physical>> /\ Contiguous(v, n) /\ p # Unmapped
  BY DEF Protect
<1>2. n \in Nat /\ n >= 1 /\ v \in VPage /\ v + n <= VPages
  BY AddressSpaceAssumption DEF VPage
<1>3. /\ p \in PPage /\ v \in Nat
      /\ \A x \in Span(v, n) : /\ x \in VPage /\ x \in Nat /\ pages[x] # Nowhere
                               /\ pages[x].phys = p + x - v /\ pages[x].phys # Unmapped
  BY <1>1, <1>2, ContiguousMapped
<1>4. PICK t, u : t = Unmap(v, n, TRUE) /\ u = Map(p, v, n, "rx")
  OBVIOUS
<1>5. /\ t.op = "unmap" /\ t.v = v /\ t.n = n
      /\ u.op = "map" /\ u.p = p /\ u.v = v /\ u.n = n /\ u.perm = "rx"
  BY <1>4 DEF Unmap, Map
<1>6. todo' = <<t, u>> /\ Head(todo') = t
  BY <1>4 DEF Protect
<1>7. ASSUME NEW w \in VPage PROVE pages'[w] = AfterAll(todo', w, pages[w])
  <2>1. AfterAll(todo', w, pages[w]) = Performed(u, w, Performed(t, w, pages[w]))
    BY <1>6, AfterTwo
  <2>2. pages'[w] = IF w \in Span(v, n) THEN With("rx", pages[w]) ELSE pages[w]
    BY DEF Protect
  <2>3. CASE w \in Span(v, n)
    <3>1. With("rx", pages[w]) = [phys |-> pages[w].phys, perm |-> "rx"]
      BY <1>3, <2>3, WithIs DEF Inv, PagesOK, Perm
    <3>2. pages[w].phys = p + w - v
      BY <1>3, <2>3
    <3> QED BY <1>5, <2>1, <2>2, <2>3, <3>1, <3>2 DEF Performed
  <2>4. CASE w \notin Span(v, n)
    BY <1>5, <2>1, <2>2, <2>4 DEF Performed
  <2> QED BY <2>3, <2>4
<1> QED BY <1>1, <1>3, <1>5, <1>6, <1>7, CallAgrees

(* Operation 4: what is at the address is unmapped first, if it is mapped. *)
LEMMA MapAlsoAgrees ==
    ASSUME Inv, AgreeInv, "gaps" \notin Programs,
           NEW n \in 1..MaxSize, NEW v \in 0..(VPages - n), NEW w \in 0..(VPages - n),
           NEW foreign \in BOOLEAN, MapAlso(v, w, n, foreign)
    PROVE  AgreeInv'
<1> DEFINE p == ResolveVirtualAddr(w)
           found == FindAvailableVirtualMemory(n, v, v + n)
<1>1. /\ Ready /\ UNCHANGED <<vm, physical>> /\ Contiguous(w, n) /\ p # Unmapped
      /\ (found = Unmapped /\ foreign) => FullyMapped(v, n)
  BY DEF MapAlso
<1>2. /\ n \in Nat /\ n >= 1 /\ w \in VPage /\ w + n <= VPages /\ v + n <= VPages /\ v \in Nat
      /\ VPages \in Nat
  BY AddressSpaceAssumption DEF VPage
<1>3. /\ p \in PPage /\ w \in Nat
      /\ \A x \in Span(w, n) : /\ x \in VPage /\ x \in Nat /\ pages[x] # Nowhere
                               /\ pages[x].phys = p + x - w /\ pages[x].phys # Unmapped
  BY <1>1, <1>2, ContiguousMapped
<1>4. PICK t, u : t = Unmap(v, n, FALSE) /\ u = Map(p, v, n, "r")
  OBVIOUS
<1>5. /\ t.op = "unmap" /\ t.v = v /\ t.n = n
      /\ u.op = "map" /\ u.p = p /\ u.v = v /\ u.n = n /\ u.perm = "r"
  BY <1>4 DEF Unmap, Map
<1>6. todo' = IF found = Unmapped /\ foreign THEN <<t, u>> ELSE <<u>>
  <2>1. todo' = (IF found = Unmapped /\ foreign THEN <<t>> ELSE <<>>) \o <<u>>
    BY <1>4 DEF MapAlso
  <2>2. <<t>> \o <<u>> = <<t, u>>
    BY Joined
  <2>3. <<>> \o <<u>> = <<u>>
    <3>1. <<u>> \in Seq({u})
      OBVIOUS
    <3> QED BY <3>1, ConcatEmptySeq
  <2> QED BY <2>1, <2>2, <2>3
<1>7. ASSUME NEW x \in VPage PROVE pages'[x] = AfterAll(todo', x, pages[x])
  <2>1. \/ AfterAll(todo', x, pages[x]) = Performed(u, x, Performed(t, x, pages[x]))
        \/ AfterAll(todo', x, pages[x]) = Performed(u, x, pages[x])
    BY <1>6, AfterOne, AfterTwo
  <2>2. pages'[x] = IF x \in Span(v, n) THEN With("r", pages[w + x - v]) ELSE pages[x]
    BY DEF MapAlso
  <2>3. CASE x \in Span(v, n)
    <3>1. PICK y : y = w + x - v
      OBVIOUS
    <3>2. y \in Span(w, n) /\ p + y - w = p + x - v
      BY <1>2, <1>3, <2>3, <3>1, AddressSpaceAssumption DEF Span, VPage, PPage
    <3>3. /\ y \in VPage /\ pages[y].phys # Unmapped /\ pages[y].phys = p + x - v
      BY <1>3, <3>2
    <3>4. With("r", pages[y]) = [phys |-> pages[y].phys, perm |-> "r"]
      BY <3>3, WithIs DEF Inv, PagesOK, Perm
    <3> QED BY <1>5, <2>1, <2>2, <2>3, <3>1, <3>3, <3>4 DEF Performed
  <2>4. CASE x \notin Span(v, n)
    BY <1>5, <2>1, <2>2, <2>4 DEF Performed
  <2> QED BY <2>3, <2>4
<1>8. todo' # <<>> /\ Head(todo').op = "unmap" =>
           \A x \in Span(Head(todo').v, Head(todo').n) : x \in VPage /\ pages[x] # Nowhere
  <2>1. CASE found = Unmapped /\ foreign
    <3>1. Head(todo') = t
      BY <1>6, <2>1
    <3>2. \A x \in Span(v, n) : x \in VPage /\ pages[x] # Nowhere
      BY <1>1, <1>2, <2>1 DEF FullyMapped, Span, VPage
    <3> QED BY <1>5, <3>1, <3>2
  <2>2. CASE ~(found = Unmapped /\ foreign)
    <3>1. Head(todo') = u
      BY <1>6, <2>2
    <3> QED BY <1>5, <3>1
  <2> QED BY <2>1, <2>2
<1> HIDE DEF p, found
<1> QED BY <1>1, <1>7, <1>8, CallAgrees

(* Every step keeps the pages as the calls that are left have to find them. *)
LEMMA AgreeStep == "gaps" \notin Programs /\ Inv /\ AgreeInv /\ [Next]_vars => AgreeInv'
<1> SUFFICES ASSUME "gaps" \notin Programs, Inv, AgreeInv, [Next]_vars PROVE AgreeInv'
  OBVIOUS
<1>1. CASE MapVirtualMemory
  BY <1>1, MapAgrees
<1>2. CASE UnmapVirtualMemory
  BY <1>2, UnmapAgrees
<1>3. ASSUME NEW n \in 1..MaxSize, NEW p \in PPage, Allocate(p, n) PROVE AgreeInv'
  BY <1>3, AllocateAgrees
<1>4. ASSUME NEW n \in 1..MaxSize, NEW v \in 0..(VPages - n), Release(v, n) PROVE AgreeInv'
  BY <1>4, ReleaseAgrees
<1>5. ASSUME NEW n \in 1..MaxSize, NEW v \in 0..(VPages - n), Protect(v, n) PROVE AgreeInv'
  BY <1>5, ProtectAgrees
<1>6. ASSUME NEW n \in 1..MaxSize, NEW v \in 0..(VPages - n), NEW w \in 0..(VPages - n),
             NEW foreign \in BOOLEAN, MapAlso(v, w, n, foreign)
      PROVE  AgreeInv'
  BY <1>6, MapAlsoAgrees
<1>7. ASSUME NEW p \in PPage, SetHook(p) \/ ClearHook(p) PROVE AgreeInv'
  <2>1. UNCHANGED <<vm, physical, todo, pages>> /\ fault = "none"
    BY <1>7 DEF SetHook, ClearHook, Ready
  <2> QED BY <2>1 DEF AgreeInv, Agree
<1>8. CASE UNCHANGED vars
  BY <1>8 DEF vars, AgreeInv, Agree
<1> QED BY <1>1, <1>2, <1>3, <1>4, <1>5, <1>6, <1>7, <1>8 DEF Next, Halted

(* After every system call the map and the page table translate every page *)
(* as the calls so far demand, for programs that unmap only what is mapped *)
(* (with gaps they do not: run address_space_gaps).                        *)
THEOREM TranslationIsExact == "gaps" \notin Programs => (Spec => []Translates)
<1> SUFFICES ASSUME "gaps" \notin Programs PROVE Spec => []Translates
  OBVIOUS
<1>1. Inv /\ AgreeInv /\ [Next]_vars => AgreeInv'
  BY AgreeStep
<1> QED BY <1>1, AgreeAtFirst, AgreeTranslates, InvAlways, PTL DEF Spec

-----------------------------------------------------------------------------
(* Both directions of the page table, and the fast path.                    *)

(* The pages that a call will map are the process's own, have no hook, and *)
(* are mapped at most where the call before unmaps them.                   *)
Claim(t, where) ==
    /\ Span(t.p, t.n) \subseteq allocated \ hooked
    /\ \A v \in VPage : physical[v] \in Span(t.p, t.n) => v \in where

PagesRight ==
    /\ \A p \in PPage : ToSet(virtual[p]) = {v \in VPage : physical[v] = p}
    /\ \A v, w \in VPage : physical[v] = physical[w] /\ physical[v] # Unmapped => v = w
    /\ \A v \in VPage : physical[v] # Unmapped => physical[v] \in allocated
    /\ host = {v \in VPage : physical[v] # Unmapped /\ physical[v] \notin hooked}
    /\ \A t \in MapCall : todo = <<t>> => Claim(t, {})
    /\ \A u \in UnmapCall, t \in MapCall : todo = <<u, t>> => Claim(t, Span(u.v, u.n))
PagesInv ==
    /\ fault = "none" => PagesRight
    /\ fault # "page table cache entry does not exist"

(* What is shown of the page table is enough. *)
LEMMA PagesInvSuffices == PagesInv => PageTableRight
<1> SUFFICES ASSUME PagesInv PROVE PageTableRight
  OBVIOUS
<1>1. ReverseMap
  BY DEF PagesInv, PagesRight, ReverseMap
<1>2. FastPathUnhooked
  BY DEF PagesInv, PagesRight, FastPathUnhooked, Ready
<1> QED BY <1>1, <1>2 DEF PageTableRight

(* It starts empty. *)
LEMMA PagesAtFirst == Init => PagesInv
<1> SUFFICES ASSUME Init PROVE PagesInv
  OBVIOUS
<1>1. fault = "none" /\ todo = <<>> /\ host = {}
  BY DEF Init
<1>2. \A v \in VPage : physical[v] = Unmapped
  BY DEF Init
<1>3. \A p \in PPage : p # Unmapped
  BY AddressSpaceAssumption DEF PPage, Unmapped
<1>4. \A p \in PPage : ToSet(virtual[p]) = {}
  <2>1. ToSet(<<>>) = {}
    BY DEF ToSet
  <2> QED BY <2>1 DEF Init
<1>5. \A t, u : todo # <<t>> /\ todo # <<u, t>>
  BY <1>1
<1> QED BY <1>1, <1>2, <1>3, <1>4, <1>5 DEF PagesInv, PagesRight

(* The elements of a longer sequence. *)
LEMMA ToSetAppend ==
    ASSUME NEW S, NEW q \in Seq(S), NEW x \in S
    PROVE  ToSet(Append(q, x)) = ToSet(q) \cup {x}
<1> DEFINE r == Append(q, x)
<1>1. /\ r \in Seq(S) /\ Len(r) = Len(q) + 1 /\ Len(q) \in Nat
      /\ \A i \in 1..Len(q) : r[i] = q[i]
      /\ r[Len(q) + 1] = x
  BY AppendProperties, LenProperties
<1>2. DOMAIN q = 1..Len(q) /\ DOMAIN r = 1..(Len(q) + 1)
  BY <1>1, LenProperties
<1> HIDE DEF r
<1>3. \A i : i \in 1..(Len(q) + 1) <=> i \in 1..Len(q) \/ i = Len(q) + 1
  BY <1>1
<1>4. ToSet(r) = {r[i] : i \in 1..(Len(q) + 1)} /\ ToSet(q) = {q[i] : i \in 1..Len(q)}
  BY <1>2 DEF ToSet
<1>5. \A y : y \in ToSet(r) <=> y \in ToSet(q) \/ y = x
  BY <1>1, <1>3, <1>4
<1> QED BY <1>5 DEF r

(* A range that no mapping reaches into is not mapped. *)
LEMMA FreeUnmapped ==
    ASSUME Inv, NEW v \in Nat, NEW n \in Nat, n >= 1, v + n <= VPages, Free(vm, v, n)
    PROVE  \A w \in Span(v, n) : w \in VPage /\ EntryIn(vm, w) = Nowhere
<1>1. Span(v, n) \subseteq VPage
  BY HitsCovers DEF Inv
<1>2. \A j : ~Hits(v, n, j)
  <2> SUFFICES ASSUME NEW j, Hits(v, n, j) PROVE FALSE
    OBVIOUS
  <2>1. j \in DOMAIN vm /\ j < v + n /\ v < Limit(vm, j)
    BY DEF Hits
  <2>2. Limit(vm, j) <= v \/ v + n <= j
    BY <2>1 DEF Free
  <2>3. Limit(vm, j) \in Nat /\ j \in Nat
    BY <2>1, MappingFacts DEF Inv
  <2> QED BY <2>1, <2>2, <2>3
<1>3. \A w \in Span(v, n) : EntryIn(vm, w) = Nowhere
  BY <1>2, HitsCovers DEF Inv
<1> QED BY <1>1, <1>3

(* PageTable::Insert: the physical pages were mapped nowhere, and the range maps nothing. *)
LEMMA MapPages ==
    ASSUME Inv, AgreeInv, PagesInv, MapVirtualMemory
    PROVE  PagesInv'
<1>1. fault = "none" /\ todo # <<>> /\ Head(todo).op = "map" /\ todo' = Tail(todo)
      /\ allocated' = allocated /\ hooked' = hooked
  BY DEF MapVirtualMemory
<1>2. fault' # "page table cache entry does not exist"
  BY <1>1 DEF MapVirtualMemory, Fail
<1> SUFFICES ASSUME fault' = "none" PROVE PagesRight'
  BY <1>2 DEF PagesInv
<1>3. PICK t : t = Head(todo) /\ t \in MapCall /\ todo = <<t>> /\ Tail(todo) = <<>>
  BY <1>1, NextCall DEF Inv
<1>4. /\ t.p \in Nat /\ t.p \in PPage /\ t.v \in VPage /\ t.v \in Nat /\ t.n \in Nat /\ t.n >= 1
      /\ t.v + t.n <= VPages /\ t.p + t.n <= PPages /\ VPages \in Nat /\ PPages \in Nat
  BY <1>3, MapFields, AddressSpaceAssumption DEF VPage, PPage
<1>5. ~Taken(t.v, t.n) /\ InsertPages(t.p, t.v, t.n)
  BY <1>3 DEF MapVirtualMemory, Fail
<1>6. Free(vm, t.v, t.n)
  BY <1>4, <1>5, NotTaken DEF Inv
<1>7. \A w \in Span(t.v, t.n) : w \in VPage /\ physical[w] = Unmapped
  <2>1. \A w \in Span(t.v, t.n) : w \in VPage /\ EntryIn(vm, w) = Nowhere
    BY <1>4, <1>6, FreeUnmapped
  <2> QED BY <1>1, <2>1 DEF AgreeInv, Agree, Nowhere
<1>8. /\ PagesRight /\ Claim(t, {})
  BY <1>1, <1>3 DEF PagesInv, PagesRight
<1>9. \A w \in VPage : physical[w] \notin Span(t.p, t.n)
  BY <1>8 DEF Claim
<1>10. \A w \in VPage : physical'[w] = IF w \in Span(t.v, t.n) THEN t.p + w - t.v ELSE physical[w]
  BY <1>5 DEF InsertPages
<1>11. \A w \in Span(t.v, t.n) : /\ w \in Nat /\ t.p + w - t.v \in Span(t.p, t.n)
                                 /\ t.p + w - t.v # Unmapped
  BY <1>4 DEF Span, Unmapped
<1>12. ASSUME NEW p \in PPage PROVE ToSet(virtual'[p]) = {v \in VPage : physical'[v] = p}
  <2>1. virtual'[p] = IF p \in Span(t.p, t.n) THEN Append(virtual[p], t.v + p - t.p) ELSE virtual[p]
    BY <1>5 DEF InsertPages
  <2>2. ToSet(virtual[p]) = {v \in VPage : physical[v] = p}
    BY <1>8 DEF PagesRight
  <2>3. p \in Nat /\ p # Unmapped
    BY AddressSpaceAssumption DEF PPage, Unmapped
  <2>4. CASE p \in Span(t.p, t.n)
    <3>1. PICK w : w = t.v + p - t.p
      OBVIOUS
    <3>2. w \in Span(t.v, t.n) /\ t.p + w - t.v = p
      BY <1>4, <2>3, <2>4, <3>1 DEF Span
    <3>3. ToSet(virtual[p]) = {}
      BY <1>9, <2>2, <2>4
    <3>4. ToSet(virtual'[p]) = {w}
      <4>1. virtual[p] \in Seq(VPage) /\ w \in VPage
        BY <1>7, <3>2 DEF Inv, PageTypes
      <4>2. virtual'[p] = Append(virtual[p], w)
        BY <2>1, <2>4, <3>1
      <4> QED BY <3>3, <4>1, <4>2, ToSetAppend
    <3>5. ASSUME NEW v \in VPage PROVE physical'[v] = p <=> v = w
      <4>1. CASE v \in Span(t.v, t.n)
        <5>1. physical'[v] = t.p + v - t.v /\ v \in Nat /\ w \in Nat
          BY <1>10, <1>11, <3>2, <4>1
        <5>2. t.p + v - t.v = t.p + w - t.v <=> v = w
          BY <1>4, <5>1
        <5> QED BY <3>2, <5>1, <5>2
      <4>2. CASE v \notin Span(t.v, t.n)
        BY <1>9, <1>10, <2>4, <3>2, <4>2
      <4> QED BY <4>1, <4>2
    <3>6. w \in VPage
      BY <1>7, <3>2
    <3> QED BY <3>4, <3>5, <3>6
  <2>5. CASE p \notin Span(t.p, t.n)
    <3>1. \A v \in VPage : physical'[v] = p <=> physical[v] = p
      BY <1>7, <1>10, <1>11, <2>3, <2>5
    <3> QED BY <2>1, <2>2, <2>5, <3>1
  <2> QED BY <2>4, <2>5
<1>13. ASSUME NEW v \in VPage, NEW w \in VPage, physical'[v] = physical'[w], physical'[v] # Unmapped
       PROVE  v = w
  <2>1. CASE v \in Span(t.v, t.n) /\ w \in Span(t.v, t.n)
    <3>1. t.p + v - t.v = t.p + w - t.v /\ v \in Nat /\ w \in Nat
      BY <1>10, <1>11, <1>13, <2>1
    <3> QED BY <1>4, <3>1
  <2>2. CASE v \in Span(t.v, t.n) /\ w \notin Span(t.v, t.n)
    BY <1>9, <1>10, <1>11, <1>13, <2>2
  <2>3. CASE v \notin Span(t.v, t.n) /\ w \in Span(t.v, t.n)
    BY <1>9, <1>10, <1>11, <1>13, <2>3
  <2>4. CASE v \notin Span(t.v, t.n) /\ w \notin Span(t.v, t.n)
    BY <1>8, <1>10, <1>13, <2>4 DEF PagesRight
  <2> QED BY <2>1, <2>2, <2>3, <2>4
<1>14. ASSUME NEW v \in VPage, physical'[v] # Unmapped PROVE physical'[v] \in allocated'
  <2>1. CASE v \in Span(t.v, t.n)
    BY <1>1, <1>8, <1>10, <1>11, <2>1 DEF Claim
  <2>2. CASE v \notin Span(t.v, t.n)
    BY <1>1, <1>8, <1>10, <1>14, <2>2 DEF PagesRight
  <2> QED BY <2>1, <2>2
<1>15. host' = {v \in VPage : physical'[v] # Unmapped /\ physical'[v] \notin hooked'}
  <2>1. host' = host \cup Span(t.v, t.n)
    BY <1>5 DEF InsertPages
  <2>2. host = {v \in VPage : physical[v] # Unmapped /\ physical[v] \notin hooked}
    BY <1>8 DEF PagesRight
  <2>3. \A q \in Span(t.p, t.n) : q \notin hooked'
    BY <1>1, <1>8 DEF Claim
  <2>4. ASSUME NEW v PROVE v \in host' <=> v \in VPage /\ physical'[v] # Unmapped /\ physical'[v] \notin hooked'
    <3>1. CASE v \in Span(t.v, t.n)
      BY <1>7, <1>10, <1>11, <2>1, <2>3, <3>1
    <3>2. CASE v \notin Span(t.v, t.n)
      BY <1>1, <1>10, <2>1, <2>2, <3>2
    <3> QED BY <3>1, <3>2
  <2> QED BY <2>4
<1>16. todo' = <<>>
  BY <1>1, <1>3
<1>17. \A x, u : todo' # <<x>> /\ todo' # <<u, x>>
  BY <1>16
<1> QED BY <1>12, <1>13, <1>14, <1>15, <1>17 DEF PagesRight

(* PageTable::Remove: the address that it removes is the only one of its page. *)
LEMMA UnmapPages ==
    ASSUME Inv, AgreeInv, PagesInv, UnmapVirtualMemory
    PROVE  PagesInv'
<1>1. PICK t \in UnmapCall : \E k \in DOMAIN vm, size \in 1..t.n :
              /\ fault = "none" /\ Agree /\ todo # <<>> /\ t = Head(todo) /\ t.op = "unmap"
              /\ k <= t.v /\ t.v < Limit(vm, k) /\ size = Min({Limit(vm, k) - t.v, t.n})
              /\ vm' = CutMap(k, t.v, t.n) /\ RemovePages(t.v, size) /\ fault' = "none"
              /\ todo' = IF t.n > size
                         THEN <<Unmap(t.v + size, t.n - size, t.must)>> \o Tail(todo)
                         ELSE Tail(todo)
  BY ChunkIs
<1>2. PICK size \in 1..t.n :
              /\ fault = "none" /\ todo # <<>> /\ t = Head(todo) /\ t.op = "unmap"
              /\ RemovePages(t.v, size) /\ fault' = "none"
              /\ todo' = IF t.n > size
                         THEN <<Unmap(t.v + size, t.n - size, t.must)>> \o Tail(todo)
                         ELSE Tail(todo)
  BY <1>1
<1>3. /\ t.v \in VPage /\ t.v \in Nat /\ t.n \in Nat /\ t.n >= 1 /\ t.n \in 1..VPages
      /\ t.v + t.n <= VPages /\ VPages \in Nat /\ size \in Nat /\ size >= 1 /\ size <= t.n
  BY UnmapFields, AddressSpaceAssumption DEF VPage
<1>4. PagesRight
  BY <1>2 DEF PagesInv
<1>5. allocated' = allocated /\ hooked' = hooked
  BY DEF UnmapVirtualMemory
<1>6. \A w \in VPage : physical'[w] = IF w \in Span(t.v, size) THEN Unmapped ELSE physical[w]
  BY <1>2 DEF RemovePages
<1>7. \A w \in Span(t.v, size) : w \in VPage
  BY <1>3 DEF Span, VPage
<1>8. ASSUME NEW p \in PPage PROVE ToSet(virtual'[p]) = {v \in VPage : physical'[v] = p}
  <2>1. PICK gone : gone = {physical[w] : w \in Span(t.v, size)}
    OBVIOUS
  <2>2. virtual'[p] = IF p \in gone THEN <<>> ELSE virtual[p]
    BY <1>2, <2>1 DEF RemovePages
  <2>3. ToSet(virtual[p]) = {v \in VPage : physical[v] = p}
    BY <1>4 DEF PagesRight
  <2>4. p # Unmapped
    BY AddressSpaceAssumption DEF PPage, Unmapped
  <2>5. CASE p \in gone
    <3>1. PICK w \in Span(t.v, size) : physical[w] = p
      BY <2>1, <2>5
    <3>2. \A v \in VPage : physical[v] = p => v = w
      BY <1>4, <1>7, <2>4, <3>1 DEF PagesRight
    <3>3. \A v \in VPage : physical'[v] # p
      BY <1>6, <2>4, <3>1, <3>2
    <3>4. ToSet(<<>>) = {}
      BY DEF ToSet
    <3> QED BY <2>2, <2>5, <3>3, <3>4
  <2>6. CASE p \notin gone
    <3>1. \A v \in VPage : physical'[v] = p <=> physical[v] = p
      BY <1>6, <2>1, <2>4, <2>6
    <3> QED BY <2>2, <2>3, <2>6, <3>1
  <2> QED BY <2>5, <2>6
<1>9. \A v, w \in VPage : physical'[v] = physical'[w] /\ physical'[v] # Unmapped => v = w
  BY <1>4, <1>6 DEF PagesRight
<1>10. \A v \in VPage : physical'[v] # Unmapped => physical'[v] \in allocated'
  BY <1>4, <1>5, <1>6 DEF PagesRight
<1>11. host' = {v \in VPage : physical'[v] # Unmapped /\ physical'[v] \notin hooked'}
  <2>1. host' = host \ Span(t.v, size)
    BY <1>2 DEF RemovePages
  <2>2. host = {v \in VPage : physical[v] # Unmapped /\ physical[v] \notin hooked}
    BY <1>4 DEF PagesRight
  <2>3. ASSUME NEW v PROVE v \in host' <=> v \in VPage /\ physical'[v] # Unmapped /\ physical'[v] \notin hooked'
    BY <1>5, <1>6, <2>1, <2>2
  <2> QED BY <2>3
<1>12. Tail(todo) = <<>> \/ \E x \in MapCall : Tail(todo) = <<x>> /\ todo = <<t, x>>
  BY <1>2, NextCall DEF Inv
<1>13. ASSUME NEW x \in MapCall, todo = <<t, x>>
       PROVE  /\ Span(x.p, x.n) \subseteq allocated' \ hooked'
              /\ \A v \in VPage : physical'[v] \in Span(x.p, x.n) =>
                                      v \in Span(t.v, t.n) /\ v \notin Span(t.v, size)
  <2>1. Claim(x, Span(t.v, t.n))
    BY <1>4, <1>13 DEF PagesRight
  <2>2. Unmapped \notin Span(x.p, x.n)
    <3>1. x.p \in Nat
      BY MapFields, AddressSpaceAssumption DEF PPage
    <3> QED BY <3>1 DEF Span, Unmapped
  <2> QED BY <1>5, <1>6, <2>1, <2>2 DEF Claim
<1>14. /\ \A x \in MapCall : todo' = <<x>> => Claim(x, {})'
       /\ \A u \in UnmapCall, x \in MapCall : todo' = <<u, x>> => Claim(x, Span(u.v, u.n))'
  <2>1. CASE t.n > size
    <3>1. PICK u : u = Unmap(t.v + size, t.n - size, t.must)
      OBVIOUS
    <3>2. u.op = "unmap" /\ u.v = t.v + size /\ u.n = t.n - size
      BY <3>1 DEF Unmap
    <3>3. todo' = <<u>> \o Tail(todo)
      BY <1>2, <2>1, <3>1
    <3>4. CASE Tail(todo) = <<>>
      <4>1. todo' = <<u>>
        BY <3>3, <3>4, Joined
      <4>2. \A x \in MapCall : todo' # <<x>>
        <5>1. \A x : todo' = <<x>> => x = u
          BY <4>1
        <5> QED BY <3>2, <5>1, MapFields
      <4>3. \A x, y : todo' # <<y, x>>
        BY <4>1
      <4> QED BY <4>2, <4>3
    <3>5. CASE \E x \in MapCall : Tail(todo) = <<x>> /\ todo = <<t, x>>
      <4>1. PICK x \in MapCall : Tail(todo) = <<x>> /\ todo = <<t, x>>
        BY <3>5
      <4>2. todo' = <<u, x>>
        BY <3>3, <4>1, Joined
      <4>3. Claim(x, Span(u.v, u.n))'
        <5>1. \A v \in VPage : v \in Span(t.v, t.n) /\ v \notin Span(t.v, size) => v \in Span(u.v, u.n)
          BY <1>3, <2>1, <3>2 DEF Span, VPage
        <5> QED BY <1>13, <4>1, <5>1 DEF Claim
      <4>4. \A y, z : todo' = <<y, z>> => y = u /\ z = x
        BY <4>2
      <4>5. \A y : todo' # <<y>>
        BY <4>2
      <4> QED BY <4>3, <4>4, <4>5
    <3> QED BY <1>12, <3>4, <3>5
  <2>2. CASE ~(t.n > size)
    <3>1. size = t.n /\ todo' = Tail(todo)
      BY <1>2, <1>3, <2>2
    <3>2. CASE Tail(todo) = <<>>
      <4>1. todo' = <<>>
        BY <3>1, <3>2
      <4>2. \A x, y : todo' # <<y, x>> /\ todo' # <<x>>
        BY <4>1
      <4> QED BY <4>2
    <3>3. CASE \E x \in MapCall : Tail(todo) = <<x>> /\ todo = <<t, x>>
      <4>1. PICK x \in MapCall : Tail(todo) = <<x>> /\ todo = <<t, x>>
        BY <3>3
      <4>2. todo' = <<x>>
        BY <3>1, <4>1
      <4>3. Claim(x, {})'
        BY <1>13, <3>1, <4>1 DEF Claim
      <4>4. \A y : todo' = <<y>> => y = x
        BY <4>2
      <4>5. \A y, z : todo' # <<y, z>>
        BY <4>2
      <4> QED BY <4>3, <4>4, <4>5
    <3> QED BY <1>12, <3>2, <3>3
  <2> QED BY <2>1, <2>2
<1> QED BY <1>2, <1>8, <1>9, <1>10, <1>11, <1>14 DEF PagesInv, PagesRight

(* A system call whose claim is good. *)
LEMMA CallPages ==
    ASSUME Inv, PagesInv, Ready, fault' = "none", allocated \subseteq allocated',
           UNCHANGED <<physical, virtual, host, hooked>>,
           \A t \in MapCall : todo' = <<t>> => Claim(t, {})',
           \A u \in UnmapCall, t \in MapCall : todo' = <<u, t>> => Claim(t, Span(u.v, u.n))'
    PROVE  PagesInv'
<1>1. PagesRight
  BY DEF PagesInv, Ready
<1> QED BY <1>1 DEF PagesInv, PagesRight

(* If an allocation fails, nothing else happens any more. *)
LEMMA AllocatePages ==
    ASSUME Inv, PagesInv, NEW n \in 1..MaxSize, NEW p \in PPage, Allocate(p, n)
    PROVE  PagesInv'
<1>1. /\ Ready /\ UNCHANGED <<physical, virtual, host, hooked>> /\ allocated' = allocated \cup Span(p, n)
      /\ p + n <= PPages /\ Span(p, n) \cap allocated = {} /\ Mappable(p, n)
  BY DEF Allocate
<1>2. PICK v : IF v = Unmapped
               THEN /\ fault' = "no address space" /\ UNCHANGED <<todo, pages>>
               ELSE todo' = <<Map(p, v, n, "rw")>> /\ UNCHANGED fault
  BY DEF Allocate
<1>3. CASE v = Unmapped
  BY <1>2, <1>3 DEF PagesInv
<1>4. CASE v # Unmapped
  <2>1. PICK t : t = Map(p, v, n, "rw")
    OBVIOUS
  <2>2. todo' = <<t>> /\ t.p = p /\ t.n = n
    BY <1>2, <1>4, <2>1 DEF Map
  <2>3. fault' = "none"
    BY <1>1, <1>2, <1>4 DEF Ready
  <2>4. Claim(t, {})'
    <3>1. \A w \in VPage : physical[w] # Unmapped => physical[w] \in allocated
      BY <1>1 DEF PagesInv, PagesRight, Ready
    <3>2. Unmapped \notin Span(p, n)
      BY AddressSpaceAssumption DEF Unmapped, Span, PPage
    <3>3. Span(p, n) \subseteq allocated' \ hooked'
      BY <1>1 DEF Mappable
    <3> QED BY <1>1, <2>2, <3>1, <3>2, <3>3 DEF Claim
  <2>5. \A x : todo' = <<x>> => x = t
    BY <2>2
  <2>6. \A x, y : todo' # <<x, y>>
    BY <2>2
  <2>7. allocated \subseteq allocated'
    BY <1>1
  <2> QED BY <1>1, <2>3, <2>4, <2>5, <2>6, <2>7, CallPages
<1> QED BY <1>3, <1>4

(* Operation 5 claims nothing. *)
LEMMA ReleasePages ==
    ASSUME Inv, PagesInv, NEW n \in 1..MaxSize, NEW v \in 0..(VPages - n), Release(v, n)
    PROVE  PagesInv'
<1>1. /\ Ready /\ UNCHANGED <<physical, virtual, host, hooked, allocated, fault>>
  BY DEF Release
<1>2. PICK t : t = Unmap(v, n, TRUE)
  OBVIOUS
<1>3. t.op = "unmap" /\ todo' = <<t>>
  BY <1>2 DEF Unmap, Release
<1>4. \A x \in MapCall : todo' # <<x>>
  <2>1. \A x : todo' = <<x>> => x = t
    BY <1>3
  <2> QED BY <1>3, <2>1, MapFields
<1>5. \A x, y : todo' # <<x, y>>
  BY <1>3
<1>6. fault' = "none"
  BY <1>1 DEF Ready
<1> QED BY <1>1, <1>4, <1>5, <1>6, CallPages

(* Memory that is mapped again where it is: its pages are its own. *)
LEMMA AgainPages ==
    ASSUME Inv, AgreeInv, PagesInv, Ready, NEW n \in Nat, n >= 1, NEW v \in VPage, v + n <= VPages,
           NEW p, p = ResolveVirtualAddr(v), p # Unmapped, Contiguous(v, n), Mappable(p, n),
           UNCHANGED <<physical, virtual, host, hooked, allocated, fault>>,
           NEW u, u.v = v, u.n = n, NEW t, t.p = p, t.n = n, todo' = <<u, t>>
    PROVE  PagesInv'
<1>1. /\ p \in PPage /\ v \in Nat
      /\ \A x \in Span(v, n) : /\ x \in VPage /\ x \in Nat /\ pages[x].phys = p + x - v
  BY ContiguousMapped
<1>2. \A x \in VPage : physical[x] = pages[x].phys
  <2>1. Agree /\ todo = <<>>
    BY DEF AgreeInv, Ready
  <2> QED BY <2>1 DEF Agree, AfterAll
<1>3. PagesRight
  BY DEF PagesInv, Ready
<1>4. p \in Nat /\ VPages \in Nat
  BY <1>1, AddressSpaceAssumption DEF PPage
<1>5. ASSUME NEW q \in Span(p, n)
      PROVE  \E x \in Span(v, n) : x \in VPage /\ physical[x] = q /\ q # Unmapped
  <2>1. PICK x : x = v + q - p
    OBVIOUS
  <2>2. q \in Nat /\ x \in Span(v, n) /\ p + x - v = q
    BY <1>1, <1>4, <2>1 DEF Span
  <2>3. q # Unmapped
    BY <2>2 DEF Unmapped
  <2> QED BY <1>1, <1>2, <2>2, <2>3
<1>6. Claim(t, Span(v, n))'
  <2>1. Span(p, n) \subseteq allocated \ hooked
    BY <1>3, <1>5 DEF PagesRight, Mappable
  <2>2. \A y \in VPage : physical[y] \in Span(p, n) => y \in Span(v, n)
    BY <1>3, <1>5 DEF PagesRight
  <2> QED BY <2>1, <2>2 DEF Claim
<1>7. \A x, y : todo' = <<x, y>> => x = u /\ y = t
  OBVIOUS
<1>8. \A x : todo' # <<x>>
  OBVIOUS
<1>9. fault' = "none" /\ allocated \subseteq allocated'
  BY DEF Ready
<1> QED BY <1>6, <1>7, <1>8, <1>9, CallPages

(* Operation 6. *)
LEMMA ProtectPages ==
    ASSUME Inv, AgreeInv, PagesInv, NEW n \in 1..MaxSize, NEW v \in 0..(VPages - n), Protect(v, n)
    PROVE  PagesInv'
<1>1. PICK p : p = ResolveVirtualAddr(v)
  OBVIOUS
<1>2. /\ Ready /\ Contiguous(v, n) /\ p # Unmapped /\ Mappable(p, n)
      /\ UNCHANGED <<physical, virtual, host, hooked, allocated, fault>>
  BY <1>1 DEF Protect
<1>3. n \in Nat /\ n >= 1 /\ v \in VPage /\ v + n <= VPages
  BY AddressSpaceAssumption DEF VPage
<1>4. PICK u, t : u = Unmap(v, n, TRUE) /\ t = Map(p, v, n, "rx")
  OBVIOUS
<1>5. u.v = v /\ u.n = n /\ t.p = p /\ t.n = n /\ todo' = <<u, t>>
  BY <1>1, <1>4 DEF Unmap, Map, Protect
<1> QED BY <1>1, <1>2, <1>3, <1>5, AgainPages

(* Without aliases, memory is mapped only where it is already, so that it  *)
(* is unmapped first.                                                      *)
LEMMA MapAlsoPages ==
    ASSUME Inv, AgreeInv, PagesInv, Programs = {},
           NEW n \in 1..MaxSize, NEW v \in 0..(VPages - n), NEW w \in 0..(VPages - n),
           NEW foreign \in BOOLEAN, MapAlso(v, w, n, foreign)
    PROVE  PagesInv'
<1>1. PICK p : p = ResolveVirtualAddr(w)
  OBVIOUS
<1>2. /\ Ready /\ Contiguous(v, n) /\ p # Unmapped /\ Mappable(p, n) /\ v = w /\ foreign
      /\ UNCHANGED <<physical, virtual, host, hooked, allocated, fault>>
  BY <1>1 DEF MapAlso
<1>3. n \in Nat /\ n >= 1 /\ v \in VPage /\ v + n <= VPages /\ v \in Nat /\ v + n \in Nat
  BY AddressSpaceAssumption DEF VPage
<1>4. PICK found : found = FindAvailableVirtualMemory(n, v, v + n)
  OBVIOUS
<1>5. found = Unmapped
  <2> SUFFICES ASSUME found # Unmapped PROVE FALSE
    OBVIOUS
  <2>1. found \in Nat /\ v <= found /\ found + n <= v + n /\ Free(vm, found, n)
    BY <1>3, <1>4, FindResult DEF Inv
  <2>2. found = v
    BY <1>3, <2>1
  <2>3. EntryIn(vm, v) = Nowhere
    <3>1. v \in Span(v, n)
      BY <1>3 DEF Span
    <3> QED BY <1>3, <2>1, <2>2, <3>1, FreeUnmapped
  <2>4. EntryIn(vm, v).phys # Unmapped
    BY <1>1, <1>2, <1>3, Resolved DEF Inv
  <2> QED BY <2>3, <2>4 DEF Nowhere
<1>6. PICK u, t : u = Unmap(v, n, FALSE) /\ t = Map(p, v, n, "r")
  OBVIOUS
<1>7. u.v = v /\ u.n = n /\ t.p = p /\ t.n = n
  BY <1>6 DEF Unmap, Map
<1>8. todo' = <<u, t>>
  <2>1. todo' = <<u>> \o <<t>>
    BY <1>1, <1>2, <1>4, <1>5, <1>6 DEF MapAlso
  <2> QED BY <2>1, Joined
<1>9. p = ResolveVirtualAddr(v)
  BY <1>1, <1>2
<1> QED BY <1>2, <1>3, <1>7, <1>8, <1>9, AgainPages

(* A hook finds every page of the fast path that it has to take off. *)
LEMMA HookPages ==
    ASSUME Inv, PagesInv, NEW p \in PPage, SetHook(p) \/ ClearHook(p)
    PROVE  PagesInv'
<1>1. /\ Ready /\ UNCHANGED <<physical, virtual, allocated, todo>>
  BY DEF SetHook, ClearHook
<1>2. PagesRight /\ fault = "none" /\ todo = <<>>
  BY <1>1 DEF PagesInv, Ready
<1>3. /\ ToSet(virtual[p]) = {v \in VPage : physical[v] = p}
      /\ host = {v \in VPage : physical[v] # Unmapped /\ physical[v] \notin hooked}
  BY <1>2 DEF PagesRight
<1>4. p # Unmapped
  BY AddressSpaceAssumption DEF PPage, Unmapped
<1>5. /\ fault' = "none"
      /\ host' = {v \in VPage : physical[v] # Unmapped /\ physical[v] \notin hooked'}
  <2>1. CASE SetHook(p)
    <3>1. p \notin hooked /\ hooked' = hooked \cup {p} /\ host' = host \ ToSet(virtual[p])
      BY <2>1 DEF SetHook, OnUnbackedByHostMemory
    <3>2. ToSet(virtual[p]) \subseteq host
      BY <1>3, <1>4, <3>1
    <3>3. fault' = "none"
      BY <1>2, <2>1, <3>2 DEF SetHook, OnUnbackedByHostMemory
    <3> QED BY <1>3, <3>1, <3>3
  <2>2. CASE ClearHook(p)
    <3>1. /\ p \in hooked /\ hooked' = hooked \ {p} /\ host' = host \cup ToSet(virtual[p])
          /\ fault' = fault
      BY <2>2 DEF ClearHook
    <3> QED BY <1>2, <1>3, <1>4, <3>1
  <2> QED BY <2>1, <2>2
<1>6. \A x, y : todo' # <<x>> /\ todo' # <<x, y>>
  BY <1>1, <1>2
<1> QED BY <1>1, <1>2, <1>5, <1>6 DEF PagesInv, PagesRight

(* Every step keeps the page table right. *)
LEMMA PagesStep == Programs = {} /\ Inv /\ AgreeInv /\ PagesInv /\ [Next]_vars => PagesInv'
<1> SUFFICES ASSUME Programs = {}, Inv, AgreeInv, PagesInv, [Next]_vars PROVE PagesInv'
  OBVIOUS
<1>1. CASE MapVirtualMemory
  BY <1>1, MapPages
<1>2. CASE UnmapVirtualMemory
  BY <1>2, UnmapPages
<1>3. ASSUME NEW n \in 1..MaxSize, NEW p \in PPage, Allocate(p, n) PROVE PagesInv'
  BY <1>3, AllocatePages
<1>4. ASSUME NEW n \in 1..MaxSize, NEW v \in 0..(VPages - n), Release(v, n) PROVE PagesInv'
  BY <1>4, ReleasePages
<1>5. ASSUME NEW n \in 1..MaxSize, NEW v \in 0..(VPages - n), Protect(v, n) PROVE PagesInv'
  BY <1>5, ProtectPages
<1>6. ASSUME NEW n \in 1..MaxSize, NEW v \in 0..(VPages - n), NEW w \in 0..(VPages - n),
             NEW foreign \in BOOLEAN, MapAlso(v, w, n, foreign)
      PROVE  PagesInv'
  BY <1>6, MapAlsoPages
<1>7. ASSUME NEW p \in PPage, SetHook(p) \/ ClearHook(p) PROVE PagesInv'
  BY <1>7, HookPages
<1>8. CASE UNCHANGED vars
  BY <1>8 DEF vars, PagesInv, PagesRight, Claim
<1> QED BY <1>1, <1>2, <1>3, <1>4, <1>5, <1>6, <1>7, <1>8 DEF Next, Halted

(* For programs that map each of their pages once, the page table has both *)
(* directions right between any two recursions, the fast path leaves out   *)
(* exactly the pages with a hook, and a hook never misses an entry.        *)
THEOREM PageTableIsExact == Programs = {} => (Spec => []PageTableRight)
<1> SUFFICES ASSUME Programs = {} PROVE Spec => []PageTableRight
  OBVIOUS
<1>1. "gaps" \notin Programs
  OBVIOUS
<1>2. Inv /\ AgreeInv /\ [Next]_vars => AgreeInv'
  BY <1>1, AgreeStep
<1>3. Inv /\ AgreeInv /\ PagesInv /\ [Next]_vars => PagesInv'
  BY PagesStep
<1> QED BY <1>2, <1>3, AgreeAtFirst, PagesAtFirst, PagesInvSuffices, InvAlways, PTL DEF Spec
=============================================================================
