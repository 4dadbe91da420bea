------------------------ MODULE MemoryManagerProofs ------------------------
(***************************************************************************)
(* Proofs about MemoryManager, for any region, any sizes and any owners.   *)
(*                                                                         *)
(* The argument: the blocks of both maps together tile the region.  Every  *)
(* operation replaces one block by at most three that tile it, and every   *)
(* iteration of a merging loop replaces two neighbours by one.             *)
(***************************************************************************)
EXTENDS MemoryManager, TLAPS

All == free \cup taken

(* The blocks of S are not empty, do not overlap, and cover lo .. hi - 1. *)
Within(S, lo, hi) ==
    \A b \in S : /\ b.addr \in Int /\ b.size \in Int /\ b.size > 0
                 /\ lo <= b.addr /\ b.addr + b.size <= hi
Covers(S, lo, hi) ==
    \A x \in Int : lo <= x /\ x < hi => \E b \in S : b.addr <= x /\ x < b.addr + b.size
Apart(S) ==
    \A b, c \in S : b # c => b.addr + b.size <= c.addr \/ c.addr + c.size <= b.addr
Tiles(S, lo, hi) == Within(S, lo, hi) /\ Covers(S, lo, hi) /\ Apart(S)

(* What the merging loops have established so far. *)
LoopInv ==
    /\ phase # "mergeFree" => Merged(free)
    /\ phase = "idle" => Merged(taken)

(* The inductive invariant. *)
Inv == /\ TypeOK /\ OwnersExist /\ LoopInv
       /\ Tiles(All, RegionStart, RegionStart + RegionSize)

-----------------------------------------------------------------------------
(* Replacing a block by blocks that tile it. *)
LEMMA SplitTiles ==
    ASSUME NEW S, NEW P, NEW lo \in Int, NEW hi \in Int, NEW b \in S,
           Tiles(S, lo, hi), Tiles(P, b.addr, b.addr + b.size)
    PROVE  Tiles((S \ {b}) \cup P, lo, hi)
<1> DEFINE T == (S \ {b}) \cup P
<1>0. b.addr \in Int /\ b.size \in Int /\ b.size > 0 /\ lo <= b.addr /\ b.addr + b.size <= hi
  BY DEF Tiles, Within
<1>1. Within(T, lo, hi)
  BY <1>0 DEF Tiles, Within
<1>2. Covers(T, lo, hi)
  <2> SUFFICES ASSUME NEW x \in Int, lo <= x, x < hi
               PROVE  \E c \in T : c.addr <= x /\ x < c.addr + c.size
    BY DEF Covers
  <2>1. PICK c \in S : c.addr <= x /\ x < c.addr + c.size
    BY DEF Tiles, Covers
  <2>2. CASE c # b
    BY <2>1, <2>2
  <2>3. CASE c = b
    BY <2>1, <2>3 DEF Tiles, Covers
  <2> QED BY <2>2, <2>3
<1>3. Apart(T)
  <2>1. \A c, d \in S \ {b} : c # d => c.addr + c.size <= d.addr \/ d.addr + d.size <= c.addr
    BY DEF Tiles, Apart
  <2>2. \A c, d \in P : c # d => c.addr + c.size <= d.addr \/ d.addr + d.size <= c.addr
    BY DEF Tiles, Apart
  <2>3. \A c \in S \ {b}, d \in P : c.addr + c.size <= d.addr \/ d.addr + d.size <= c.addr
    <3> SUFFICES ASSUME NEW c \in S \ {b}, NEW d \in P
                 PROVE  c.addr + c.size <= d.addr \/ d.addr + d.size <= c.addr
      OBVIOUS
    <3>1. c.addr + c.size <= b.addr \/ b.addr + b.size <= c.addr
      BY DEF Tiles, Apart
    <3>2. /\ d.addr \in Int /\ d.size \in Int /\ b.addr <= d.addr
          /\ d.addr + d.size <= b.addr + b.size
      BY DEF Tiles, Within
    <3>3. c.addr \in Int /\ c.size \in Int
      BY DEF Tiles, Within
    <3> QED BY <1>0, <3>1, <3>2, <3>3
  <2> QED BY <2>1, <2>2, <2>3 DEF Apart
<1> QED BY <1>1, <1>2, <1>3 DEF Tiles

(* Replacing two neighbours by one block. *)
LEMMA MergeTiles ==
    ASSUME NEW S, NEW lo \in Int, NEW hi \in Int, NEW b \in S, NEW c \in S, NEW m,
           Tiles(S, lo, hi), b.addr + b.size = c.addr,
           m.addr = b.addr, m.size = b.size + c.size
    PROVE  Tiles((S \ {b, c}) \cup {m}, lo, hi)
<1> DEFINE T == (S \ {b, c}) \cup {m}
<1>0. \A d \in S : d.addr \in Int /\ d.size \in Int /\ d.size > 0
                     /\ lo <= d.addr /\ d.addr + d.size <= hi
  BY DEF Tiles, Within
<1>1. Within(T, lo, hi)
  BY <1>0 DEF Within
<1>2. Covers(T, lo, hi)
  <2> SUFFICES ASSUME NEW x \in Int, lo <= x, x < hi
               PROVE  \E d \in T : d.addr <= x /\ x < d.addr + d.size
    BY DEF Covers
  <2>1. PICK d \in S : d.addr <= x /\ x < d.addr + d.size
    BY DEF Tiles, Covers
  <2>2. CASE d \notin {b, c}
    BY <2>1, <2>2
  <2>3. CASE d \in {b, c}
    BY <1>0, <2>1, <2>3
  <2> QED BY <2>2, <2>3
<1>3. Apart(T)
  <2>1. \A d, e \in S \ {b, c} : d # e => d.addr + d.size <= e.addr \/ e.addr + e.size <= d.addr
    BY DEF Tiles, Apart
  <2>2. \A d \in S \ {b, c} : d.addr + d.size <= m.addr \/ m.addr + m.size <= d.addr
    <3> SUFFICES ASSUME NEW d \in S \ {b, c}
                 PROVE  d.addr + d.size <= m.addr \/ m.addr + m.size <= d.addr
      OBVIOUS
    <3>1. d.addr + d.size <= b.addr \/ b.addr + b.size <= d.addr
      BY DEF Tiles, Apart
    <3>2. d.addr + d.size <= c.addr \/ c.addr + c.size <= d.addr
      BY DEF Tiles, Apart
    <3> QED BY <1>0, <3>1, <3>2
  <2> QED BY <2>1, <2>2 DEF Apart
<1> QED BY <1>1, <1>2, <1>3 DEF Tiles

(* The middle of a block, with what is left of it before and beyond. *)
LEMMA PartsTile ==
    ASSUME NEW b, NEW a \in Int, NEW n \in Int, NEW o,
           b.addr \in Int, b.size \in Int, b.size > 0,
           n > 0, b.addr <= a, a + n <= b.addr + b.size
    PROVE  Tiles(UpTo(b, a) \cup {MemoryBlock(a, n, o)} \cup Beyond(b, a + n),
                 b.addr, b.addr + b.size)
<1> DEFINE before == MemoryBlock(b.addr, a - b.addr, b.owner)
           middle == MemoryBlock(a, n, o)
           beyond == MemoryBlock(a + n, b.addr + b.size - (a + n), b.owner)
           P == UpTo(b, a) \cup {middle} \cup Beyond(b, a + n)
<1>1. /\ before.addr = b.addr /\ before.size = a - b.addr
      /\ middle.addr = a /\ middle.size = n
      /\ beyond.addr = a + n /\ beyond.size = b.addr + b.size - (a + n)
  BY DEF MemoryBlock
<1>2. P = (IF b.addr < a THEN {before} ELSE {}) \cup {middle}
             \cup (IF b.addr + b.size > a + n THEN {beyond} ELSE {})
  BY DEF UpTo, Beyond, End
<1> HIDE DEF before, middle, beyond, P
<1>3. Within(P, b.addr, b.addr + b.size)
  BY <1>1, <1>2 DEF Within
<1>4. Covers(P, b.addr, b.addr + b.size)
  <2> SUFFICES ASSUME NEW x \in Int, b.addr <= x, x < b.addr + b.size
               PROVE  \E d \in P : d.addr <= x /\ x < d.addr + d.size
    BY DEF Covers
  <2>1. CASE x < a
    BY <1>1, <1>2, <2>1
  <2>2. CASE a <= x /\ x < a + n
    BY <1>1, <1>2, <2>2
  <2>3. CASE a + n <= x
    BY <1>1, <1>2, <2>3
  <2> QED BY <2>1, <2>2, <2>3
<1>5. Apart(P)
  <2>1. \A d \in P : d \in {before, middle, beyond}
    BY <1>2
  <2> QED BY <1>1, <2>1 DEF Apart
<1> QED BY <1>3, <1>4, <1>5 DEF Tiles, P, middle

(* The parts of a block inherit its type. *)
LEMMA PartTypes ==
    ASSUME NEW b, NEW a \in Int, NEW n \in Int, NEW O,
           b \in [addr : Address, size : 1..RegionSize, owner : O],
           n > 0, b.addr <= a, a + n <= b.addr + b.size,
           b.addr + b.size <= RegionStart + RegionSize
    PROVE  /\ UpTo(b, a) \subseteq [addr : Address, size : 1..RegionSize, owner : O]
           /\ Beyond(b, a + n) \subseteq [addr : Address, size : 1..RegionSize, owner : O]
           /\ a \in Address /\ n \in 1..RegionSize
           /\ \A c \in UpTo(b, a) \cup Beyond(b, a + n) : c.owner = b.owner
BY MemoryManagerAssumption DEF UpTo, Beyond, End, MemoryBlock, Address

-----------------------------------------------------------------------------
(* Every block is a record of integers and an owner. *)
LEMMA BlockTypes ==
    ASSUME Inv
    PROVE  /\ \A b \in All : /\ b.addr \in Int /\ b.size \in Int /\ b.size > 0
                             /\ End(b) = b.addr + b.size
                             /\ RegionStart <= b.addr
                             /\ b.addr + b.size <= RegionStart + RegionSize
           /\ \A b \in free : b.owner = NoOwner /\ b \notin taken
           /\ \A b \in taken : b.owner \in Owner /\ b \notin free
           /\ \A b, c \in All : b # c => \/ b.addr + b.size <= c.addr
                                         \/ c.addr + c.size <= b.addr
<1>1. \A b \in free : b.owner = NoOwner
  BY DEF Inv, TypeOK
<1>2. \A b \in taken : b.owner \in Owner
  BY DEF Inv, TypeOK
<1> QED BY <1>1, <1>2, MemoryManagerAssumption DEF Inv, Tiles, Within, Apart, End

(* The initial state: one free block that is the whole region. *)
LEMMA InitInv == Init => Inv
<1> SUFFICES ASSUME Init PROVE Inv OBVIOUS
<1> USE MemoryManagerAssumption DEF Init
<1>1. TypeOK
  BY DEF TypeOK, MemoryBlock, Address, NoMemory
<1>2. Tiles(All, RegionStart, RegionStart + RegionSize)
  BY DEF Tiles, Within, Covers, Apart, All, MemoryBlock
<1>3. LoopInv
  BY DEF LoopInv, Merged, Mergeable, End, MemoryBlock
<1>4. OwnersExist
  BY DEF OwnersExist
<1> QED BY <1>1, <1>2, <1>3, <1>4 DEF Inv

(* Steps that leave the maps, the owners and the loop alone. *)
LEMMA UnchangedInv ==
    ASSUME Inv, UNCHANGED <<free, taken, alive, phase>>,
           dying' \in alive \cup {NoOwner},
           result' \in [who : Owner \cup {NoOwner}, tag : {"ok", "nothing", "exception"},
                        addr : Int]
    PROVE  Inv'
BY DEF Inv, TypeOK, OwnersExist, LoopInv, Merged, Mergeable, Lock, Tiles, Within,
       Covers, Apart, All

(* Allocation cuts the front off a free block. *)
LEMMA AllocateInv ==
    ASSUME Inv, NEW o \in Owner, NEW n \in Sizes, AllocateBlock(o, n)
    PROVE  Inv'
<1> USE MemoryManagerAssumption
<1>1. CASE \A b \in free : b.size < n
  <2>1. UNCHANGED <<free, taken, phase, alive, dying>> /\ result' = NoMemory(o)
    BY <1>1, BlockTypes DEF AllocateBlock, FirstFit, All
  <2> QED
    BY <2>1, UnchangedInv DEF NoMemory, Inv, TypeOK
<1>2. CASE ~(\A b \in free : b.size < n)
  <2>1. PICK b \in free :
          /\ FirstFit(b, n)
          /\ free' = (free \ {b}) \cup Beyond(b, b.addr + n)
          /\ taken' = Put(taken, MemoryBlock(b.addr, n, o))
          /\ phase' = "mergeFree" /\ result' = Ok(o, b.addr)
          /\ UNCHANGED <<alive, dying>> /\ o \in alive
    BY <1>2 DEF AllocateBlock
  <2> DEFINE new == MemoryBlock(b.addr, n, o)
  <2>2. /\ b \in All /\ b.addr \in Int /\ b.size \in Int /\ n \in Int /\ n > 0
        /\ b.size > 0 /\ n <= b.size /\ b \notin taken
        /\ b.addr <= b.addr /\ b.addr + n <= b.addr + b.size
        /\ b.addr + b.size <= RegionStart + RegionSize
        /\ b \in [addr : Address, size : 1..RegionSize, owner : {NoOwner}]
    BY <2>1, BlockTypes DEF FirstFit, All, Inv, TypeOK
  <2>3. taken' = taken \cup {new}
    <3>1. \A c \in taken : c.addr # b.addr
      BY <2>2, BlockTypes DEF All
    <3> QED BY <2>1, <3>1 DEF Put, MemoryBlock
  <2>4. /\ Beyond(b, b.addr + n) \subseteq [addr : Address, size : 1..RegionSize,
                                            owner : {NoOwner}]
        /\ b.addr \in Address /\ n \in 1..RegionSize
    BY <2>2, PartTypes
  <2>5. TypeOK'
    BY <2>1, <2>2, <2>3, <2>4 DEF Inv, TypeOK, Ok, MemoryBlock
  <2>6. Tiles(All, RegionStart, RegionStart + RegionSize)'
    <3>1. UpTo(b, b.addr) = {}
      BY <2>2 DEF UpTo
    <3>2. All' = (All \ {b}) \cup (UpTo(b, b.addr) \cup {new} \cup Beyond(b, b.addr + n))
      BY <2>1, <2>2, <2>3, <3>1 DEF All
    <3>3. Tiles(UpTo(b, b.addr) \cup {new} \cup Beyond(b, b.addr + n),
                b.addr, b.addr + b.size)
      BY <2>2, PartsTile
    <3>4. Tiles((All \ {b}) \cup (UpTo(b, b.addr) \cup {new} \cup Beyond(b, b.addr + n)),
                RegionStart, RegionStart + RegionSize)
      BY <2>2, <3>3, SplitTiles DEF Inv
    <3> QED BY <3>2, <3>4 DEF Tiles, Within, Covers, Apart
  <2>7. LoopInv'
    BY <2>1 DEF LoopInv
  <2>8. OwnersExist'
    BY <2>1, <2>3 DEF OwnersExist, Inv, MemoryBlock
  <2> QED BY <2>5, <2>6, <2>7, <2>8 DEF Inv
<1> QED BY <1>1, <1>2

(* What CanRelease says about the block that it finds. *)
LEMMA ReleasedBlock ==
    ASSUME Inv, NEW o \in Owner, NEW a \in Int, NEW n \in Int, n > 0,
           NEW b \in taken, CanRelease(b, o, a, n)
    PROVE  /\ b \in All /\ b \notin free
           /\ b.addr \in Int /\ b.size \in Int /\ b.size > 0
           /\ b.addr <= a /\ a + n <= b.addr + b.size
           /\ b.addr + b.size <= RegionStart + RegionSize
           /\ b \in [addr : Address, size : 1..RegionSize, owner : Owner]
           /\ b.owner = o
BY BlockTypes DEF CanRelease, Contains, All, Inv, TypeOK

(* Deallocation cuts a range out of a taken block. *)
LEMMA DeallocateInv ==
    ASSUME Inv, NEW o \in Owner, NEW a \in Int, NEW n \in Int, n > 0,
           Deallocate(o, a, n), UNCHANGED dying
    PROVE  Inv'
<1> USE MemoryManagerAssumption
<1>1. CASE \A b \in taken : ~CanRelease(b, o, a, n)
  <2>1. UNCHANGED <<free, taken, phase, alive, dying>> /\ result' = Exception(o)
    BY <1>1 DEF Deallocate
  <2> QED BY <2>1, UnchangedInv DEF Exception, Inv, TypeOK
<1>2. CASE \E b \in taken : CanRelease(b, o, a, n)
  <2>1. PICK b \in taken :
          /\ CanRelease(b, o, a, n)
          /\ taken' = (taken \ {b}) \cup UpTo(b, a) \cup Beyond(b, a + n)
          /\ free' = Put(free, MemoryBlock(a, n, NoOwner))
          /\ phase' = "mergeFree" /\ result' = Ok(o, a)
          /\ UNCHANGED <<alive, dying>>
    BY <1>2 DEF Deallocate
  <2> DEFINE new == MemoryBlock(a, n, NoOwner)
             P == UpTo(b, a) \cup {new} \cup Beyond(b, a + n)
  <2>2. /\ b \in All /\ b \notin free
        /\ b.addr \in Int /\ b.size \in Int /\ b.size > 0
        /\ b.addr <= a /\ a + n <= b.addr + b.size
        /\ b.addr + b.size <= RegionStart + RegionSize
        /\ b \in [addr : Address, size : 1..RegionSize, owner : Owner]
        /\ b.owner = o
    BY <2>1, ReleasedBlock
  <2>3. free' = free \cup {new}
    <3>1. \A c \in free : c.addr # a
      BY <2>2, BlockTypes DEF All
    <3> QED BY <2>1, <3>1 DEF Put, MemoryBlock
  <2>4. /\ UpTo(b, a) \subseteq [addr : Address, size : 1..RegionSize, owner : Owner]
        /\ Beyond(b, a + n) \subseteq [addr : Address, size : 1..RegionSize, owner : Owner]
        /\ a \in Address /\ n \in 1..RegionSize
        /\ \A c \in UpTo(b, a) \cup Beyond(b, a + n) : c.owner = b.owner
    BY <2>2, PartTypes
  <2>5. TypeOK'
    BY <2>1, <2>3, <2>4 DEF Inv, TypeOK, Ok, MemoryBlock
  <2>6. Tiles(All, RegionStart, RegionStart + RegionSize)'
    <3>1. All' = (All \ {b}) \cup P
      BY <2>1, <2>2, <2>3 DEF All
    <3>2. Tiles(P, b.addr, b.addr + b.size)
      BY <2>2, PartsTile
    <3> HIDE DEF P
    <3>3. Tiles((All \ {b}) \cup P, RegionStart, RegionStart + RegionSize)
      BY <2>2, <3>2, SplitTiles DEF Inv
    <3> QED BY <3>1, <3>3 DEF Tiles, Within, Covers, Apart
  <2>7. LoopInv'
    BY <2>1 DEF LoopInv
  <2>8. OwnersExist'
    BY <2>1, <2>4 DEF OwnersExist, Inv
  <2> QED BY <2>5, <2>6, <2>7, <2>8 DEF Inv
<1> QED BY <1>1, <1>2

(* A transfer gives a range of a taken block to another owner. *)
LEMMA TransferInv ==
    ASSUME Inv, NEW o \in Owner, NEW p \in Owner, NEW a \in Int, NEW n \in Int, n > 0,
           TransferOwnership(o, p, a, n)
    PROVE  Inv'
<1> USE MemoryManagerAssumption
<1>1. CASE \A b \in taken : ~CanRelease(b, o, a, n)
  <2>1. UNCHANGED <<free, taken, phase, alive, dying>> /\ result' = Exception(o)
    BY <1>1 DEF TransferOwnership
  <2> QED BY <2>1, UnchangedInv DEF Exception, Inv, TypeOK
<1>2. CASE \E b \in taken : CanRelease(b, o, a, n)
  <2>1. PICK b \in taken :
          /\ CanRelease(b, o, a, n)
          /\ taken' = (taken \ {b}) \cup {MemoryBlock(a, n, p)}
                          \cup UpTo(b, a) \cup Beyond(b, a + n)
          /\ phase' = "mergeTaken" /\ result' = Ok(o, a)
          /\ UNCHANGED <<free, alive, dying>> /\ p \in alive
          /\ ~Busy
    BY <1>2 DEF TransferOwnership
  <2> DEFINE new == MemoryBlock(a, n, p)
             P == UpTo(b, a) \cup {new} \cup Beyond(b, a + n)
  <2>2. /\ b \in All /\ b \notin free
        /\ b.addr \in Int /\ b.size \in Int /\ b.size > 0
        /\ b.addr <= a /\ a + n <= b.addr + b.size
        /\ b.addr + b.size <= RegionStart + RegionSize
        /\ b \in [addr : Address, size : 1..RegionSize, owner : Owner]
        /\ b.owner = o
    BY <2>1, ReleasedBlock
  <2>4. /\ UpTo(b, a) \subseteq [addr : Address, size : 1..RegionSize, owner : Owner]
        /\ Beyond(b, a + n) \subseteq [addr : Address, size : 1..RegionSize, owner : Owner]
        /\ a \in Address /\ n \in 1..RegionSize
        /\ \A c \in UpTo(b, a) \cup Beyond(b, a + n) : c.owner = b.owner
    BY <2>2, PartTypes
  <2>5. TypeOK'
    BY <2>1, <2>4 DEF Inv, TypeOK, Ok, MemoryBlock
  <2>6. Tiles(All, RegionStart, RegionStart + RegionSize)'
    <3>1. All' = (All \ {b}) \cup P
      BY <2>1, <2>2 DEF All
    <3>2. Tiles(P, b.addr, b.addr + b.size)
      BY <2>2, PartsTile
    <3> HIDE DEF P
    <3>3. Tiles((All \ {b}) \cup P, RegionStart, RegionStart + RegionSize)
      BY <2>2, <3>2, SplitTiles DEF Inv
    <3> QED BY <3>1, <3>3 DEF Tiles, Within, Covers, Apart
  <2>7. LoopInv'
    BY <2>1 DEF LoopInv, Inv, Busy, Merged, Mergeable, Lock
  <2>8. OwnersExist'
    BY <2>1, <2>4 DEF OwnersExist, Inv, MemoryBlock
  <2> QED BY <2>5, <2>6, <2>7, <2>8 DEF Inv
<1> QED BY <1>1, <1>2

-----------------------------------------------------------------------------
(* What merging two blocks of one map does. *)
LEMMA MergedBlock ==
    ASSUME Inv, NEW b \in All, NEW c \in All, NEW m,
           End(b) = c.addr, m = MemoryBlock(b.addr, b.size + c.size, b.owner)
    PROVE  /\ Tiles((All \ {b, c}) \cup {m}, RegionStart, RegionStart + RegionSize)
           /\ m.addr \in Address /\ m.size \in 1..RegionSize
           /\ m = [addr |-> m.addr, size |-> m.size, owner |-> b.owner]
<1>1. m.addr = b.addr /\ m.size = b.size + c.size /\ m.owner = b.owner
  BY DEF MemoryBlock
<1>2. /\ b.addr \in Int /\ b.size \in Int /\ b.size > 0 /\ RegionStart <= b.addr
      /\ c.addr \in Int /\ c.size \in Int /\ c.size > 0
      /\ c.addr + c.size <= RegionStart + RegionSize /\ b.addr + b.size = c.addr
  BY BlockTypes
<1>3. Tiles((All \ {b, c}) \cup {m}, RegionStart, RegionStart + RegionSize)
  <2>1. RegionStart \in Int /\ RegionStart + RegionSize \in Int
    BY MemoryManagerAssumption
  <2> QED BY <1>1, <1>2, <2>1, MergeTiles DEF Inv
<1> QED BY <1>1, <1>2, <1>3, MemoryManagerAssumption DEF Address, MemoryBlock

LEMMA MergeFreeInv == ASSUME Inv, MergeFree PROVE Inv'
<1> USE MemoryManagerAssumption
<1>1. CASE \E b, c \in free : /\ Mergeable(b, c)
                             /\ free' = Merge(free, b, c)
                             /\ UNCHANGED phase
  <2>1. PICK b \in free, c \in free : /\ Mergeable(b, c)
                                      /\ free' = Merge(free, b, c)
                                      /\ UNCHANGED phase
    BY <1>1
  <2> DEFINE m == MemoryBlock(b.addr, b.size + c.size, b.owner)
  <2>2. /\ Tiles((All \ {b, c}) \cup {m}, RegionStart, RegionStart + RegionSize)
        /\ m.addr \in Address /\ m.size \in 1..RegionSize
        /\ m = [addr |-> m.addr, size |-> m.size, owner |-> b.owner]
    BY <2>1, MergedBlock DEF All, Mergeable
  <2>3. free' = (free \ {b, c}) \cup {m} /\ UNCHANGED <<taken, alive, dying, result>>
    BY <2>1 DEF Merge, MergeFree
  <2>4. b.owner = NoOwner /\ b \notin taken /\ c \notin taken
    BY BlockTypes
  <2> HIDE DEF m
  <2>5. TypeOK'
    BY <2>1, <2>2, <2>3, <2>4 DEF Inv, TypeOK
  <2>6. Tiles(All, RegionStart, RegionStart + RegionSize)'
    <3>1. All' = (All \ {b, c}) \cup {m}
      BY <2>3, <2>4 DEF All
    <3> QED BY <3>1, <2>2 DEF Tiles, Within, Covers, Apart
  <2>7. LoopInv' /\ OwnersExist'
    BY <2>1, <2>3 DEF LoopInv, OwnersExist, Inv, MergeFree
  <2> QED BY <2>5, <2>6, <2>7 DEF Inv
<1>2. CASE Merged(free) /\ phase' = "mergeTaken" /\ UNCHANGED free
  BY <1>2 DEF MergeFree, Inv, TypeOK, OwnersExist, LoopInv, Merged, Mergeable, Lock,
              Tiles, Within, Covers, Apart, All
<1> QED BY <1>1, <1>2 DEF MergeFree

LEMMA MergeTakenInv == ASSUME Inv, MergeTaken PROVE Inv'
<1> USE MemoryManagerAssumption
<1>1. CASE \E b, c \in taken : /\ Mergeable(b, c)
                              /\ taken' = Merge(taken, b, c)
                              /\ UNCHANGED phase
  <2>1. PICK b \in taken, c \in taken : /\ Mergeable(b, c)
                                        /\ taken' = Merge(taken, b, c)
                                        /\ UNCHANGED phase
    BY <1>1
  <2> DEFINE m == MemoryBlock(b.addr, b.size + c.size, b.owner)
  <2>2. /\ Tiles((All \ {b, c}) \cup {m}, RegionStart, RegionStart + RegionSize)
        /\ m.addr \in Address /\ m.size \in 1..RegionSize
        /\ m = [addr |-> m.addr, size |-> m.size, owner |-> b.owner]
    BY <2>1, MergedBlock DEF All, Mergeable
  <2>3. taken' = (taken \ {b, c}) \cup {m} /\ UNCHANGED <<free, alive, dying, result>>
    BY <2>1 DEF Merge, MergeTaken
  <2>4. b.owner \in Owner /\ b \notin free /\ c \notin free
    BY BlockTypes
  <2> HIDE DEF m
  <2>5. TypeOK'
    BY <2>1, <2>2, <2>3, <2>4 DEF Inv, TypeOK
  <2>6. Tiles(All, RegionStart, RegionStart + RegionSize)'
    <3>1. All' = (All \ {b, c}) \cup {m}
      BY <2>3, <2>4 DEF All
    <3> QED BY <3>1, <2>2 DEF Tiles, Within, Covers, Apart
  <2>7. LoopInv'
    BY <2>1, <2>3 DEF LoopInv, Inv, MergeTaken, Merged, Mergeable, Lock
  <2>8. OwnersExist'
    <3>1. m.owner = b.owner
      BY DEF m, MemoryBlock
    <3> QED BY <2>3, <3>1 DEF OwnersExist, Inv
  <2> QED BY <2>5, <2>6, <2>7, <2>8 DEF Inv
<1>2. CASE Merged(taken) /\ phase' = "idle" /\ UNCHANGED taken
  BY <1>2 DEF MergeTaken, Inv, TypeOK, OwnersExist, LoopInv, Merged, Mergeable, Lock,
              Tiles, Within, Covers, Apart, All
<1> QED BY <1>1, <1>2 DEF MergeTaken

-----------------------------------------------------------------------------
(* While the owners of all taken blocks exist, whether two blocks of one   *)
(* map can be merged does not depend on who else exists.                   *)
LEMMA AliveInv ==
    ASSUME Inv, UNCHANGED <<free, taken, phase, result>>,
           alive' \subseteq Owner, dying' \in alive' \cup {NoOwner},
           \A b \in taken : b.owner \in alive'
    PROVE  Inv'
<1>1. \A b \in taken : Lock(b.owner)' = b.owner /\ Lock(b.owner) = b.owner
  BY DEF Lock, Inv, OwnersExist
<1>2. \A b \in free : Lock(b.owner)' = NoOwner /\ Lock(b.owner) = NoOwner
  BY BlockTypes, MemoryManagerAssumption DEF Lock
<1>3. LoopInv'
  BY <1>1, <1>2 DEF Inv, LoopInv, Merged, Mergeable, Lock, End
<1> QED BY <1>3 DEF Inv, TypeOK, OwnersExist, Tiles, Within, Covers, Apart, All

(* Every step preserves the invariant. *)
LEMMA NextInv == Inv /\ [Next]_vars => Inv'
<1> SUFFICES ASSUME Inv, [Next]_vars PROVE Inv' OBVIOUS
<1> USE MemoryManagerAssumption
<1>1. ASSUME NEW o \in Owner, NEW n \in Sizes, AllocateBlock(o, n) PROVE Inv'
  BY <1>1, AllocateInv
<1>2. ASSUME NEW o \in Owner, NEW a \in Address, NEW n \in Sizes, DeallocateBlock(o, a, n)
      PROVE  Inv'
  <2>1. a \in Int /\ n \in Int /\ n > 0
    BY DEF Address
  <2> QED BY <1>2, <2>1, DeallocateInv DEF DeallocateBlock
<1>3. ASSUME NEW o \in Owner, NEW p \in Owner, NEW a \in Address, NEW n \in Sizes,
             TransferOwnership(o, p, a, n)
      PROVE  Inv'
  <2>1. a \in Int /\ n \in Int /\ n > 0
    BY DEF Address
  <2> QED BY <1>3, <2>1, TransferInv
<1>4. ASSUME NEW o \in Owner, CreateOwner(o) PROVE Inv'
  BY <1>4, AliveInv DEF CreateOwner, Inv, TypeOK, OwnersExist
<1>5. ASSUME NEW o \in Owner, WindDown(o) PROVE Inv'
  BY <1>5, UnchangedInv DEF WindDown, Inv, TypeOK
<1>6. CASE WindDownBlock
  <2>1. PICK b \in taken : Deallocate(dying, b.addr, b.size)
    BY <1>6 DEF WindDownBlock
  <2>2. b.addr \in Int /\ b.size \in Int /\ b.size > 0 /\ dying \in Owner
    BY <1>6, BlockTypes DEF WindDownBlock, All, Inv, TypeOK
  <2> QED BY <1>6, <2>1, <2>2, DeallocateInv DEF WindDownBlock
<1>7. CASE DestroyOwner
  BY <1>7, AliveInv DEF DestroyOwner, Inv, TypeOK, OwnersExist
<1>8. CASE MergeFree
  BY <1>8, MergeFreeInv
<1>9. CASE MergeTaken
  BY <1>9, MergeTakenInv
<1>10. CASE UNCHANGED vars
  BY <1>10, UnchangedInv DEF vars, Inv, TypeOK
<1> QED BY <1>1, <1>2, <1>3, <1>4, <1>5, <1>6, <1>7, <1>8, <1>9, <1>10 DEF Next

THEOREM Invariance == Spec => []Inv
BY InitInv, NextInv, PTL DEF Spec

(* The types of MemoryManager's state hold in every reachable state. *)
THEOREM TypeCorrect == Spec => []TypeOK
<1>1. Inv => TypeOK
  BY DEF Inv
<1> QED BY <1>1, Invariance, PTL

(* The free and the taken blocks partition the region, during the merging  *)
(* loops of AllocateBlock, DeallocateBlock and TransferOwnership too.      *)
THEOREM PartitionHolds == Spec => []Partition
<1>1. Inv => Partition
  <2> SUFFICES ASSUME Inv PROVE Partition OBVIOUS
  <2> USE MemoryManagerAssumption
  <2>1. \A b \in All : Cells(b) \subseteq Address
    BY BlockTypes DEF Cells, Address
  <2>2. \A x \in Address : \E b \in All : x \in Cells(b)
    <3> SUFFICES ASSUME NEW x \in Address PROVE \E b \in All : x \in Cells(b)
      OBVIOUS
    <3>1. PICK b \in All : b.addr <= x /\ x < b.addr + b.size
      BY DEF Inv, Tiles, Covers, Address
    <3> QED BY <3>1, BlockTypes DEF Cells, Address
  <2>3. \A b, c \in All : b # c => Cells(b) \cap Cells(c) = {}
    BY BlockTypes DEF Cells
  <2> QED BY <2>1, <2>2, <2>3 DEF Partition, All
<1> QED BY <1>1, Invariance, PTL

(* Whenever no operation is under way, no two neighbouring blocks of one   *)
(* map have the same owner.                                                *)
THEOREM CoalescedHolds == Spec => []Coalesced
<1>1. Inv => Coalesced
  BY DEF Inv, LoopInv, Coalesced
<1> QED BY <1>1, Invariance, PTL

(* The contract of DeallocateBlock and TransferOwnership: the owner of a   *)
(* taken block has not expired.                                            *)
THEOREM OwnersExistHolds == Spec => []OwnersExist
<1>1. Inv => OwnersExist
  BY DEF Inv
<1> QED BY <1>1, Invariance, PTL

-----------------------------------------------------------------------------
(***************************************************************************)
(* MemoryManager implements PhysicalMemory, for any region, sizes and      *)
(* owners.                                                                 *)
(*                                                                         *)
(* The argument: an address has the owner of the block that contains it.   *)
(* Because neighbouring blocks of one owner are merged whenever no         *)
(* operation is under way, a range with a single owner lies in one block,  *)
(* so that the block that the code looks for exists whenever the range     *)
(* that PhysicalMemory asks for does.                                      *)
(***************************************************************************)

RegionEnd == RegionStart + RegionSize

(* The owner of an address is the owner of the block around it. *)
LEMMA OwnerAt ==
    ASSUME NEW S, Tiles(S, RegionStart, RegionEnd), NEW b \in S, NEW x \in Address,
           b.addr <= x, x < b.addr + b.size
    PROVE  OwnerMap(S)[x] = b.owner
<1> USE MemoryManagerAssumption
<1>1. x \in Int
  BY DEF Address
<1>2. \A c \in S : c.addr \in Int /\ c.size \in Int
  BY DEF Tiles, Within
<1>3. \A c \in S : x \in Cells(c) <=> c.addr <= x /\ x < c.addr + c.size
  BY <1>1, <1>2 DEF Cells, End
<1>4. \A c \in S : x \in Cells(c) => c = b
  BY <1>1, <1>2, <1>3 DEF Tiles, Apart
<1>5. (CHOOSE c \in S : x \in Cells(c)) = b
  BY <1>3, <1>4
<1> QED BY <1>5 DEF OwnerMap

(* Every address is in a block. *)
LEMMA BlockAt ==
    ASSUME NEW S, Tiles(S, RegionStart, RegionEnd), NEW x \in Address
    PROVE  \E b \in S : b.addr <= x /\ x < b.addr + b.size
BY MemoryManagerAssumption DEF Tiles, Covers, Address, RegionEnd

(* Splitting a block gives its middle to an owner and keeps the rest. *)
LEMMA SplitOwners ==
    ASSUME NEW S, NEW T, Tiles(S, RegionStart, RegionEnd), Tiles(T, RegionStart, RegionEnd),
           NEW b \in S, NEW a \in Int, NEW n \in Int, NEW o,
           T = (S \ {b}) \cup (UpTo(b, a) \cup {MemoryBlock(a, n, o)} \cup Beyond(b, a + n)),
           n > 0, b.addr <= a, a + n <= b.addr + b.size
    PROVE  OwnerMap(T) = [x \in Address |-> IF x \in a .. (a + n - 1) THEN o
                                            ELSE OwnerMap(S)[x]]
<1> USE MemoryManagerAssumption
<1> SUFFICES ASSUME NEW x \in Address
             PROVE  OwnerMap(T)[x] = IF x \in a .. (a + n - 1) THEN o ELSE OwnerMap(S)[x]
  BY DEF OwnerMap
<1>0. x \in Int /\ b.addr \in Int /\ b.size \in Int
  BY DEF Address, Tiles, Within
<1>1. PICK c \in T : c.addr <= x /\ x < c.addr + c.size
  BY BlockAt
<1>2. OwnerMap(T)[x] = c.owner
  BY <1>1, OwnerAt
<1>3. CASE c \in S \ {b}
  <2>1. OwnerMap(S)[x] = c.owner
    BY <1>1, <1>3, OwnerAt
  <2>2. x \notin a .. (a + n - 1)
    <3>1. c.addr + c.size <= b.addr \/ b.addr + b.size <= c.addr
      BY <1>3 DEF Tiles, Apart
    <3>2. c.addr \in Int /\ c.size \in Int
      BY DEF Tiles, Within
    <3> QED BY <1>0, <1>1, <3>1, <3>2
  <2> QED BY <1>2, <2>1, <2>2
<1>4. CASE c = MemoryBlock(a, n, o)
  BY <1>0, <1>1, <1>2, <1>4 DEF MemoryBlock
<1>5. CASE c \in UpTo(b, a) \cup Beyond(b, a + n)
  <2>1. c.owner = b.owner /\ b.addr <= x /\ x < b.addr + b.size /\ x \notin a .. (a + n - 1)
    BY <1>0, <1>1, <1>5 DEF UpTo, Beyond, End, MemoryBlock
  <2>2. OwnerMap(S)[x] = b.owner
    BY <2>1, OwnerAt
  <2> QED BY <1>2, <2>1, <2>2
<1> QED BY <1>3, <1>4, <1>5

(* Merging two neighbours of one owner changes no owner. *)
LEMMA MergeOwners ==
    ASSUME NEW S, NEW T, Tiles(S, RegionStart, RegionEnd), Tiles(T, RegionStart, RegionEnd),
           NEW b \in S, NEW c \in S, b.owner = c.owner, b.addr + b.size = c.addr,
           T = (S \ {b, c}) \cup {MemoryBlock(b.addr, b.size + c.size, b.owner)}
    PROVE  OwnerMap(T) = OwnerMap(S)
<1> USE MemoryManagerAssumption
<1> SUFFICES ASSUME NEW x \in Address PROVE OwnerMap(T)[x] = OwnerMap(S)[x]
  BY DEF OwnerMap
<1>1. PICK d \in T : d.addr <= x /\ x < d.addr + d.size
  BY BlockAt
<1>2. OwnerMap(T)[x] = d.owner
  BY <1>1, OwnerAt
<1>3. CASE d \in S
  BY <1>1, <1>2, <1>3, OwnerAt
<1>4. CASE d = MemoryBlock(b.addr, b.size + c.size, b.owner)
  <2>1. d.addr = b.addr /\ d.size = b.size + c.size /\ d.owner = b.owner
    BY <1>4 DEF MemoryBlock
  <2>2. b.addr \in Int /\ b.size \in Int /\ c.addr \in Int /\ c.size \in Int /\ x \in Int
    BY DEF Tiles, Within, Address
  <2>3. CASE x < b.addr + b.size
    <3>1. b.addr <= x
      BY <1>1, <2>1
    <3>2. OwnerMap(S)[x] = b.owner
      BY <2>3, <3>1, OwnerAt
    <3> QED BY <1>2, <2>1, <3>2
  <2>4. CASE ~(x < b.addr + b.size)
    <3>1. c.addr <= x /\ x < c.addr + c.size
      BY <1>1, <2>1, <2>2, <2>4
    <3>2. OwnerMap(S)[x] = c.owner
      BY <3>1, OwnerAt
    <3> QED BY <1>2, <2>1, <3>2
  <2> QED BY <2>3, <2>4
<1> QED BY <1>3, <1>4

-----------------------------------------------------------------------------
(* The blocks of an owner that exists, or of nobody, are in one map, and   *)
(* Lock yields that owner.                                                 *)
LEMMA BlocksOf ==
    ASSUME Inv, NEW b \in All
    PROVE  /\ b.owner = NoOwner <=> b \in free
           /\ b.owner # NoOwner <=> b \in taken
           /\ Lock(b.owner) = b.owner
BY BlockTypes, MemoryManagerAssumption DEF All, Lock, Inv, OwnersExist

(* While no operation is under way, a range of one owner is in one block.  *)
LEMMA OneBlock ==
    ASSUME Inv, phase = "idle", NEW o, NEW a \in Address, NEW n \in Int, n > 0,
           PM!OwnedBy(o, a, n)
    PROVE  \E b \in All : b.owner = o /\ b.addr <= a /\ a + n <= b.addr + b.size
<1> USE MemoryManagerAssumption
<1>1. \A x \in a .. (a + n - 1) : x \in Address /\ OwnerMap(All)[x] = o
  BY DEF PM!OwnedBy, PM!Units, PM!Address, Address, PageOwner, All
<1>2. a \in Int /\ a \in a .. (a + n - 1) /\ Tiles(All, RegionStart, RegionEnd)
  BY DEF Address, Inv, RegionEnd
<1>3. PICK b \in All : b.addr <= a /\ a < b.addr + b.size
  BY <1>2, BlockAt
<1>4. b.owner = o
  BY <1>1, <1>2, <1>3, OwnerAt
<1>5. b.addr \in Int /\ b.size \in Int /\ End(b) = b.addr + b.size
  BY BlockTypes
<1>6. ASSUME b.addr + b.size < a + n PROVE FALSE
  <2> DEFINE x == b.addr + b.size
  <2>1. x \in a .. (a + n - 1)
    BY <1>2, <1>3, <1>5, <1>6
  <2>2. x \in Address /\ OwnerMap(All)[x] = o
    BY <1>1, <2>1
  <2>3. PICK c \in All : c.addr <= x /\ x < c.addr + c.size
    BY <1>2, <2>2, BlockAt
  <2>4. c.owner = o
    BY <1>2, <2>2, <2>3, OwnerAt
  <2>5. c.addr = x
    <3>1. c.addr \in Int /\ c.size \in Int /\ c.size > 0 /\ b.size > 0
      BY BlockTypes
    <3>2. c # b
      BY <1>5, <2>3
    <3>3. x <= c.addr \/ c.addr + c.size <= b.addr
      BY <3>2, BlockTypes
    <3> QED BY <1>5, <2>3, <3>1, <3>3
  <2>6. Mergeable(b, c)
    BY <1>4, <1>5, <2>4, <2>5 DEF Mergeable
  <2>7. {b, c} \subseteq free \/ {b, c} \subseteq taken
    BY <1>4, <2>4, BlocksOf
  <2>8. Merged(free) /\ Merged(taken)
    BY DEF Inv, LoopInv
  <2> QED BY <2>6, <2>7, <2>8 DEF Merged
<1>7. a + n <= b.addr + b.size
  BY <1>2, <1>5, <1>6
<1> QED BY <1>3, <1>4, <1>7

(* A range within a block has the owner of the block. *)
LEMMA InBlock ==
    ASSUME Inv, NEW b \in All, NEW a \in Int, NEW n \in Int,
           b.addr <= a, a + n <= b.addr + b.size
    PROVE  PM!OwnedBy(b.owner, a, n)
<1> USE MemoryManagerAssumption
<1> SUFFICES ASSUME NEW x \in a .. (a + n - 1)
             PROVE  x \in Address /\ OwnerMap(All)[x] = b.owner
  BY DEF PM!OwnedBy, PM!Units, PM!Address, Address, PageOwner, All
<1>1. b.addr \in Int /\ b.size \in Int /\ RegionStart <= b.addr
      /\ b.addr + b.size <= RegionStart + RegionSize
  BY BlockTypes
<1>2. x \in Address /\ b.addr <= x /\ x < b.addr + b.size
  BY <1>1 DEF Address
<1>3. Tiles(All, RegionStart, RegionEnd)
  BY DEF Inv, RegionEnd
<1> QED BY <1>2, <1>3, OwnerAt

-----------------------------------------------------------------------------
(* The owner of a range changes as the block is split. *)
LEMMA SplitGives ==
    ASSUME Inv, Inv', NEW b \in All, NEW a \in Int, NEW n \in Int, NEW o,
           All' = (All \ {b}) \cup (UpTo(b, a) \cup {MemoryBlock(a, n, o)}
                                        \cup Beyond(b, a + n)),
           n > 0, b.addr <= a, a + n <= b.addr + b.size
    PROVE  PM!GiveTo(o, a, n)
<1>1. Tiles(All, RegionStart, RegionEnd) /\ Tiles(All', RegionStart, RegionEnd)
  <2>1. Tiles(All, RegionStart, RegionEnd)'
    BY DEF Inv, RegionEnd
  <2> QED BY <2>1 DEF Inv, RegionEnd, Tiles, Within, Covers, Apart
<1>2. OwnerMap(All') = [x \in Address |-> IF x \in a .. (a + n - 1) THEN o
                                          ELSE OwnerMap(All)[x]]
  BY <1>1, SplitOwners
<1>3. PageOwner = OwnerMap(All) /\ PageOwner' = OwnerMap(All')
  BY DEF PageOwner, All, OwnerMap, Cells, End
<1> QED BY <1>2, <1>3 DEF PM!GiveTo, PM!Units, PM!Address, Address

(* An allocation takes the lowest free range, or finds that there is none. *)
LEMMA AllocateStep ==
    ASSUME Inv, Inv', NEW o \in Owner, NEW n \in Sizes, AllocateBlock(o, n)
    PROVE  PM!AllocateBlock(o, n)
<1> USE MemoryManagerAssumption
<1>0. phase = "idle" /\ n \in Int /\ n > 0
  BY DEF AllocateBlock, Busy
<1>1. CASE \A b \in free : b.size < n
  <2>1. UNCHANGED <<free, taken>> /\ result' = NoMemory(o)
    BY <1>1, BlockTypes DEF AllocateBlock, FirstFit, All
  <2>2. ASSUME NEW a \in Address, PM!OwnedBy(NoOwner, a, n) PROVE FALSE
    <3>1. PICK b \in All : b.owner = NoOwner /\ b.addr <= a /\ a + n <= b.addr + b.size
      BY <1>0, <2>2, OneBlock
    <3>2. b \in free /\ b.addr \in Int /\ b.size \in Int /\ a \in Int
      BY <3>1, BlocksOf, BlockTypes DEF Address
    <3> QED BY <1>0, <1>1, <3>1, <3>2
  <2>3. UNCHANGED PageOwner
    BY <2>1 DEF PageOwner, OwnerMap, Cells, End
  <2> QED BY <2>1, <2>2, <2>3
             DEF PM!AllocateBlock, PM!NoMemory, NoMemory, PM!Address, Address
<1>2. CASE ~(\A b \in free : b.size < n)
  <2>1. PICK b \in free :
          /\ FirstFit(b, n)
          /\ free' = (free \ {b}) \cup Beyond(b, b.addr + n)
          /\ taken' = Put(taken, MemoryBlock(b.addr, n, o))
          /\ result' = Ok(o, b.addr)
    BY <1>2 DEF AllocateBlock
  <2>2. /\ b \in All /\ b.addr \in Int /\ b.size \in Int /\ b.owner = NoOwner
        /\ b \notin taken /\ b.addr <= b.addr /\ b.addr + n <= b.addr + b.size
        /\ b.addr \in Address
    BY <1>0, <2>1, BlockTypes DEF FirstFit, All, Inv, TypeOK
  <2>3. PM!OwnedBy(NoOwner, b.addr, n)
    BY <1>0, <2>2, InBlock
  <2>4. ASSUME NEW a \in Address, PM!OwnedBy(NoOwner, a, n) PROVE b.addr <= a
    <3>1. PICK c \in All : c.owner = NoOwner /\ c.addr <= a /\ a + n <= c.addr + c.size
      BY <1>0, <2>4, OneBlock
    <3>2. c \in free /\ c.addr \in Int /\ c.size \in Int /\ a \in Int
      BY <3>1, BlocksOf, BlockTypes DEF Address
    <3>3. c.size >= n
      BY <1>0, <3>1, <3>2
    <3> QED BY <2>1, <2>2, <3>1, <3>2, <3>3 DEF FirstFit
  <2>5. PM!GiveTo(o, b.addr, n)
    <3>1. \A c \in taken : c.addr # b.addr
      BY <2>2, BlockTypes DEF All
    <3>2. taken' = taken \cup {MemoryBlock(b.addr, n, o)}
      BY <2>1, <3>1 DEF Put, MemoryBlock
    <3>3. UpTo(b, b.addr) = {}
      BY <2>2 DEF UpTo
    <3>4. All' = (All \ {b}) \cup (UpTo(b, b.addr) \cup {MemoryBlock(b.addr, n, o)}
                                       \cup Beyond(b, b.addr + n))
      BY <2>1, <2>2, <3>2, <3>3 DEF All
    <3> QED BY <1>0, <2>2, <3>4, SplitGives
  <2> QED BY <2>1, <2>2, <2>3, <2>4, <2>5
             DEF PM!AllocateBlock, PM!Ok, Ok, PM!Address, Address
<1> QED BY <1>1, <1>2

(* Whether CanRelease finds a block tells whether the caller owns the range. *)
LEMMA ReleaseOwned ==
    ASSUME Inv, phase = "idle", NEW o \in Owner, NEW a \in Address, NEW n \in Int, n > 0
    PROVE  PM!OwnedBy(o, a, n) <=> \E b \in taken : CanRelease(b, o, a, n)
<1> USE MemoryManagerAssumption
<1>0. a \in Int
  BY DEF Address
<1>1. ASSUME PM!OwnedBy(o, a, n) PROVE \E b \in taken : CanRelease(b, o, a, n)
  <2>1. PICK b \in All : b.owner = o /\ b.addr <= a /\ a + n <= b.addr + b.size
    BY <1>1, OneBlock
  <2>2. b \in taken /\ b.addr \in Int /\ b.size \in Int /\ End(b) = b.addr + b.size
    BY <2>1, BlocksOf, BlockTypes
  <2>3. CanRelease(b, o, a, n)
    BY <1>0, <2>1, <2>2 DEF CanRelease, Contains, Inv, OwnersExist
  <2> QED BY <2>2, <2>3
<1>2. ASSUME NEW b \in taken, CanRelease(b, o, a, n) PROVE PM!OwnedBy(o, a, n)
  <2>1. b \in All /\ b.owner = o /\ b.addr <= a /\ a + n <= b.addr + b.size
    BY <1>0, <1>2, ReleasedBlock
  <2> QED BY <1>0, <2>1, InBlock
<1> QED BY <1>1, <1>2

(* A deallocation gives the range to nobody. *)
LEMMA DeallocateStep ==
    ASSUME Inv, Inv', phase = "idle", NEW o \in Owner, NEW a \in Address,
           NEW n \in Int, n > 0, Deallocate(o, a, n)
    PROVE  PM!DeallocateBlock(o, a, n)
<1> USE MemoryManagerAssumption
<1>0. a \in Int
  BY DEF Address
<1>1. CASE \A b \in taken : ~CanRelease(b, o, a, n)
  <2>1. UNCHANGED <<free, taken>> /\ result' = Exception(o)
    BY <1>1 DEF Deallocate
  <2>2. ~PM!OwnedBy(o, a, n)
    BY <1>1, ReleaseOwned
  <2>3. UNCHANGED PageOwner
    BY <2>1 DEF PageOwner, OwnerMap, Cells, End
  <2> QED BY <2>1, <2>2, <2>3
             DEF PM!DeallocateBlock, PM!TransferOwnership, PM!Exception, Exception
<1>2. CASE \E b \in taken : CanRelease(b, o, a, n)
  <2>1. PICK b \in taken :
          /\ CanRelease(b, o, a, n)
          /\ taken' = (taken \ {b}) \cup UpTo(b, a) \cup Beyond(b, a + n)
          /\ free' = Put(free, MemoryBlock(a, n, NoOwner))
          /\ result' = Ok(o, a)
    BY <1>2 DEF Deallocate
  <2>2. /\ b \in All /\ b \notin free /\ b.addr \in Int /\ b.size \in Int
        /\ b.addr <= a /\ a + n <= b.addr + b.size
    BY <1>0, <2>1, ReleasedBlock
  <2>3. free' = free \cup {MemoryBlock(a, n, NoOwner)}
    <3>1. \A c \in free : c.addr # a
      BY <1>0, <2>2, BlockTypes DEF All
    <3> QED BY <2>1, <3>1 DEF Put, MemoryBlock
  <2>4. All' = (All \ {b}) \cup (UpTo(b, a) \cup {MemoryBlock(a, n, NoOwner)}
                                     \cup Beyond(b, a + n))
    BY <2>1, <2>2, <2>3 DEF All
  <2>5. PM!GiveTo(NoOwner, a, n)
    BY <1>0, <2>2, <2>4, SplitGives
  <2>6. PM!OwnedBy(o, a, n)
    BY <1>2, ReleaseOwned
  <2> QED BY <2>1, <2>5, <2>6 DEF PM!DeallocateBlock, PM!TransferOwnership, PM!Ok, Ok
<1> QED BY <1>1, <1>2

(* A transfer gives the range to the new owner. *)
LEMMA TransferStep ==
    ASSUME Inv, Inv', NEW o \in Owner, NEW p \in Owner, NEW a \in Address,
           NEW n \in Int, n > 0, TransferOwnership(o, p, a, n)
    PROVE  PM!TransferOwnership(o, p, a, n)
<1> USE MemoryManagerAssumption
<1>0. a \in Int /\ phase = "idle"
  BY DEF Address, TransferOwnership, Busy
<1>1. CASE \A b \in taken : ~CanRelease(b, o, a, n)
  <2>1. UNCHANGED <<free, taken>> /\ result' = Exception(o)
    BY <1>1 DEF TransferOwnership
  <2>2. ~PM!OwnedBy(o, a, n)
    BY <1>0, <1>1, ReleaseOwned
  <2>3. UNCHANGED PageOwner
    BY <2>1 DEF PageOwner, OwnerMap, Cells, End
  <2> QED BY <2>1, <2>2, <2>3 DEF PM!TransferOwnership, PM!Exception, Exception
<1>2. CASE \E b \in taken : CanRelease(b, o, a, n)
  <2>1. PICK b \in taken :
          /\ CanRelease(b, o, a, n)
          /\ taken' = (taken \ {b}) \cup {MemoryBlock(a, n, p)}
                          \cup UpTo(b, a) \cup Beyond(b, a + n)
          /\ UNCHANGED free /\ result' = Ok(o, a)
    BY <1>2 DEF TransferOwnership
  <2>2. /\ b \in All /\ b \notin free /\ b.addr \in Int /\ b.size \in Int
        /\ b.addr <= a /\ a + n <= b.addr + b.size
    BY <1>0, <2>1, ReleasedBlock
  <2>3. All' = (All \ {b}) \cup (UpTo(b, a) \cup {MemoryBlock(a, n, p)}
                                     \cup Beyond(b, a + n))
    BY <2>1, <2>2 DEF All
  <2>4. PM!GiveTo(p, a, n)
    BY <1>0, <2>2, <2>3, SplitGives
  <2>5. PM!OwnedBy(o, a, n)
    BY <1>0, <1>2, ReleaseOwned
  <2> QED BY <2>1, <2>4, <2>5 DEF PM!TransferOwnership, PM!Ok, Ok
<1> QED BY <1>1, <1>2

(* An iteration of a merging loop cannot be seen. *)
LEMMA MergeStep ==
    ASSUME Inv, Inv', NEW b \in All, NEW c \in All, Mergeable(b, c),
           All' = (All \ {b, c}) \cup {MemoryBlock(b.addr, b.size + c.size, b.owner)}
    PROVE  UNCHANGED PageOwner
<1>1. Tiles(All, RegionStart, RegionEnd) /\ Tiles(All', RegionStart, RegionEnd)
  <2>1. Tiles(All, RegionStart, RegionEnd)'
    BY DEF Inv, RegionEnd
  <2> QED BY <2>1 DEF Inv, RegionEnd, Tiles, Within, Covers, Apart
<1>2. b.owner = c.owner /\ b.addr + b.size = c.addr
  BY BlocksOf, BlockTypes DEF Mergeable
<1>3. OwnerMap(All') = OwnerMap(All)
  BY <1>1, <1>2, MergeOwners
<1>4. PageOwner = OwnerMap(All) /\ PageOwner' = OwnerMap(All')
  BY DEF PageOwner, All, OwnerMap, Cells, End
<1> QED BY <1>3, <1>4

-----------------------------------------------------------------------------
(* Every step is a step of PhysicalMemory or leaves its variables alone. *)
LEMMA NextStep == Inv /\ Inv' /\ [Next]_vars => [PM!Next]_<<PageOwner, result>>
<1> SUFFICES ASSUME Inv, Inv', [Next]_vars PROVE [PM!Next]_<<PageOwner, result>>
  OBVIOUS
<1> USE MemoryManagerAssumption
<1>1. ASSUME NEW o \in Owner, NEW n \in Sizes, AllocateBlock(o, n) PROVE PM!Next
  BY <1>1, AllocateStep DEF PM!Next
<1>2. ASSUME NEW o \in Owner, NEW a \in Address, NEW n \in Sizes, DeallocateBlock(o, a, n)
      PROVE  PM!Next
  <2>1. PM!DeallocateBlock(o, a, n)
    BY <1>2, DeallocateStep DEF DeallocateBlock, Busy
  <2> QED BY <2>1 DEF PM!Next, PM!Address, Address
<1>3. ASSUME NEW o \in Owner, NEW p \in Owner, NEW a \in Address, NEW n \in Sizes,
             TransferOwnership(o, p, a, n)
      PROVE  PM!Next
  <2>1. PM!TransferOwnership(o, p, a, n)
    BY <1>3, TransferStep
  <2> QED BY <2>1 DEF PM!Next, PM!Address, Address
<1>4. CASE WindDownBlock
  <2>1. PICK b \in taken : Deallocate(dying, b.addr, b.size)
    BY <1>4 DEF WindDownBlock
  <2>2. /\ b.addr \in Address /\ b.size \in 1..RegionSize /\ dying \in Owner
        /\ b.size \in Int /\ b.size > 0
    BY <1>4 DEF WindDownBlock, Inv, TypeOK
  <2>3. PM!DeallocateBlock(dying, b.addr, b.size)
    BY <1>4, <2>1, <2>2, DeallocateStep DEF WindDownBlock
  <2> QED BY <2>2, <2>3 DEF PM!Next, PM!Address, Address
<1>5. CASE MergeFree
  <2>1. UNCHANGED result
    BY <1>5 DEF MergeFree
  <2>2. CASE UNCHANGED free
    BY <1>5, <2>1, <2>2 DEF MergeFree, PageOwner, OwnerMap, Cells, End
  <2>3. CASE \E b, c \in free : Mergeable(b, c) /\ free' = Merge(free, b, c)
    <3>1. PICK b \in free, c \in free : Mergeable(b, c) /\ free' = Merge(free, b, c)
      BY <2>3
    <3>2. b \notin taken /\ c \notin taken
      BY BlockTypes
    <3>3. All' = (All \ {b, c}) \cup {MemoryBlock(b.addr, b.size + c.size, b.owner)}
      BY <1>5, <3>1, <3>2 DEF MergeFree, Merge, All
    <3> QED BY <2>1, <3>1, <3>3, MergeStep DEF All
  <2> QED BY <1>5, <2>2, <2>3 DEF MergeFree
<1>6. CASE MergeTaken
  <2>1. UNCHANGED result
    BY <1>6 DEF MergeTaken
  <2>2. CASE UNCHANGED taken
    BY <1>6, <2>1, <2>2 DEF MergeTaken, PageOwner, OwnerMap, Cells, End
  <2>3. CASE \E b, c \in taken : Mergeable(b, c) /\ taken' = Merge(taken, b, c)
    <3>1. PICK b \in taken, c \in taken : Mergeable(b, c) /\ taken' = Merge(taken, b, c)
      BY <2>3
    <3>2. b \notin free /\ c \notin free
      BY BlockTypes
    <3>3. All' = (All \ {b, c}) \cup {MemoryBlock(b.addr, b.size + c.size, b.owner)}
      BY <1>6, <3>1, <3>2 DEF MergeTaken, Merge, All
    <3> QED BY <2>1, <3>1, <3>3, MergeStep DEF All
  <2> QED BY <1>6, <2>2, <2>3 DEF MergeTaken
<1>7. CASE UNCHANGED <<free, taken, result>>
  BY <1>7 DEF PageOwner, OwnerMap, Cells, End
<1> QED BY <1>1, <1>2, <1>3, <1>4, <1>5, <1>6, <1>7
           DEF Next, CreateOwner, WindDown, DestroyOwner, vars

(* The initial state is one of PhysicalMemory. *)
LEMMA InitStep == Init => PM!Init
<1> SUFFICES ASSUME Init PROVE PM!Init OBVIOUS
<1> USE MemoryManagerAssumption
<1>1. Inv
  BY InitInv
<1>2. \A x \in Address : OwnerMap(All)[x] = NoOwner
  <2> DEFINE b == MemoryBlock(RegionStart, RegionSize, NoOwner)
  <2>1. b \in All /\ b.addr = RegionStart /\ b.size = RegionSize /\ b.owner = NoOwner
    BY DEF Init, All, MemoryBlock
  <2>2. Tiles(All, RegionStart, RegionEnd)
    BY <1>1 DEF Inv, RegionEnd
  <2> HIDE DEF b
  <2>3. ASSUME NEW x \in Address PROVE b.addr <= x /\ x < b.addr + b.size
    BY <2>1 DEF Address
  <2> QED BY <2>1, <2>2, <2>3, OwnerAt
<1>3. PageOwner = [x \in Address |-> NoOwner]
  BY <1>2 DEF PageOwner, OwnerMap, All
<1> QED BY <1>3 DEF Init, PM!Init, PM!NoMemory, NoMemory, PM!Address, Address

(* MemoryManager implements PhysicalMemory: an allocation takes the lowest *)
(* free range and fails only if there is none, and deallocation and        *)
(* transfer succeed exactly for the ranges that the caller owns.           *)
THEOREM Refinement == Spec => Implements
<1>1. Init => PM!Init
  BY InitStep
<1>2. Inv /\ Inv' /\ [Next]_vars => [PM!Next]_<<PageOwner, result>>
  BY NextStep
<1>3. Spec => []Inv
  BY Invariance
<1> QED BY <1>1, <1>2, <1>3, PTL DEF Spec, Implements, PM!Spec

=============================================================================
