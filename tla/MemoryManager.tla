---------------------------- MODULE MemoryManager ----------------------------
(***************************************************************************)
(* MemoryManager of source/os.cpp: the allocator of one region of emulated *)
(* physical memory.  Two maps from start addresses to blocks describe the  *)
(* free and the taken memory; every operation changes a few blocks and     *)
(* then merges all neighbouring blocks of one owner.  A map is modelled as *)
(* the set of its blocks, an iteration of the merging loops as a step.     *)
(***************************************************************************)
EXTENDS Integers

CONSTANTS
    Owner,        \* the processes, code sets and shared memory blocks
    NoOwner,      \* the owner of a free block
    RegionStart,  \* region_start_paddr
    RegionSize,   \* region_size_bytes
    Sizes         \* the sizes that are requested

ASSUME MemoryManagerAssumption ==
    /\ NoOwner \notin Owner
    /\ RegionStart \in Int /\ RegionSize \in Nat \ {0}
    /\ Sizes \subseteq Nat \ {0}

VARIABLES
    free, taken,  \* the two maps
    alive,        \* the owners that exist (owner.expired() is FALSE)
    phase,        \* "idle", or the merging loop that is being executed
    dying,        \* the process that TriggerThreadDestruction winds down
    result        \* the outcome of the last operation

vars == <<free, taken, alive, phase, dying, result>>

Address == RegionStart .. (RegionStart + RegionSize - 1)
Block   == [addr : Int, size : Nat, owner : Owner \cup {NoOwner}]

(* What the caller o of an operation gets: an address, std::nullopt, or an *)
(* exception.                                                              *)
Ok(o, a)     == [who |-> o, tag |-> "ok", addr |-> a]
NoMemory(o)  == [who |-> o, tag |-> "nothing", addr |-> 0]
Exception(o) == [who |-> o, tag |-> "exception", addr |-> 0]

(* MemoryBlock, and the addresses from the first to the one after the last. *)
MemoryBlock(a, n, o) == [addr |-> a, size |-> n, owner |-> o]
End(b) == b.addr + b.size

(* map[b.addr] = b *)
Put(map, b) == {c \in map : c.addr # b.addr} \cup {b}

(* Wrong variant: the rest of the block is lost. *)
BeyondLost(b, a) == {}

(* The block that is left of b beyond address a, if any. *)
Beyond(b, a) == IF End(b) > a THEN {MemoryBlock(a, End(b) - a, b.owner)} ELSE {}
(* The block that is left of b before address a, if any. *)
UpTo(b, a) == IF b.addr < a THEN {MemoryBlock(b.addr, a - b.addr, b.owner)} ELSE {}

Busy == phase # "idle" \/ dying # NoOwner

-----------------------------------------------------------------------------
(* The first block of the free map that is large enough. *)
FirstFit(b, n) ==
    /\ b \in free /\ b.size >= n
    /\ \A c \in free : c.size >= n => b.addr <= c.addr

AllocateBlock(o, n) ==
    /\ ~Busy /\ o \in alive
    /\ \/ \E b \in free :
            /\ FirstFit(b, n)
            /\ free' = (free \ {b}) \cup Beyond(b, b.addr + n)
            /\ taken' = Put(taken, MemoryBlock(b.addr, n, o))
            /\ phase' = "mergeFree"
            /\ result' = Ok(o, b.addr)
       \/ /\ \A b \in free : b.size < n
          /\ result' = NoMemory(o)
          /\ UNCHANGED <<free, taken, phase>>
    /\ UNCHANGED <<alive, dying>>

(* The loop over the taken map stops at the block that contains the start  *)
(* address; the blocks up to there must have owners that still exist, and  *)
(* the block must be owned by the caller and contain the whole range.      *)
Contains(b, a) == b.addr <= a /\ a < End(b)
(* Wrong variant: anybody may release a block. *)
CanReleaseUnowned(b, o, a, n) ==
    /\ \A c \in taken : c.addr <= b.addr => c.owner \in alive
    /\ Contains(b, a) /\ a + n <= End(b)

CanRelease(b, o, a, n) ==
    /\ \A c \in taken : c.addr <= b.addr => c.owner \in alive
    /\ Contains(b, a) /\ b.owner = o /\ a + n <= End(b)

Deallocate(o, a, n) ==
    /\ \/ \E b \in taken :
            /\ CanRelease(b, o, a, n)
            /\ taken' = (taken \ {b}) \cup UpTo(b, a) \cup Beyond(b, a + n)
            /\ free' = Put(free, MemoryBlock(a, n, NoOwner))
            /\ phase' = "mergeFree"
            /\ result' = Ok(o, a)
       \/ /\ \A b \in taken : ~CanRelease(b, o, a, n)
          /\ result' = Exception(o)
          /\ UNCHANGED <<free, taken, phase>>
    /\ UNCHANGED alive

DeallocateBlock(o, a, n) ==
    /\ ~Busy /\ o \in alive
    /\ Deallocate(o, a, n)
    /\ UNCHANGED dying

TransferOwnership(o, p, a, n) ==
    /\ ~Busy /\ {o, p} \subseteq alive
    /\ \/ \E b \in taken :
            /\ CanRelease(b, o, a, n)
            /\ taken' = (taken \ {b}) \cup {MemoryBlock(a, n, p)}
                            \cup UpTo(b, a) \cup Beyond(b, a + n)
            /\ phase' = "mergeTaken"
            /\ result' = Ok(o, a)
       \/ /\ \A b \in taken : ~CanRelease(b, o, a, n)
          /\ result' = Exception(o)
          /\ UNCHANGED <<taken, phase>>
    /\ UNCHANGED <<free, alive, dying>>

-----------------------------------------------------------------------------
(* Neighbouring blocks of one owner, and the block that replaces them.     *)
(* owner.lock() yields nothing for free blocks and for an expired owner.   *)
Lock(o) == IF o \in alive THEN o ELSE NoOwner

(* Wrong variants: the owners are not compared; the blocks overlap. *)
MergeableAnyOwner(b, c) == End(b) = c.addr
MergeableOffByOne(b, c) == End(b) = c.addr + 1 /\ Lock(b.owner) = Lock(c.owner)

Mergeable(b, c) == End(b) = c.addr /\ Lock(b.owner) = Lock(c.owner)
Merge(map, b, c) == (map \ {b, c}) \cup {MemoryBlock(b.addr, b.size + c.size, b.owner)}

Merged(map) == \A b, c \in map : ~Mergeable(b, c)

(* Wrong variant: at most one pair of blocks is merged. *)
MergeFreeOnce ==
    /\ phase = "mergeFree" /\ phase' = "mergeTaken"
    /\ \/ \E b, c \in free : Mergeable(b, c) /\ free' = Merge(free, b, c)
       \/ Merged(free) /\ UNCHANGED free
    /\ UNCHANGED <<taken, alive, dying, result>>

MergeFree ==
    /\ phase = "mergeFree"
    /\ \/ \E b, c \in free :
            /\ Mergeable(b, c)
            /\ free' = Merge(free, b, c)
            /\ UNCHANGED phase
       \/ Merged(free) /\ phase' = "mergeTaken" /\ UNCHANGED free
    /\ UNCHANGED <<taken, alive, dying, result>>

MergeTaken ==
    /\ phase = "mergeTaken"
    /\ \/ \E b, c \in taken :
            /\ Mergeable(b, c)
            /\ taken' = Merge(taken, b, c)
            /\ UNCHANGED phase
       \/ Merged(taken) /\ phase' = "idle" /\ UNCHANGED taken
    /\ UNCHANGED <<free, alive, dying, result>>

-----------------------------------------------------------------------------
(* A process, code set or shared memory block comes into being. *)
CreateOwner(o) ==
    /\ ~Busy /\ o \in Owner \ alive
    /\ alive' = alive \cup {o}
    /\ UNCHANGED <<free, taken, phase, dying, result>>

(* The end of TriggerThreadDestruction: the blocks that the process owns   *)
(* are deallocated one by one, then the process is destroyed.              *)
WindDown(o) ==
    /\ ~Busy /\ o \in alive
    /\ dying' = o
    /\ UNCHANGED <<free, taken, alive, phase, result>>

WindDownBlock ==
    /\ phase = "idle" /\ dying # NoOwner
    /\ \E b \in taken :
         /\ b.owner = dying
         /\ \A c \in taken : c.owner = dying => b.addr <= c.addr
         /\ Deallocate(dying, b.addr, b.size)
    /\ UNCHANGED dying

(* Wrong variant: the process is destroyed with memory left to it. *)
DestroyOwnerEarly ==
    /\ phase = "idle" /\ dying # NoOwner
    /\ alive' = alive \ {dying}
    /\ dying' = NoOwner
    /\ UNCHANGED <<free, taken, phase, result>>

DestroyOwner ==
    /\ phase = "idle" /\ dying # NoOwner
    /\ \A b \in taken : b.owner # dying
    /\ alive' = alive \ {dying}
    /\ dying' = NoOwner
    /\ UNCHANGED <<free, taken, phase, result>>

-----------------------------------------------------------------------------
Init ==
    /\ free = {MemoryBlock(RegionStart, RegionSize, NoOwner)}
    /\ taken = {}
    /\ alive = {}
    /\ phase = "idle"
    /\ dying = NoOwner
    /\ result = NoMemory(NoOwner)

Next ==
    \/ \E o \in Owner, n \in Sizes : AllocateBlock(o, n)
    \/ \E o \in Owner, a \in Address, n \in Sizes : DeallocateBlock(o, a, n)
    \/ \E o, p \in Owner, a \in Address, n \in Sizes : TransferOwnership(o, p, a, n)
    \/ MergeFree \/ MergeTaken
    \/ \E o \in Owner : CreateOwner(o) \/ WindDown(o)
    \/ WindDownBlock \/ DestroyOwner

Spec == Init /\ [][Next]_vars

-----------------------------------------------------------------------------
Cells(b) == b.addr .. (End(b) - 1)

(* Type correctness of the two maps and of the control state. *)
TypeOK ==
    /\ free \subseteq [addr : Address, size : 1..RegionSize, owner : {NoOwner}]
    /\ taken \subseteq [addr : Address, size : 1..RegionSize, owner : Owner]
    /\ alive \subseteq Owner
    /\ phase \in {"idle", "mergeFree", "mergeTaken"}
    /\ dying \in alive \cup {NoOwner}
    /\ result \in [who : Owner \cup {NoOwner}, tag : {"ok", "nothing", "exception"},
                   addr : Int]

(* The free and the taken blocks partition the region at all times, within *)
(* the merging loops too: no address is lost by a split or a merge, and    *)
(* none is in two blocks, so that no two owners share memory and no free   *)
(* memory is in use.                                                       *)
Partition ==
    /\ \A b \in free \cup taken : Cells(b) \subseteq Address
    /\ \A x \in Address : \E b \in free \cup taken : x \in Cells(b)
    /\ \A b, c \in free \cup taken : b # c => Cells(b) \cap Cells(c) = {}

(* After every operation neighbouring blocks are merged: on this rests     *)
(* that a range can be allocated, freed or transferred although it was put *)
(* together by several operations.                                         *)
Coalesced == phase = "idle" => Merged(free) /\ Merged(taken)

(* The contract of DeallocateBlock and TransferOwnership, "ValidateContract*)
(* (!block_it->second.owner.expired())": no taken block outlives its owner *)
(* when a process is wound down.                                           *)
OwnersExist == \A b \in taken : b.owner \in alive

(* The owner of every address, as the two maps tell it. *)
OwnerMap(blocks) == [x \in Address |-> (CHOOSE b \in blocks : x \in Cells(b)).owner]
PageOwner == OwnerMap(free \cup taken)

(* The allocator implements PhysicalMemory: an allocation fails only if    *)
(* there is no free range of that size, takes the lowest one otherwise,    *)
(* and deallocation and transfer succeed exactly for ranges that the       *)
(* caller owns in full; merging changes nothing that can be seen.          *)
PM == INSTANCE PhysicalMemory WITH owner <- PageOwner
Implements == PM!Spec
=============================================================================
