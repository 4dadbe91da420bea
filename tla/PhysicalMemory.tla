--------------------------- MODULE PhysicalMemory ---------------------------
(***************************************************************************)
(* What a MemoryManager (source/os.hpp) promises: every unit of a region   *)
(* of physical memory is free or has one owner; an allocation takes the    *)
(* lowest free range that is large enough and fails only if there is none; *)
(* an owner can give back or hand over exactly what it owns.               *)
(***************************************************************************)
EXTENDS Integers

CONSTANTS
    Owner,        \* the processes, code sets and shared memory blocks
    NoOwner,      \* marks free memory
    RegionStart,  \* region_start_paddr
    RegionSize,   \* region_size_bytes
    Sizes         \* the sizes that are requested

VARIABLES owner,  \* the owner of every address
          result  \* the outcome of the last operation

Address == RegionStart .. (RegionStart + RegionSize - 1)
Units(a, n) == a .. (a + n - 1)

(* What the caller o of an operation gets: an address, std::nullopt, or an *)
(* exception.                                                              *)
Ok(o, a)     == [who |-> o, tag |-> "ok", addr |-> a]
NoMemory(o)  == [who |-> o, tag |-> "nothing", addr |-> 0]
Exception(o) == [who |-> o, tag |-> "exception", addr |-> 0]

OwnedBy(o, a, n) == \A x \in Units(a, n) : x \in Address /\ owner[x] = o

GiveTo(o, a, n) ==
    owner' = [x \in Address |-> IF x \in Units(a, n) THEN o ELSE owner[x]]

AllocateBlock(o, n) ==
    \/ \E a \in Address :
         /\ OwnedBy(NoOwner, a, n)
         /\ \A b \in Address : OwnedBy(NoOwner, b, n) => a <= b
         /\ GiveTo(o, a, n)
         /\ result' = Ok(o, a)
    \/ /\ \A a \in Address : ~OwnedBy(NoOwner, a, n)
       /\ result' = NoMemory(o)
       /\ UNCHANGED owner

TransferOwnership(o, p, a, n) ==
    \/ OwnedBy(o, a, n) /\ GiveTo(p, a, n) /\ result' = Ok(o, a)
    \/ ~OwnedBy(o, a, n) /\ UNCHANGED owner /\ result' = Exception(o)

DeallocateBlock(o, a, n) == TransferOwnership(o, NoOwner, a, n)

Init == owner = [x \in Address |-> NoOwner] /\ result = NoMemory(NoOwner)

Next ==
    \/ \E o \in Owner, n \in Sizes : AllocateBlock(o, n)
    \/ \E o \in Owner, a \in Address, n \in Sizes \cup 1..RegionSize :
         DeallocateBlock(o, a, n)
    \/ \E o, p \in Owner, a \in Address, n \in Sizes : TransferOwnership(o, p, a, n)

Spec == Init /\ [][Next]_<<owner, result>>
=============================================================================
