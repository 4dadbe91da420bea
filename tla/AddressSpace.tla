---------------------------- MODULE AddressSpace ----------------------------
(***************************************************************************)
(* The address space of an emulated process: the map of its virtual memory *)
(* (Process::virtual_memory, source/os.cpp), the page table that the       *)
(* processor keeps beside it (source/arm/processor_default.cpp), and the   *)
(* hooks on physical pages that take them off the processor's fast path    *)
(* (source/memory.cpp).  Addresses and sizes are counted in pages.         *)
(*                                                                         *)
(* Programs names what the emulated programs are allowed to do that not    *)
(* every part copes with:                                                  *)
(*   "gaps"       unmap a range that is not fully mapped                   *)
(*   "aliases"    map a physical page at several addresses                 *)
(* What they never do here is to remap a range whose physical pages do not *)
(* follow each other (the code would map others in their place), or one    *)
(* that has a hook ("TODO: Also return null page if any hooks are set up", *)
(* LookupMemoryBackedPage).                                                *)
(*                                                                         *)
(* A system call leaves its calls of UnmapVirtualMemory and                *)
(* MapVirtualMemory in todo; each recursion of the former is a step.       *)
(***************************************************************************)
EXTENDS Integers, Sequences, FiniteSets, SequencesExt, FiniteSetsExt

CONSTANTS
    VPages,    \* number of virtual pages
    PPages,    \* number of physical pages
    MaxSize,   \* largest size of a request
    Programs   \* what the programs do that not every part copes with

ASSUME AddressSpaceAssumption ==
    /\ VPages \in Nat /\ PPages \in Nat /\ MaxSize \in Nat
    /\ Programs \subseteq {"gaps", "aliases"}

VARIABLES
    vm,          \* Process::virtual_memory: from first page to mapping
    physical,    \* PageTable::physical_addresses
    virtual,     \* PageTable::virtual_addresses_for
    host,        \* the virtual pages with an entry in PageTable::host_memory
    hooked,      \* the physical pages with a hook
    allocated,   \* the physical pages that the process has been given
    todo,        \* the calls that the current system call has still to make
    pages,       \* what the system calls so far should have made of it all:
                 \* the physical page and the permissions of a virtual page
    fault        \* the exception or failed contract

vars == <<vm, physical, virtual, host, hooked, allocated, todo, pages, fault>>

VPage == 0..(VPages - 1)
PPage == 0..(PPages - 1)
Unmapped == -1        \* 0xffffffff in the page table
Nowhere == [phys |-> Unmapped, perm |-> "none"]
Perm == {"rw", "r", "rx"}
Span(v, n) == v..(v + n - 1)

(* A map with one mapping, and the mappings of two maps. *)
Single(k, m) == [j \in {k} |-> m]
Merged(f, g) == [k \in DOMAIN f \cup DOMAIN g |-> IF k \in DOMAIN f THEN f[k] ELSE g[k]]

Fail(what) == fault' = what /\ UNCHANGED <<vm, physical, virtual, host>>
End(v) == v + vm[v].size

-----------------------------------------------------------------------------
(* Lookups.                                                                *)

(* The page that ResolveVirtualAddr finds: the last mapping that starts at *)
(* or before the address, if it reaches it.                                *)
Entry(v) ==
    LET below == {k \in DOMAIN vm : k <= v}
    IN  IF below = {} \/ End(Max(below)) <= v THEN Nowhere
        ELSE [phys |-> vm[Max(below)].phys + v - Max(below), perm |-> vm[Max(below)].perm]

ResolveVirtualAddr(v) == Entry(v).phys

(* Wrong variant: a mapping right behind the candidate range is skipped. *)
BehindOffByOne(at, k, n) == IF k <= at + n THEN End(k) ELSE at

(* One iteration of the search: past the mapping at k, if it is in the way. *)
Behind(at, k, n) == IF End(k) >= at /\ k < at + n THEN End(k) ELSE at

(* FindAvailableVirtualMemory: the candidate, moved past the mappings that *)
(* start below an address, one after the other.  The loop of the code ends *)
(* early at a mapping beyond the candidate range; those after it are not   *)
(* in the way either.                                                      *)
FindAvailableVirtualMemory(n, from, to) ==
    LET candidate[a \in 0..VPages] ==
            IF a = 0 THEN from
            ELSE IF a - 1 \in DOMAIN vm THEN Behind(candidate[a - 1], a - 1, n)
            ELSE candidate[a - 1]
        at == candidate[VPages]
    IN  IF at + n > to THEN Unmapped ELSE at

-----------------------------------------------------------------------------
(* The two operations on the map.                                          *)

Unmap(v, n, must) == [op |-> "unmap", v |-> v, n |-> n, must |-> must]
Map(p, v, n, perm) == [op |-> "map", p |-> p, v |-> v, n |-> n, perm |-> perm]

(* PageTable::Insert (LookupMemoryBackedPage does not look at hooks). *)
InsertPages(p, v, n) ==
    /\ physical' = [w \in VPage |-> IF w \in Span(v, n) THEN p + w - v ELSE physical[w]]
    /\ virtual' = [q \in PPage |-> IF q \in Span(p, n) THEN Append(virtual[q], v + q - p)
                                   ELSE virtual[q]]
    /\ host' = host \cup Span(v, n)

(* MapVirtualMemory refuses a range that a mapping starts in, or that the  *)
(* mapping before it reaches.                                              *)
Taken(v, n) ==
    LET before == {k \in DOMAIN vm : k < v}
    IN  \/ DOMAIN vm \cap Span(v, n) # {}
        \/ before # {} /\ End(Max(before)) > v

(* MapVirtualMemory at an address that the caller has looked for. *)
MapVirtualMemory ==
    /\ fault = "none" /\ todo # <<>> /\ Head(todo).op = "map"
    /\ LET t == Head(todo)
       IN  IF \/ FindAvailableVirtualMemory(t.n, t.v, t.v + t.n) = Unmapped
              \/ Taken(t.v, t.n)
           THEN Fail("virtual memory not available")
           ELSE /\ vm' = Merged(Single(t.v, [phys |-> t.p, size |-> t.n, perm |-> t.perm]), vm)
                /\ InsertPages(t.p, t.v, t.n)
                /\ UNCHANGED fault
    /\ todo' = Tail(todo)
    /\ UNCHANGED <<hooked, allocated, pages>>

(* Wrong variant: the virtual addresses of the pages are kept. *)
RemovePagesOneWay(v, n) ==
    /\ physical' = [w \in VPage |-> IF w \in Span(v, n) THEN Unmapped ELSE physical[w]]
    /\ host' = host \ Span(v, n)
    /\ UNCHANGED virtual

(* PageTable::Remove: every virtual address of the physical pages is       *)
(* forgotten, not only the one that is removed.                            *)
RemovePages(v, n) ==
    LET gone == {physical[w] : w \in Span(v, n)}
    IN  /\ physical' = [w \in VPage |-> IF w \in Span(v, n) THEN Unmapped ELSE physical[w]]
        /\ virtual' = [q \in PPage |-> IF q \in gone THEN <<>> ELSE virtual[q]]
        /\ host' = host \ Span(v, n)

(* The mapping that UnmapVirtualMemory looks at: the one that the range    *)
(* starts in, or else the next one.                                        *)
Affected(v) == {k \in DOMAIN vm : \/ k <= v /\ End(k) > v
                                  \/ k > v}

Without(k) == [j \in DOMAIN vm \ {k} |-> vm[j]]
Part(m, from, size) == [m EXCEPT !.phys = @ + from, !.size = size]

(* Wrong variant: what is left before the address keeps its size. *)
BeforeWhole(k, v) == IF k < v THEN Single(k, vm[k]) ELSE <<>>

(* What is left of the mapping k before the address v, and beyond n pages  *)
(* from where the unmapped chunk starts.                                   *)
Before(k, v) == IF k < v THEN Single(k, Part(vm[k], 0, v - k)) ELSE <<>>

(* Wrong variant: an empty remainder is entered, too. *)
BeyondInclusive(k, v, n) ==
    LET cut == IF k < v THEN v - k ELSE 0
    IN  IF vm[k].size - cut >= n
        THEN Single(v + n, Part(vm[k], cut + n, vm[k].size - cut - n)) ELSE <<>>

(* Wrong variant: the remainder keeps the physical address of the chunk. *)
BeyondUnshifted(k, v, n) ==
    LET cut == IF k < v THEN v - k ELSE 0
    IN  IF vm[k].size - cut > n
        THEN Single(v + n, Part(vm[k], cut, vm[k].size - cut - n)) ELSE <<>>

Beyond(k, v, n) ==
    LET cut == IF k < v THEN v - k ELSE 0
    IN  IF vm[k].size - cut > n
        THEN Single(v + n, Part(vm[k], cut + n, vm[k].size - cut - n)) ELSE <<>>

(* One recursion of UnmapVirtualMemory. *)
UnmapVirtualMemory ==
    /\ fault = "none" /\ todo # <<>> /\ Head(todo).op = "unmap"
    /\ LET t == Head(todo)
           v == t.v
           n == t.n
           k == Min(Affected(v))
           start == IF k < v THEN v ELSE k
           size == Min({End(k) - start, n})
       IN  \/ /\ \A j \in Affected(v) : j > v + n
              /\ IF t.must THEN Fail("failed to unmap memory")
                 ELSE UNCHANGED <<vm, physical, virtual, host, fault>>
              /\ todo' = Tail(todo)
           \/ /\ Affected(v) # {} /\ k = v + n
              /\ Fail("unmapped chunk beyond the range") /\ todo' = Tail(todo)
           \/ /\ Affected(v) # {} /\ k < v + n
              /\ vm' = Merged(Before(k, v), Merged(Without(k), Beyond(k, v, n)))
              /\ RemovePages(start, size)
              /\ fault' = IF \E w \in Span(start, size) : physical[w] = Unmapped
                          THEN "no mapping to remove" ELSE fault
              /\ todo' = IF n > size THEN <<Unmap(v + size, n - size, t.must)>> \o Tail(todo)
                         ELSE Tail(todo)
    /\ UNCHANGED <<hooked, allocated, pages>>

-----------------------------------------------------------------------------
(* System calls.                                                           *)

Ready == fault = "none" /\ todo = <<>>
FullyMapped(v, n) == \A w \in Span(v, n) : pages[w] # Nowhere
Contiguous(v, n) == \A w \in Span(v, n) : pages[w].phys = pages[v].phys + w - v
With(perm, page) == IF page = Nowhere THEN page ELSE [page EXCEPT !.perm = perm]
Mappable(p, n) == hooked \cap Span(p, n) = {}

(* SVCControlProcessMemory, operation 3: allocate physical pages and map   *)
(* them at a given address or at the first that is free.                   *)
Allocate(p, n) ==
    /\ Ready /\ p + n <= PPages /\ Span(p, n) \cap allocated = {} /\ Mappable(p, n)
    /\ \E v \in {FindAvailableVirtualMemory(n, 0, VPages)} \cup 0..(VPages - n) :
         IF v = Unmapped
         THEN /\ fault' = "no address space" /\ UNCHANGED <<todo, pages>>
         ELSE /\ todo' = <<Map(p, v, n, "rw")>> /\ UNCHANGED fault
              /\ pages' = [w \in VPage |-> IF w \in Span(v, n)
                                           THEN [phys |-> p + w - v, perm |-> "rw"]
                                           ELSE pages[w]]
    /\ allocated' = allocated \cup Span(p, n)
    /\ UNCHANGED <<vm, physical, virtual, host, hooked>>

(* Operation 4: map the memory at w also at v; on behalf of another        *)
(* process, what is at v is unmapped first.                                *)
MapAlso(v, w, n, foreign) ==
    /\ Ready
    /\ ResolveVirtualAddr(w) # Unmapped /\ ResolveVirtualAddr(w) + n <= PPages
    /\ "aliases" \in Programs \/ (v = w /\ foreign)
    /\ Contiguous(w, n)
    /\ Mappable(ResolveVirtualAddr(w), n)
    /\ LET p == ResolveVirtualAddr(w)
           found == FindAvailableVirtualMemory(n, v, v + n)
       IN  /\ (found = Unmapped /\ foreign) => ("gaps" \in Programs \/ FullyMapped(v, n))
           /\ todo' = (IF found = Unmapped /\ foreign THEN <<Unmap(v, n, FALSE)>> ELSE <<>>)
                          \o <<Map(p, v, n, "r")>>
           /\ pages' = [u \in VPage |-> IF u \in Span(v, n)
                                        THEN With("r", pages[w + u - v])
                                        ELSE pages[u]]
    /\ UNCHANGED <<vm, physical, virtual, host, hooked, allocated, fault>>

(* Operation 5, and SVCUnmapMemoryBlock. *)
Release(v, n) ==
    /\ Ready
    /\ "gaps" \in Programs \/ FullyMapped(v, n)
    /\ todo' = <<Unmap(v, n, TRUE)>>
    /\ pages' = [w \in VPage |-> IF w \in Span(v, n) THEN Nowhere ELSE pages[w]]
    /\ UNCHANGED <<vm, physical, virtual, host, hooked, allocated, fault>>

(* Operation 6: new permissions.  The range is unmapped and mapped again   *)
(* from the physical address of its start.                                 *)
Protect(v, n) ==
    /\ Ready /\ ResolveVirtualAddr(v) # Unmapped
    /\ Contiguous(v, n)
    /\ ResolveVirtualAddr(v) + n <= PPages /\ Mappable(ResolveVirtualAddr(v), n)
    /\ todo' = <<Unmap(v, n, TRUE), Map(ResolveVirtualAddr(v), v, n, "rx")>>
    /\ pages' = [w \in VPage |-> IF w \in Span(v, n) THEN With("rx", pages[w])
                                 ELSE pages[w]]
    /\ UNCHANGED <<vm, physical, virtual, host, hooked, allocated, fault>>

-----------------------------------------------------------------------------
(* Hooks: the first hook on a physical page and the last one tell the      *)
(* processor (SetHook, ClearHook).                                         *)

(* Wrong variant: the default of a subscriber, which does nothing. *)
OnUnbackedByHostMemoryDefault(p) == UNCHANGED <<host, fault>>

OnUnbackedByHostMemory(p) ==
    /\ host' = host \ ToSet(virtual[p])
    /\ fault' = IF ToSet(virtual[p]) \subseteq host THEN fault
                ELSE "page table cache entry does not exist"

SetHook(p) ==
    /\ Ready /\ p \notin hooked
    /\ hooked' = hooked \cup {p}
    /\ OnUnbackedByHostMemory(p)
    /\ UNCHANGED <<vm, physical, virtual, allocated, todo, pages>>

ClearHook(p) ==
    /\ Ready /\ p \in hooked
    /\ hooked' = hooked \ {p}
    /\ host' = host \cup ToSet(virtual[p])      \* OnBackedByHostMemory
    /\ UNCHANGED <<vm, physical, virtual, allocated, todo, pages, fault>>

-----------------------------------------------------------------------------
Init ==
    /\ vm = <<>> /\ host = {} /\ hooked = {} /\ allocated = {}
    /\ physical = [v \in VPage |-> Unmapped]
    /\ virtual = [p \in PPage |-> <<>>]
    /\ pages = [v \in VPage |-> Nowhere]
    /\ todo = <<>> /\ fault = "none"

Halted == fault # "none" /\ UNCHANGED vars

Next ==
    \/ MapVirtualMemory \/ UnmapVirtualMemory
    \/ \E n \in 1..MaxSize :
         \/ \E p \in PPage : Allocate(p, n)
         \/ \E v \in 0..(VPages - n) :
              \/ Release(v, n)
              \/ Protect(v, n)
              \/ \E w \in 0..(VPages - n), foreign \in BOOLEAN : MapAlso(v, w, n, foreign)
    \/ \E p \in PPage : SetHook(p) \/ ClearHook(p)
    \/ Halted

Spec == Init /\ [][Next]_vars

-----------------------------------------------------------------------------
(* Properties.                                                             *)

(* Types of the map, the page table and the calls. *)
TypeOK ==
    /\ DOMAIN vm \subseteq VPage
    /\ \A k \in DOMAIN vm : vm[k].phys \in PPage /\ vm[k].size \in 1..VPages
                              /\ vm[k].perm \in Perm
    /\ physical \in [VPage -> PPage \cup {Unmapped}]
    /\ virtual \in [PPage -> Seq(VPage)]
    /\ host \subseteq VPage /\ hooked \cup allocated \subseteq PPage
    /\ \A v \in VPage : pages[v] = Nowhere \/ pages[v] \in [phys : PPage, perm : Perm]

(* The mappings of a process do not overlap, also between two recursions   *)
(* of UnmapVirtualMemory, on which every lookup by neighbour relies.       *)
NoOverlap ==
    \A j, k \in DOMAIN vm : j < k => End(j) <= k

(* After every system call that returns, the map and the page table of the *)
(* processor translate each page as the calls so far demand: what they     *)
(* split, merge and remap is exactly the given range, and it never leaves  *)
(* two mappings of one page.                                               *)
Translates ==
    /\ NoOverlap
    /\ Ready => \A v \in VPage : Entry(v) = pages[v] /\ physical[v] = pages[v].phys

(* FindAvailableVirtualMemory "Finds the first unmapped virtual address    *)
(* range of the given size in bytes within the given bounds", if there is  *)
(* one.                                                                    *)
FindsFirst ==
    \A n \in 1..MaxSize, from \in VPage, to \in 0..VPages :
        LET free == {v \in from..(to - n) : \A w \in Span(v, n) : Entry(w) = Nowhere}
        IN  FindAvailableVirtualMemory(n, from, to) =
                IF free = {} THEN Unmapped ELSE Min(free)

(* PageTable::virtual_addresses_for is the "List mapping physical memory   *)
(* page indexes to a list of virtual memory addresses that are mapped to   *)
(* them".                                                                  *)
ReverseMap ==
    fault = "none" =>
        \A p \in PPage : ToSet(virtual[p]) = {v \in VPage : physical[v] = p}

(* The processor writes directly to exactly the pages without a hook: a    *)
(* hooked page never is on the fast path, where its handler would not hear *)
(* of a write, and the page table finds what it removes.                   *)
FastPathUnhooked ==
    /\ Ready => host = {v \in VPage : physical[v] # Unmapped /\ physical[v] \notin hooked}
    /\ fault # "page table cache entry does not exist"

(* Both directions of the page table, and the pages that it lets the       *)
(* processor write to directly, agree with the mappings and the hooks,     *)
(* which change on their own (PageTable::Insert and Remove, SetHook).      *)
PageTableRight == ReverseMap /\ FastPathUnhooked
=============================================================================
