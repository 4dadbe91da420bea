-------------------------- MODULE ResourceManager --------------------------
(***************************************************************************)
(* The copies that the Vulkan renderer keeps of emulated memory: textures  *)
(* and render targets, the pages that track them, the hooks of the memory  *)
(* bus that tell of accesses of the emulated processor, and the operations *)
(* of the GPU that use them.                                               *)
(*                                                                         *)
(* Memory is a row of cells.  Contents are abstracted to who holds the     *)
(* newest contents of a cell: gpu.fresh says it of memory and of every     *)
(* copy.  gpu.lost are cells whose newest contents were thrown away where  *)
(* the code says that it should write them back first.  The handlers call  *)
(* each other, so they are operators on the state; an exception is a fault *)
(* that ends the behaviour.                                                *)
(***************************************************************************)
EXTENDS Integers, Sequences, FiniteSets, SequencesExt

CONSTANTS Pages, PageSize,   \* the memory: this many pages of this many cells
          Textures,          \* the configurations of textures, at most one per address
          Targets,           \* the configurations of colour and depth render targets
          Fills              \* ranges that the memory fill and the texture copy work on

Cell == 0 .. (Pages * PageSize - 1)
Page == 0 .. (Pages - 1)
\* emulated memory itself, as a place that holds contents
Memory == [start |-> 0, n |-> Pages * PageSize, memory |-> TRUE]
Resource == Textures \cup Targets
\* what the bounds of an instance must satisfy
AddressesDiffer == \A t, u \in Textures : t.start = u.start => t = u
InMemory == \A r \in Resource \cup Fills : r.start \in Cell /\ r.n > 0 /\ r.start + r.n - 1 \in Cell

VARIABLE gpu
vars == <<gpu>>

Cells(r) == r.start .. (r.start + r.n - 1)
Overlaps(r, q) == Cells(r) \cap Cells(q) # {}
Throw(s, what) == IF s.fault = "none" THEN [s EXCEPT !.fault = what] ELSE s
Check(s, holds, what) == IF holds THEN s ELSE Throw(s, what)

\* the parts of a range, page by page
IterateMemoryPages(r) ==
  LET first == r.start \div PageSize
      count == ((r.start % PageSize) + PageSize + r.n - 1) \div PageSize
      Low(i) == IF i = 1 THEN r.start ELSE (first + i - 1) * PageSize
      High(i) == IF i = count THEN r.start + r.n ELSE (first + i) * PageSize
  IN  [i \in 1 .. count |-> [start |-> Low(i), n |-> High(i) - Low(i), page |-> first + i - 1]]
EachPage(Op(_, _), s, r) == FoldLeft(Op, s, IterateMemoryPages(r))

-----------------------------------------------------------------------------
(* Hooks of the bus: a sorted list of ranges for each page and kind.       *)

\* a new range is merged with the neighbours that it touches
SetHook(s, kind, r) ==
  LET page == r.start \div PageSize
      list == s.hooks[kind][page]
      k == Cardinality({i \in DOMAIN list : list[i].start < r.start})
      before == SubSeq(list, 1, k)
      after == SubSeq(list, k + 1, Len(list))
      joinsLeft == before # <<>> /\ Last(before).start + Last(before).n = r.start
      joinsRight == after # <<>> /\ Head(after).start = r.start + r.n
      start == IF joinsLeft THEN Last(before).start ELSE r.start
      end == IF joinsRight THEN Head(after).start + Head(after).n ELSE r.start + r.n
      left == IF joinsLeft THEN Front(before) ELSE before
      right == IF joinsRight THEN Tail(after) ELSE after
  IN  IF \E i \in DOMAIN list : Overlaps(list[i], r)
      THEN Throw(s, "hook overlaps with existing hook")
      ELSE [s EXCEPT !.hooks[kind][page] = left \o <<[start |-> start, n |-> end - start]>> \o right]

\* what is left of a hook when a range is cleared: none, one or two ranges
Remains(h, r) ==
  LET hEnd == h.start + h.n
      rEnd == r.start + r.n
      left == IF h.start < r.start THEN <<[start |-> h.start, n |-> r.start - h.start]>> ELSE <<>>
      right == IF hEnd > rEnd THEN <<[start |-> rEnd, n |-> hEnd - rEnd]>> ELSE <<>>
  IN  IF Overlaps(h, r) THEN left \o right ELSE <<h>>
ClearHook(s, kind, r) ==
  LET page == r.start \div PageSize
      list == s.hooks[kind][page]
  IN  IF list = <<>> THEN Throw(s, "no hook to clear")
      ELSE [s EXCEPT !.hooks[kind][page] = FlattenSeq([i \in DOMAIN list |-> Remains(list[i], r)])]

\* a contiguous view of emulated memory must not be hooked
LookupContiguousMemoryBackedPage(s, kind, r) ==
  Check(s, \A p \in Page : \A i \in DOMAIN s.hooks[kind][p] : ~Overlaps(s.hooks[kind][p][i], r),
        "contiguous memory region covers hooks")

-----------------------------------------------------------------------------
(* Pages track the resources for which they are hooked.                    *)

EntryOf(s, page, r) == SelectInSeq(s.tracked[page], LAMBDA e : e.res = r)

RECURSIVE UncoveredFrom(_, _, _)
\* the parts of cells start .. end - 1 that no entry covers, from left to right
UncoveredFrom(entries, start, end) ==
  LET over == {e \in entries : Overlaps(e.res, [start |-> start, n |-> end - start])}
      e == CHOOSE x \in over : \A y \in over : x.res.start < y.res.start
                 \/ (x.res.start = y.res.start /\ x.res.n <= y.res.n)
      next == e.res.start + e.res.n
  IN  IF start >= end THEN <<>>
      ELSE IF over = {} THEN <<[start |-> start, n |-> end - start]>>
      ELSE (IF e.res.start > start THEN <<[start |-> start, n |-> e.res.start - start]>> ELSE <<>>)
             \o UncoveredFrom(entries, next, end)
ForEachUncoveredRange(s, kind, sub) ==
  UncoveredFrom({s.tracked[sub.page][i] : i \in {j \in DOMAIN s.tracked[sub.page] : kind \in s.tracked[sub.page][j].kind}},
                sub.start, sub.start + sub.n)

\* mutant: the hooks of a resource outlive it
KeepUnusedHooks(s, kind, sub) == s
ClearUnusedHooks(s, kind, sub) ==
  FoldLeft(LAMBDA x, chunk : ClearHook(x, kind, chunk), s, ForEachUncoveredRange(s, kind, sub))

\* one kind less for an entry, and no entry without a kind
Untrack(s, kind, sub, r) ==
  LET i == EntryOf(s, sub.page, r)
      kinds == s.tracked[sub.page][i].kind
  IN  IF i = 0 THEN Throw(s, "resource not contained in tracked page")
      ELSE IF kind \notin kinds THEN Throw(s, "contract: entry without this hook")
      ELSE [s EXCEPT !.tracked[sub.page] = IF kinds = {kind} THEN RemoveAt(@, i) ELSE [@ EXCEPT ![i].kind = kinds \ {kind}]]

Track(s, kind, sub, r) ==
  LET i == EntryOf(s, sub.page, r)
  IN  [s EXCEPT !.tracked[sub.page] = IF i = 0 THEN Append(@, [res |-> r, kind |-> {kind}])
                                      ELSE [@ EXCEPT ![i].kind = @ \cup {kind}]]

ProtectPage(s, sub, r) ==
  LET hooked == FoldLeft(LAMBDA x, chunk : SetHook(x, "write", chunk), s, ForEachUncoveredRange(s, "write", sub))
      i == EntryOf(s, sub.page, r)
  IN  IF i # 0 /\ "write" \in s.tracked[sub.page][i].kind
      THEN Throw(hooked, "resource was already linked to page")
      ELSE Track(hooked, "write", sub, r)
ProtectFromWriteAccess(s, r) == EachPage(LAMBDA x, sub : ProtectPage(x, sub, r), s, r)

-----------------------------------------------------------------------------
(* Invalidation and write-back.                                            *)

\* the newest contents of these cells exist nowhere but in a copy that is dropped
Dropped(s, r) == IF s.state[r] = "HostUpToDate" THEN Cells(r) \ s.fresh[Memory] ELSE {}

\* a resource no longer hears of accesses of one kind
Unhook(s, kind, r) == EachPage(LAMBDA x, sub : ClearUnusedHooks(Untrack(x, kind, sub, r), kind, sub), s, r)

InvalidateResource(s, r) ==
  LET kinds == IF s.state[r] = "HostUpToDate" /\ r \in Targets THEN <<"write", "read">> ELSE <<"write">>
  IN  IF s.state[r] \in {"Invalidated", "absent"} THEN s
      ELSE FoldLeft(LAMBDA x, kind : Unhook(x, kind, r),
                    [s EXCEPT !.state[r] = "Invalidated", !.fresh[r] = {}, !.lost = @ \cup Dropped(s, r)], kinds)

\* render targets in the order of their creation, then textures in that of their addresses
Invalidate(s, q, except) ==
  FoldLeft(LAMBDA x, r : IF r # except /\ Overlaps(r, q) THEN InvalidateResource(x, r) ELSE x,
           s, s.targets \o SetToSortSeq(Textures, LAMBDA t, u : t.start < u.start))
InvalidateRange(s, q) == Invalidate(s, q, Memory)
InvalidateOverlappingResources(s, r) == Invalidate(s, r, r)

IsDepthStencil(r) == r.format = "depth"
\* Depth is not downloaded ("Workaround for Pokemon"): what is written back is an old copy.
PrepareFlush(s, r) == IF IsDepthStencil(r) THEN {} ELSE s.fresh[r] \cap Cells(r)
WriteBack(s, r) ==
  LET flushed == PrepareFlush(s, r)
  IN  [s EXCEPT !.fresh[Memory] = (@ \ Cells(r)) \cup flushed, !.lost = @ \cup (s.fresh[r] \ flushed)]

\* the own write hook goes while memory is written, whoever else has hooks there
ClearOwnHook(s, r) == EachPage(LAMBDA x, sub : ClearHook(Untrack(x, "write", sub, r), "write", sub), s, r)
FlushRenderTarget(s, r) ==
  WriteBack(
    ProtectFromWriteAccess(
      LookupContiguousMemoryBackedPage(
        ClearOwnHook(
          InvalidateOverlappingResources(
            Unhook([s EXCEPT !.state[r] = "Synchronized"], "read", r), r), r), "write", r), r), r)

\* mutant: nothing is written back
FlushNothing(s, q) == s
FlushRange(s, q) ==
  FoldLeft(LAMBDA x, r : IF Overlaps(r, q) /\ x.state[r] = "HostUpToDate" THEN FlushRenderTarget(x, r) ELSE x,
           s, s.targets)
\* what overlaps with a target that is about to be used
FlushOthers(s, r) ==
  FoldLeft(LAMBDA x, t : IF t # r /\ Overlaps(t, r) /\ x.state[t] = "HostUpToDate" THEN FlushRenderTarget(x, t) ELSE x,
           s, s.targets)

-----------------------------------------------------------------------------
(* Copies of memory.                                                       *)

\* what was read from memory is as new as memory
Load(s, r) == [s EXCEPT !.fresh[r] = Cells(r) \cap s.fresh[Memory]]
RefreshStagedMemory(s, r) == Load(LookupContiguousMemoryBackedPage(FlushRange(s, r), "read", r), r)

SameLayout(t, r) == t.start = r.start /\ t.n = r.n /\ t.format = r.format /\ t.width = r.width
\* A texture that has been rendered is found among the render targets.
LookupTextureResource(s, t) ==
  LET i == SelectInSeq(s.targets, LAMBDA r : SameLayout(t, r))
  IN  IF i # 0 THEN s.targets[i] ELSE t
Created(s, t) == IF s.state[t] = "absent" THEN [s EXCEPT !.state[t] = "Invalidated"] ELSE s

\* a copy that is not valid is made from memory and protected
Refresh(s, r, state) ==
  IF s.state[r] # "Invalidated" THEN s
  ELSE ProtectFromWriteAccess([RefreshStagedMemory(s, r) EXCEPT !.state[r] = state], r)
RefreshTextureMemory(s, t) ==
  LET r == LookupTextureResource(s, t)
  IN  Refresh(Created(s, r), r, "Synchronized")

CreateRenderTargetResource(s, r) ==
  IF s.state[r] = "absent" THEN [s EXCEPT !.state[r] = "Invalidated", !.targets = Append(@, r)] ELSE s

PrepareRenderTarget(s, r) ==
  Refresh(CreateRenderTargetResource(FlushOthers(s, r), r), r, "StagingUpToDate")

\* The area may be part of a target of the same width; otherwise it is a target by itself.
AreaTarget(s, area) ==
  LET fits == SelectSeq(s.targets, LAMBDA r : /\ Cells(area) \subseteq Cells(r)
                                              /\ area.format = r.format /\ area.width = r.width
                                              /\ s.state[r] \in {"HostUpToDate", "Synchronized"})
      Prefer(best, r) == IF s.state[r] = "HostUpToDate" THEN r ELSE best
  IN  IF fits = <<>> THEN area ELSE FoldLeft(Prefer, Head(fits), Tail(fits))
PrepareToCopyRenderTargetArea(s, area) ==
  LET r == AreaTarget(s, area)
  IN  Check(PrepareRenderTarget(s, r), (area.start - r.start) % r.width = 0, "not implemented")

UploadStagedDataToHost(s) ==
  [s EXCEPT !.state = [r \in Resource |-> IF @[r] = "StagingUpToDate" THEN "Synchronized" ELSE @[r]]]

\* hooks for a target whose contents are newer than memory
ProtectBackingEmulatedMemory(s, r) ==
  LET Hooked(x, sub) == SetHook(Track(x, "read", sub, r), "read", sub)
  IN  IF s.state[r] = "Synchronized" THEN EachPage(Hooked, [s EXCEPT !.state[r] = "HostUpToDate"], r)
      ELSE Check(s, s.state[r] = "HostUpToDate", "contract: target neither host backed nor synchronized")

\* the contents of cells change in one place
Written(s, where, cells) ==
  [s EXCEPT !.fresh = [h \in DOMAIN @ |-> IF h = where THEN @[h] \cup cells ELSE @[h] \ cells],
            !.lost = @ \ cells]
\* a copy is used: it must be valid and the newest there is
Used(s, r, cells) ==
  Check(s, s.state[r] \in {"Synchronized", "HostUpToDate"} /\ cells \subseteq s.fresh[r] \cup s.lost, "stale copy used")
MemoryUsed(s, cells) == Check(s, cells \subseteq s.fresh[Memory] \cup s.lost, "stale memory used")

-----------------------------------------------------------------------------
(* Operations of the GPU and of the processor.                             *)

Init == gpu = [targets |-> <<>>, state |-> [r \in Resource |-> "absent"],
               tracked |-> [p \in Page |-> <<>>],
               hooks |-> [k \in {"read", "write"} |-> [p \in Page |-> <<>>]],
               fresh |-> [h \in {Memory} \cup Resource |-> IF h = Memory THEN Cell ELSE {}],
               lost |-> {}, fault |-> "none"]

\* textures and targets hold what memory holds, on the host
Prepare(s, textures, targets) ==
  UploadStagedDataToHost(FoldLeft(PrepareRenderTarget, FoldLeft(RefreshTextureMemory, s, textures), targets))
Draw(s, textures, written) ==
  FoldLeft(LAMBDA x, r : Written(Used(x, r, Cells(r)), r, Cells(r) \ x.lost),
           FoldLeft(LAMBDA x, t : Used(x, LookupTextureResource(gpu, t), Cells(t)), s, textures), written)
\* a batch of triangles: textures, colour target, and depth target if any, which may be only tested
FinalizeTriangleBatchInternal(textures, color, depth, writesDepth) ==
  LET targets == <<color>> \o depth
      written == IF writesDepth THEN targets ELSE <<color>>
  IN  /\ \A i \in DOMAIN depth : ~Overlaps(depth[i], color)
      /\ gpu' = FoldLeft(ProtectBackingEmulatedMemory,
                        FoldLeft(InvalidateOverlappingResources, Draw(Prepare(gpu, textures, targets), textures, written), written),
                        targets)

\* a target, or a part of one, is copied to another
Blit(s, input, output) ==
  Written(Used(UploadStagedDataToHost(s), AreaTarget(gpu, input), Cells(input)), output, Cells(output))
BlitImage(input, output) ==
  gpu' = InvalidateOverlappingResources(
           ProtectBackingEmulatedMemory(
             Blit(PrepareRenderTarget(PrepareToCopyRenderTargetArea(gpu, input), output), input, output), output), output)

MemoryFill(q) ==
  gpu' = Written(LookupContiguousMemoryBackedPage(InvalidateRange(gpu, q), "write", q), Memory, Cells(q))

TextureCopy(from, to) ==
  LET ready == InvalidateRange(FlushRange(gpu, from), to)
      mapped == LookupContiguousMemoryBackedPage(LookupContiguousMemoryBackedPage(ready, "read", from), "write", to)
  IN  gpu' = Written(MemoryUsed(mapped, Cells(from)), Memory, Cells(to))

ProduceFrame(r) ==
  gpu' = Used(UploadStagedDataToHost(PrepareRenderTarget(gpu, r)), r, Cells(r))

\* the processor reads or writes a cell; a hook anywhere on its page calls the handler
Found(s, c) == SelectSeq(s.tracked[c \div PageSize], LAMBDA e : c \in Cells(e.res))
OnRead(s, c) ==
  LET page == s.tracked[c \div PageSize]
      i == SelectInSeq(page, LAMBDA e : c \in Cells(e.res))
      r == page[i].res
  IN  IF i = 0 THEN s
      ELSE IF i < Len(page) /\ c \in Cells(page[i + 1].res) THEN Throw(s, "read affects multiple resources")
      ELSE IF r \notin Targets THEN s
      ELSE IF s.state[r] = "Synchronized" THEN Check(s, Len(page) > 1, "contract: hook without need")
      ELSE IF s.state[r] # "HostUpToDate" THEN Throw(s, "read hook hit target that is not host backed")
      ELSE FlushRange(s, r)
OnWrite(s, c) ==
  IF Found(s, c) = <<>> THEN s ELSE InvalidateRange(s, Head(Found(s, c)).res)

ReadMemory(c) ==
  gpu' = MemoryUsed(IF gpu.hooks["read"][c \div PageSize] # <<>> THEN OnRead(gpu, c) ELSE gpu, {c})
WriteMemory(c) ==
  gpu' = Written(IF gpu.hooks["write"][c \div PageSize] # <<>> THEN OnWrite(gpu, c) ELSE gpu, Memory, {c})

Color == {r \in Targets : ~IsDepthStencil(r)}
Next ==
  /\ gpu.fault = "none"
  /\ \/ \E t \in {<<>>} \cup {<<x>> : x \in Textures}, color \in Color :
          \/ FinalizeTriangleBatchInternal(t, color, <<>>, FALSE)
          \/ \E d \in Targets \ Color, w \in BOOLEAN : FinalizeTriangleBatchInternal(t, color, <<d>>, w)
     \/ \E input, output \in Color : BlitImage(input, output)
     \/ \E q \in Fills : MemoryFill(q)
     \/ \E from, to \in Fills : TextureCopy(from, to)
     \/ \E r \in Color : ProduceFrame(r)
     \/ \E c \in Cell : ReadMemory(c) \/ WriteMemory(c)
Spec == Init /\ [][Next]_vars

-----------------------------------------------------------------------------
(* A page is hooked exactly where a resource needs it: every copy hears of *)
(* writes, every copy that is newer than memory of reads, nothing else is  *)
(* hooked, and the lists of the bus stay sorted and without overlaps.      *)
HooksFollow ==
  gpu.fault = "none" =>
    /\ \A r \in Resource, p \in Page :
         LET kinds == {gpu.tracked[p][i].kind : i \in {j \in DOMAIN gpu.tracked[p] : gpu.tracked[p][j].res = r}}
             need == CASE gpu.state[r] = "Synchronized" -> {{"write"}}
                       [] gpu.state[r] = "HostUpToDate" -> {{"read", "write"}}
                       [] OTHER -> {}
         IN  kinds = IF \E c \in Cells(r) : c \div PageSize = p THEN need ELSE {}
    /\ \A k \in {"read", "write"}, p \in Page :
         LET list == gpu.hooks[k][p]
         IN  /\ UNION {Cells(list[i]) : i \in DOMAIN list}
                  = {c \in Cell : c \div PageSize = p /\ \E i \in DOMAIN gpu.tracked[p] :
                                     c \in Cells(gpu.tracked[p][i].res) /\ k \in gpu.tracked[p][i].kind}
             /\ \A i, j \in DOMAIN list : i < j => list[i].start + list[i].n < list[j].start

(* Whoever uses a copy or memory gets the newest contents, except those    *)
(* that the code throws away knowingly; nothing but an aliased read or a   *)
(* request that is not implemented throws.                                 *)
CopiesCoherent ==
  /\ gpu.fault \in {"none", "read affects multiple resources", "not implemented"}
  /\ gpu.fault = "none" =>
       /\ \A r \in Resource : gpu.state[r] \notin {"absent", "Invalidated"} => Cells(r) \subseteq gpu.fresh[r] \cup gpu.lost
       /\ \A c \in Cell \ gpu.lost :
            c \notin gpu.fresh[Memory] => \E r \in Targets : gpu.state[r] = "HostUpToDate" /\ c \in Cells(r)
=============================================================================
