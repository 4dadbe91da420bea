----------------------------- MODULE Processes -----------------------------
(***************************************************************************)
(* The life of processes and threads: code sets, process creation and      *)
(* start, termination from inside and outside, handle tables, shared       *)
(* memory blocks, slots of thread-local storage, and whose the pages of    *)
(* physical memory are meanwhile.                                          *)
(*                                                                         *)
(* Physical memory is what PhysicalMemory promises, a map from pages to    *)
(* owners; virtual memory is the set of pages that a process can reach.    *)
(* Objects live as long as somebody refers to them (shared_ptr), so their  *)
(* use counts and their ends are derived from the tables.  A system call   *)
(* and the destruction of the threads it stopped are one step of the       *)
(* dispatcher.  An exception is a fault and ends the behaviour.            *)
(***************************************************************************)
EXTENDS Integers, Sequences, FiniteSets, SequencesExt, FiniteSetsExt, Functions

CONSTANTS Pages,         \* the pages of the memory region
          NumFirm,       \* num_firm_modules
          MaxPid,        \* bound on process ids
          MaxHandle,     \* bound on the handles that a process is given
          MaxThreads,    \* bound on the threads that a process is given
          MaxCodeSets,   \* bound on code sets
          MaxBlocks,     \* bound on shared memory blocks
          SlotsPerPage   \* slots of thread-local storage on a page

Page == 1 .. Pages
Pid == 0 .. MaxPid
Boot == NumFirm + 1
Handle == 1 .. MaxHandle
Self == MaxHandle + 1       \* the handle 0xFFFF8001
Free == [kind |-> "free"]
Process(p) == [kind |-> "process", pid |-> p]
Thread(p, t) == [kind |-> "thread", pid |-> p, tid |-> t]
CodeSet(c) == [kind |-> "codeset", id |-> c]
Block(b) == [kind |-> "block", id |-> b]
NoCode == 0
NoFunction == [x \in {} |-> x]

VARIABLE os
vars == <<os>>

Throw(s, what) == IF s.fault = "none" THEN [s EXCEPT !.fault = what] ELSE s
Check(s, holds, what) == IF holds THEN s ELSE Throw(s, what)

-----------------------------------------------------------------------------
(* References.                                                             *)

Handles(s, o) == {<<p, h>> \in Pid \X (1 .. Self) : h \in DOMAIN s.table[p] /\ s.table[p][h] = o}
\* Who refers to an object: handles, the running call (s.held), the list of processes, the
\* process of a code set, the process of a thread.  (The handle 0xFFFF8000 refers to the last
\* thread that ran until that thread exits, so it keeps no thread longer than that.)
References(s, o) ==
  Cardinality(Handles(s, o)) + Cardinality(s.held \cap {o}) +
    CASE o.kind = "codeset" -> Cardinality({p \in Pid : s.code[p] = o.id})
      [] o.kind = "process" -> Cardinality(s.registered \cap {o.pid})
      [] o.kind = "thread" -> Cardinality(ToSet(s.threads[o.pid]) \cap {o.tid})
      [] OTHER -> 0
UseCount(s, o) == References(s, o) - Cardinality(s.held \cap {o})
Exists(s, o) == References(s, o) > 0

\* slots of threads that are no more (TLSSlot::~TLSSlot); a mutant never gives them back
KeepSlots(s) == s
ReleaseSlots(s) ==
  LET alive == [p \in Pid |-> {t \in DOMAIN s.slot[p] : Exists(s, Thread(p, t))}]
  IN  [s EXCEPT !.slots = [p \in Pid |-> [i \in DOMAIN @[p] |-> \E t \in alive[p] : s.slot[p][t] = i]],
                !.slot = [p \in Pid |-> Restrict(@[p], alive[p])]]

-----------------------------------------------------------------------------
(* Physical memory.                                                        *)

Run(a, n) == a .. (a + n - 1)
Give(s, o, pages) == [s EXCEPT !.owner = [x \in Page |-> IF x \in pages THEN o ELSE @[x]]]
Room(s, n) == {a \in Page : Run(a, n) \subseteq Page /\ \A x \in Run(a, n) : s.owner[x] = Free}
\* every walk over the blocks requires that they have living owners
OwnersLive(s) == \A x \in Page : s.owner[x] = Free \/ Exists(s, s.owner[x])
TransferOwnership(s, old, new, pages) ==
  IF \A x \in pages : s.owner[x] = old
  THEN Check(Give(s, new, pages), OwnersLive(s), "contract: owner expired")
  ELSE Throw(s, "contract: not the owner")
DeallocateBlock(s, o, pages) == TransferOwnership(s, o, Free, pages)

CreateHandle(s, p, o) ==
  [s EXCEPT !.cur[p] = @ + 1, !.table[p] = (s.cur[p] + 1 :> o) @@ @]
MakeNewProcessId(s) ==
  CASE s.nextPid = NumFirm + 1 -> [pid |-> NumFirm + 1, next |-> 0]
    [] s.nextPid + 1 = NumFirm -> [pid |-> NumFirm - 1, next |-> NumFirm + 2]
    [] OTHER -> [pid |-> s.nextPid, next |-> s.nextPid + 1]
RegisterProcess(s, p) ==
  Check([s EXCEPT !.registered = @ \cup {p}], p \notin s.registered, "process id in use")

\* the first slot that is free; otherwise one more, and a page for it if the last is full
NextSlotNeedsNewPage(slots) == Len(slots) % SlotsPerPage = 0
GetFreePage(s, p, t) ==
  LET slots == s.slots[p]
      free == {i \in DOMAIN slots : ~slots[i]}
      page == Min(Room(s, 1))
      mapped == [Give(s, Process(p), {page}) EXCEPT !.map[p] = @ \cup {page}]
  IN  IF free # {} THEN [s EXCEPT !.slots[p][Min(free)] = TRUE, !.slot[p] = (t :> Min(free)) @@ @]
      ELSE [(IF NextSlotNeedsNewPage(slots) THEN mapped ELSE s)
              EXCEPT !.slots[p] = Append(@, TRUE), !.slot[p] = (t :> Len(slots) + 1) @@ @]
SpawnThread(s, p) ==
  LET t == s.nextTid[p]
  IN  [GetFreePage(s, p, t) EXCEPT !.nextTid[p] = @ + 1, !.threads[p] = Append(@, t)]
\* what SpawnThread and the bounds need
CanSpawn(s, p) == /\ s.nextTid[p] <= MaxThreads
                  /\ (\A i \in DOMAIN s.slots[p] : s.slots[p][i]) /\ NextSlotNeedsNewPage(s.slots[p]) => Room(s, 1) # {}

-----------------------------------------------------------------------------
(* Closing handles, exiting threads, ending processes.                     *)

\* the parts of a code set are given back one after the other until one is not its own
RECURSIVE GiveBack(_, _, _)
GiveBack(s, c, parts) ==
  IF parts = <<>> \/ \E x \in Head(parts) : s.owner[x] # CodeSet(c) THEN s
  ELSE GiveBack(Give(s, Free, Head(parts)), c, Tail(parts))

\* nothing is left of a process that nobody refers to
Forgotten(s, p) ==
  IF Exists(s, Process(p)) THEN s
  ELSE [s EXCEPT !.status[p] = "gone", !.map[p] = {}, !.shared[p] = {}, !.code[p] = NoCode,
                 !.slots[p] = <<>>, !.slot[p] = NoFunction, !.cur[p] = 0, !.nextTid[p] = 1]

\* mutant: the memory of a shared block is not given back
CloseHandleOnly(s, p, h) == [s EXCEPT !.table[p] = Restrict(@, DOMAIN @ \ {h})]
CloseHandle(s, p, h) ==
  LET o == s.table[p][h]
      last == UseCount(s, o) = 1
      released == CASE o.kind = "block" /\ last /\ s.block[o.id].owns -> DeallocateBlock(s, o, s.block[o.id].pages)
                    [] o.kind = "codeset" /\ last -> GiveBack(s, o.id, s.codeset[o.id])
                    [] OTHER -> s
  IN  IF h \notin DOMAIN s.table[p] THEN s
      ELSE LET closed == [released EXCEPT !.table[p] = Restrict(@, DOMAIN @ \ {h})]
           IN  IF o.kind = "process" THEN Forgotten(closed, o.pid) ELSE closed

RECURSIVE CloseAll(_, _)
CloseAll(s, p) ==
  IF DOMAIN s.table[p] = {} THEN s ELSE CloseAll(CloseHandle(s, p, CHOOSE h \in DOMAIN s.table[p] : TRUE), p)
\* the memory of a process is looked for in all regions
Reclaim(s, p) ==
  LET own == {x \in Page : s.owner[x] = Process(p)}
  IN  IF own = {} THEN s ELSE DeallocateBlock(s, Process(p), own)
WindDown(s, p) ==
  LET stopping == [s EXCEPT !.status[p] = "Stopping", !.registered = @ \ {p}, !.held = {Process(p)}]
  IN  Forgotten([Reclaim(CloseAll(stopping, p), p) EXCEPT !.held = {}], p)
TriggerThreadDestruction(s, p, t) ==
  LET gone == [s EXCEPT !.threads[p] = SelectSeq(@, LAMBDA x : x # t)]
  IN  IF gone.threads[p] = <<>> THEN WindDown(gone, p) ELSE gone
Destroyed(s, p, ts) == FoldLeft(LAMBDA x, t : TriggerThreadDestruction(x, p, t), s, ts)

-----------------------------------------------------------------------------
(* System calls of thread t of process p.                                  *)

SVCControlMemory(s, p) ==
  {[Give(s, Process(p), {a}) EXCEPT !.map[p] = @ \cup {a}] : a \in IF Room(s, 1) = {} THEN {} ELSE {Min(Room(s, 1))}}

\* A section of each kind, from the caller's memory; bss is new memory.
SVCCreateCodeSet(s, p, text, data, bss) ==
  LET c == Len(s.codeset) + 1
      held == [s EXCEPT !.held = {CodeSet(c)}]
      taken == TransferOwnership(TransferOwnership(held, Process(p), CodeSet(c), {text}), Process(p), CodeSet(c), {data})
      start == Min(Room(taken, bss))
      filled == IF bss = 0 THEN taken ELSE Give(taken, CodeSet(c), Run(start, bss))
      made == [filled EXCEPT !.codeset = Append(@, <<{text}, {data}>> \o IF bss = 0 THEN <<>> ELSE <<Run(start, bss)>>),
                             !.map[p] = @ \ {text, data}, !.held = {}]
  IN  CreateHandle(made, p, CodeSet(c))
\* The first processes are made from one piece of new memory.
CreateFirmCodeSet(s, p, bss) ==
  LET c == Len(s.codeset) + 1
      start == Min(Room(s, 2 + bss))
      made == [Give(s, CodeSet(c), Run(start, 2 + bss))
                 EXCEPT !.codeset = Append(@, <<{start}, {start + 1}, Run(start + 2, bss)>>)]
  IN  CreateHandle(made, p, CodeSet(c))

\* mutant: bss stays with the code set
MapSectionsOnly(s, p, c) ==
  [Give(s, Process(p), UNION {s.codeset[c][i] : i \in {1, 2}}) EXCEPT !.map[p] = @ \cup UNION Range(s.codeset[c])]
MapSections(s, p, c) ==
  LET Section(x, pages) == [TransferOwnership(x, CodeSet(c), Process(p), pages) EXCEPT !.map[p] = @ \cup pages]
  IN  FoldLeft(Section, s, s.codeset[c])
\* (the process is entered in the list first, so that it exists while its sections change owner)
SVCCreateProcess(s, p, h) ==
  LET c == s.table[p][h].id
      id == MakeNewProcessId(s)
      made == [s EXCEPT !.nextPid = id.next, !.status[id.pid] = "Created", !.code[id.pid] = c]
  IN  CreateHandle(MapSections(RegisterProcess(made, id.pid), id.pid, c), p, Process(id.pid))

SVCRun(s, p, h) ==
  LET q == s.table[p][h].pid
      stack == Min(Room(s, 1))
      mapped == [Give(s, Process(q), {stack}) EXCEPT !.map[q] = @ \cup {stack}, !.table[q] = (Self :> Process(q)) @@ @]
  IN  IF s.status[q] # "Created" THEN Throw(s, "already active")
      ELSE [SpawnThread(mapped, q) EXCEPT !.status[q] = "Running"]

SVCCreateThread(s, p) ==
  CreateHandle(SpawnThread(s, p), p, Thread(p, s.nextTid[p]))
SVCExitThread(s, p, t) == TriggerThreadDestruction(s, p, t)

\* the other threads first
SVCExitProcess(s, p, t) == Destroyed(s, p, SelectSeq(s.threads[p], LAMBDA x : x # t) \o <<t>>)
SVCTerminateProcess(s, p, h) ==
  LET q == s.table[p][h].pid
  IN  IF q = p THEN Throw(s, "terminates itself")
      ELSE IF s.status[q] = "Stopping" THEN Throw(s, "already stopping")
      ELSE IF s.threads[q] = <<>> THEN Throw(s, "front of no threads")
      ELSE Destroyed(s, q, s.threads[q])

SVCOpenProcess(s, p, q) == CreateHandle(s, p, Process(q))
SVCDuplicateHandle(s, p, h) == CreateHandle(s, p, s.table[p][h])
\* a handle in a message: a copy for the receiver, and the sender's is closed if it says so
TranslateHandle(s, p, h, q, close) ==
  LET sent == CreateHandle(s, q, s.table[p][h])
  IN  IF close THEN CloseHandle(sent, p, h) ELSE sent

\* new memory of its own, or memory of the caller
SVCCreateMemoryBlock(s, p, page) ==
  LET b == Len(s.block) + 1
      new == Min(Room(s, 1))
      made == CreateHandle([s EXCEPT !.block = Append(@, [pages |-> {IF page = 0 THEN new ELSE page}, owns |-> page = 0])], p, Block(b))
  IN  IF page # 0 THEN made
      ELSE TransferOwnership(Give(made, Process(p), {new}), Process(p), Block(b), {new})
SVCMapMemoryBlock(s, p, h) ==
  [s EXCEPT !.map[p] = @ \cup s.block[s.table[p][h].id].pages, !.shared[p] = @ \cup s.block[s.table[p][h].id].pages]
SVCUnmapMemoryBlock(s, p, h) ==
  [s EXCEPT !.map[p] = @ \ s.block[s.table[p][h].id].pages, !.shared[p] = @ \ s.block[s.table[p][h].id].pages]

-----------------------------------------------------------------------------
Init ==
  LET empty == [p \in Pid |-> {}]
      state == [owner |-> [x \in Page |-> Free],
                status |-> [p \in Pid |-> "absent"], registered |-> {}, held |-> {},
                table |-> [p \in Pid |-> NoFunction], cur |-> [p \in Pid |-> 0],
                code |-> [p \in Pid |-> NoCode], map |-> empty, shared |-> empty,
                threads |-> [p \in Pid |-> <<>>], nextTid |-> [p \in Pid |-> 1],
                slots |-> [p \in Pid |-> <<>>], slot |-> [p \in Pid |-> NoFunction],
                codeset |-> <<>>, block |-> <<>>, nextPid |-> 0, fault |-> "none"]
  IN  \* the debugger and the process that boots have their ids already
      os = [state EXCEPT !.status[Boot] = "Running", !.registered = {Boot}, !.threads[Boot] = <<1>>,
                         !.nextTid[Boot] = 2, !.table[Boot] = (Self :> Process(Boot))]

Of(p, kind) == {h \in DOMAIN os.table[p] \ {Self} : os.table[p][h].kind = kind}
Own(p) == {x \in os.map[p] : os.owner[x] = Process(p)}
MoreHandles(p) == os.cur[p] < MaxHandle

Step(s) == os' = ReleaseSlots(s)
SystemCall(p, t) ==
  \/ \E next \in SVCControlMemory(os, p) : p # Boot /\ Step(next)
  \/ /\ MoreHandles(p) /\ Len(os.codeset) < MaxCodeSets
     /\ \/ \E text, data \in Own(p), bss \in 0 .. 1 :
             text < data /\ Room(os, bss) # {} /\ Step(SVCCreateCodeSet(os, p, text, data, bss))
        \/ p = Boot /\ Room(os, 3) # {} /\ Step(CreateFirmCodeSet(os, p, 1))
  \/ \E h \in Of(p, "codeset") :
       /\ MoreHandles(p) /\ MakeNewProcessId(os).pid \in Pid
       /\ \A x \in UNION Range(os.codeset[os.table[p][h].id]) : os.owner[x] = os.table[p][h]
       /\ Step(SVCCreateProcess(os, p, h))
  \/ \E h \in Of(p, "process") :
       \/ /\ os.status[os.table[p][h].pid] = "Created" /\ Cardinality(Room(os, 1)) > 1
          /\ Step(SVCRun(os, p, h))
       \/ /\ os.status[os.table[p][h].pid] = "Running" /\ os.table[p][h].pid # Boot /\ os.table[p][h].pid # p
          /\ Step(SVCTerminateProcess(os, p, h))
  \/ p # Boot /\ MoreHandles(p) /\ CanSpawn(os, p) /\ Step(SVCCreateThread(os, p))
  \/ p # Boot /\ (Step(SVCExitThread(os, p, t)) \/ Step(SVCExitProcess(os, p, t)))
  \/ \E q \in os.registered : MoreHandles(p) /\ q # p /\ Step(SVCOpenProcess(os, p, q))
  \/ \E h \in DOMAIN os.table[p] \ {Self} :
       \/ Step(CloseHandle(os, p, h))
       \/ MoreHandles(p) /\ Step(SVCDuplicateHandle(os, p, h))
       \/ \E q \in os.registered \ {p}, close \in BOOLEAN :
            /\ MoreHandles(q) /\ os.status[q] = "Running" /\ os.table[p][h].kind # "thread"
            /\ Step(TranslateHandle(os, p, h, q, close))
  \/ \E page \in {0} \cup Own(p) :
       /\ MoreHandles(p) /\ Len(os.block) < MaxBlocks /\ (page = 0 => Room(os, 1) # {})
       /\ Step(SVCCreateMemoryBlock(os, p, page))
  \/ \E h \in Of(p, "block") :
       \/ os.block[os.table[p][h].id].pages \cap os.map[p] = {} /\ Step(SVCMapMemoryBlock(os, p, h))
       \/ os.block[os.table[p][h].id].pages \subseteq os.shared[p] /\ Step(SVCUnmapMemoryBlock(os, p, h))

Next == os.fault = "none" /\ \E p \in os.registered : \E t \in ToSet(os.threads[p]) : SystemCall(p, t)
Spec == Init /\ [][Next]_vars

-----------------------------------------------------------------------------
(* Whatever is created, started, shared, handed on, closed and terminated  *)
(* in whatever order, every page in use belongs to something that exists   *)
(* (which MemoryManager::DeallocateBlock requires of all of them), a       *)
(* process reaches no page of another one unless it was shared with it,    *)
(* nothing is left of a process that ended, and no process id is given     *)
(* twice.                                                                  *)
MemoryAccounted ==
  /\ os.fault = "none"
  /\ OwnersLive(os)
  /\ \A p \in Pid : /\ os.status[p] = "Running" => \A x \in os.map[p] \ os.shared[p] : os.owner[x] = Process(p)
                    /\ os.status[p] \in {"Stopping", "gone"} => DOMAIN os.table[p] = {} /\ os.threads[p] = <<>>
                    /\ os.status[p] = "Running" <=> p \in os.registered /\ os.threads[p] # <<>>

(* Threads that exist have slots of thread-local storage of their own, on  *)
(* pages of their process, also while only a handle is left of a thread.   *)
SlotsApart ==
  \A p \in Pid : os.status[p] = "Running" =>
    LET alive == {t \in DOMAIN os.slot[p] : Exists(os, Thread(p, t))}
    IN  /\ \A t, u \in alive : os.slot[p][t] = os.slot[p][u] => t = u
        /\ {os.slot[p][t] : t \in alive} = {i \in DOMAIN os.slots[p] : os.slots[p][i]}
        /\ Cardinality(Own(p)) * SlotsPerPage >= Len(os.slots[p])
=============================================================================
