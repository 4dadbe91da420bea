-------------------------------- MODULE Dsp --------------------------------
(***************************************************************************)
(* The audio service dsp::DSP and its pipes.  A pipe is a ring of bytes in *)
(* the memory of the signal processor with a cursor for each side; a       *)
(* cursor has a value and the parity of its iteration.  The service loads  *)
(* the pipe's header, works on its copy and stores the whole header back.  *)
(*                                                                         *)
(* The signal processor (Teakra) is external.  It runs between the calls   *)
(* of the service and inside the loops that wait for it, never within any  *)
(* other part of a call; it announces data with a word on channel 2 and    *)
(* then the semaphore, takes the words that the service sends it, and does *)
(* not write to a pipe before the first of them.                           *)
(***************************************************************************)
EXTENDS Integers, Sequences, FiniteSets

CONSTANTS PipeSize,   \* bytes of a pipe
          Lengths,    \* bytes a client reads or writes at a time
          MaxBytes,   \* bytes that are ever sent, in both directions
          MaxCalls    \* calls that are neither reads nor writes of a pipe
ASSUME DspAssumption == PipeSize \in Nat \ {0} /\ Lengths \subseteq Nat /\ MaxBytes \in Nat /\ MaxCalls \in Nat

VARIABLE dsp

-----------------------------------------------------------------------------
(* SubPipeInfo *)
Least(a, b) == IF a <= b THEN a ELSE b
Cursor(value, iteration) == [value |-> value, iteration |-> iteration]
SubPipeInfo(index) == [read |-> Cursor(0, 0), write |-> Cursor(0, 0), index |-> index]
IndexToARM11(pipe) == pipe * 2
IndexToDSP(pipe) == pipe * 2 + 1
SameIteration(p) == p.write.iteration = p.read.iteration
\* the exceptions "cursor overlaps" are the states in which this does not hold
CursorsValid(p) == IF SameIteration(p) THEN p.write.value >= p.read.value
                   ELSE p.write.value <= p.read.value /\ p.read.value - p.write.value <= PipeSize
CursorDistance(p) == p.write.value - p.read.value + (IF SameIteration(p) THEN 0 ELSE PipeSize)
GetWritableBytes(p) == PipeSize - CursorDistance(p)
GetWritableBytesUntilWrap(p) == PipeSize - p.write.value
GetReadableBytesUntilWrap(p) == Least(CursorDistance(p), PipeSize - p.read.value)
MoveCursorKeeping(c, n) == Cursor((c.value + n) % PipeSize, c.iteration)   \* forgets the iteration
MoveCursor(c, n) ==
  IF c.value + n >= PipeSize THEN Cursor(c.value + n - PipeSize, 1 - c.iteration) ELSE Cursor(c.value + n, c.iteration)
IsEmpty(p) == p.read = p.write
IsFull(p) == CursorDistance(p) = PipeSize

\* one turn of the loop of HandleWriteProcessPipe, which works on bytes, and of the one of
\* HandleReadPipeIfPossible; the service replaces the last two bytes of four by zero
WriteChunk(w, replace) ==
  LET n == Len(w.bytes)
      start == w.p.write.value
      chunk == Least(n, GetWritableBytesUntilWrap(w.p))
      stored == [a \in DOMAIN w.memory |->
                   IF a \in start .. start + chunk - 1
                   THEN IF replace /\ n = 4 /\ a - start >= 2 THEN 0 ELSE w.bytes[a - start + 1]
                   ELSE w.memory[a]]
  IN  IF ~w.ok \/ n = 0 THEN w
      ELSE IF IsFull(w.p) \/ n > GetWritableBytes(w.p) THEN [w EXCEPT !.ok = FALSE]
      ELSE [ok |-> TRUE, p |-> [w.p EXCEPT !.write = MoveCursor(@, chunk)], memory |-> stored, bytes |-> SubSeq(w.bytes, chunk + 1, n)]
ReadChunk(r, memory) ==
  LET chunk == Least(r.n, GetReadableBytesUntilWrap(r.p))
  IN  IF r.n = 0 THEN r
      ELSE [p |-> [r.p EXCEPT !.read = MoveCursor(@, chunk)], n |-> r.n - chunk,
            got |-> r.got \o [i \in 1 .. chunk |-> memory[r.p.read.value + i - 1]]]
\* there is at most one chunk up to the wrap and one after it
WriteChunks(p, memory, bytes, replace) ==
  WriteChunk(WriteChunk([ok |-> TRUE, p |-> p, memory |-> memory, bytes |-> bytes], replace), replace)
ReadChunks(p, memory, n) == ReadChunk(ReadChunk([p |-> p, n |-> n, got |-> <<>>], memory), memory)

-----------------------------------------------------------------------------
(* dsp.pipe, memory, cmd (the word for channel 2), reply (one word per     *)
(* channel) and stage belong to the signal processor.  call is the command *)
(* the service is at; sent, wrong and owed are for the properties: bytes   *)
(* under way per direction (the values each may have), a read that did not *)
(* return them, and an announcement that is not relayed yet.               *)
Side == {"toARM", "toDSP"}
FullWord(value) == [full |-> TRUE, value |-> value]
NoWord == [full |-> FALSE, value |-> 0]
NoCall == [c |-> "none", n |-> 0]
Stop(s) == [s EXCEPT !.stopped = TRUE]
DspRunning == ~dsp.stopped
Idle == DspRunning /\ dsp.call = NoCall
Serving == Idle /\ dsp.stage \in {"up", "data", "semaphore"} /\ dsp.loaded
\* NotifyInterrupt(0x4a): the event bound to the interrupt
NotifyInterrupt(s) == [s EXCEPT !.interrupt = TRUE]
RecvData(s, channel) == [s EXCEPT !.reply[channel].full = FALSE]
\* both parts of an announcement are there: take the word, and tell the service of the ARM's pipes
TakeSlot(s) ==
  LET slot == s.reply[2].value
      t == RecvData([s EXCEPT !.data_signaled = FALSE, !.semaphore_signaled = FALSE], 2)
  IN  IF slot % 2 # 0 THEN t ELSE IF slot \div 2 = 0 THEN Stop(t) ELSE NotifyInterrupt(t)
ProcessPipeEvent(s, event_from_data) ==
  IF ~s.handlers THEN s
  ELSE LET t == IF event_from_data THEN [s EXCEPT !.data_signaled = TRUE] ELSE [s EXCEPT !.semaphore_signaled = TRUE]
       IN  IF t.data_signaled /\ t.semaphore_signaled THEN TakeSlot(t) ELSE t

-----------------------------------------------------------------------------
(* Commands of the service.  A byte is the number of its turn, modulo 3.   *)
Fits(bytes, wanted) == Len(bytes) = Len(wanted) /\ \A i \in DOMAIN bytes : bytes[i] \in wanted[i]
NextBytes(count, n) == [i \in 1 .. n |-> 1 + ((count + i) % 3)]
Load(s, side) == s.pipe[side]
\* store the header and send its index to channel 2, whether the last word was taken or not
StoreHeader(s, side, p) == [s EXCEPT !.pipe[side] = p, !.cmd = FullWord(p.index)]
HandleWriteProcessPipe(n) ==
  /\ Serving /\ dsp.sentBytes["toARM"] + dsp.sentBytes["toDSP"] + n <= MaxBytes
  /\ LET bytes == NextBytes(dsp.sentBytes["toDSP"], n)
         done == WriteChunks(Load(dsp, "toDSP"), dsp.memory["toDSP"], bytes, TRUE)
         s == [dsp EXCEPT !.memory["toDSP"] = done.memory, !.sentBytes["toDSP"] = @ + n,
                          !.sent["toDSP"] = @ \o [i \in 1 .. n |-> {bytes[i]} \cup (IF n >= 4 THEN {0} ELSE {})]]
     IN  dsp' = IF done.ok THEN StoreHeader(s, "toDSP", done.p) ELSE Stop(dsp)
\* the pipe is loaded again whenever the signal processor has run, so that the last copy counts
HandleReadPipeIfPossible(n) ==
  /\ Serving
  /\ dsp' = [dsp EXCEPT !.call = [c |-> "read", n |-> n]]
ReadPipeRest ==
  /\ DspRunning /\ dsp.call.c = "read"
  /\ LET p == Load(dsp, "toARM")
         n == dsp.call.n
         done == ReadChunks(p, dsp.memory["toARM"], n)
         read == [dsp EXCEPT !.call = NoCall, !.wrong = ~Fits(done.got, SubSeq(dsp.sent["toARM"], 1, n)),
                             !.sent["toARM"] = SubSeq(@, n + 1, Len(@))]
     IN  /\ ~IsEmpty(p) /\ CursorDistance(p) >= n
         /\ dsp' = IF n > 0 THEN StoreHeader(read, "toARM", done.p) ELSE read
\* releasing the reset makes a new Teakra with the old memory; the service's handlers are gone with the
\* old one, what they have noted stays
Reset(s) ==
  [s EXCEPT !.stage = "reset", !.handlers = FALSE, !.started = FALSE, !.loaded = FALSE,
            !.pipe = [x \in Side |-> SubPipeInfo(IF x = "toARM" THEN IndexToARM11(2) ELSE IndexToDSP(2))],
            !.memory = [x \in Side |-> [a \in 0 .. PipeSize - 1 |-> 0]], !.cmd = NoWord, !.reply = [channel \in 0 .. 2 |-> NoWord],
            !.sent = [x \in Side |-> <<>>], !.owed = FALSE]
\* masks, sizes, the magic word and the flag to wait are checked before anything is changed
HandleLoadComponent(valid) ==
  /\ Idle /\ dsp.calls < MaxCalls
  /\ dsp' = IF valid THEN [Reset(dsp) EXCEPT !.call = [NoCall EXCEPT !.c = "load"], !.calls = @ + 1] ELSE Stop(dsp)
\* channels 0, 1 and 2 reply with 1; the next word on channel 2 is where the pipes are
AwaitChannel ==
  /\ DspRunning /\ dsp.call.c = "load" /\ dsp.call.n < 3 /\ dsp.reply[dsp.call.n].full
  /\ dsp' = IF dsp.reply[dsp.call.n].value = 1 THEN [RecvData(dsp, dsp.call.n) EXCEPT !.call.n = @ + 1] ELSE Stop(dsp)
AwaitPipes ==
  /\ DspRunning /\ dsp.call.c = "load" /\ dsp.call.n = 3 /\ dsp.reply[2].full
  /\ dsp' = [RecvData(dsp, 2) EXCEPT !.call.n = 4]
\* reading that word lets the signal processor run before the handlers are installed
InstallHandlers ==
  /\ DspRunning /\ dsp.call.c = "load" /\ dsp.call.n = 4
  /\ dsp' = [dsp EXCEPT !.call = NoCall, !.handlers = TRUE, !.loaded = TRUE]
UnloadComponent ==
  /\ Serving /\ dsp.calls < MaxCalls
  /\ dsp' = IF dsp.cmd.full THEN Stop(dsp)
            ELSE [dsp EXCEPT !.mask = {"bit16"}, !.cmd = FullWord(0), !.call = [NoCall EXCEPT !.c = "unload"], !.calls = @ + 1]
\* any word on channel 2 is taken for the answer
UnloadRest ==
  /\ DspRunning /\ dsp.call.c = "unload" /\ dsp.reply[2].full
  /\ dsp' = [RecvData(dsp, 2) EXCEPT !.call = NoCall, !.loaded = FALSE, !.owed = FALSE]
RegisterInterruptEvents(register) ==
  /\ Idle /\ dsp.calls < MaxCalls
  /\ dsp' = IF register /\ dsp.channel_event # "none" THEN Stop(dsp)
            ELSE [dsp EXCEPT !.channel_event = IF register THEN "clear" ELSE "none", !.calls = @ + 1]
SetSemaphoreMask == Idle /\ dsp.calls < MaxCalls /\ dsp' = [dsp EXCEPT !.mask = {"some"}, !.calls = @ + 1]
\* SetSemaphore writes a value of the client's, the semaphore event the mask
SetSemaphore == Serving /\ dsp.calls < MaxCalls /\ dsp' = [dsp EXCEPT !.semaphore = {"some"}, !.calls = @ + 1]
SemaphoreEvent == Serving /\ dsp.calls < MaxCalls /\ dsp' = [dsp EXCEPT !.semaphore = dsp.mask, !.calls = @ + 1]
HandleRecvData == Serving /\ dsp' = IF dsp.reply[0].full THEN RecvData(dsp, 0) ELSE Stop(dsp)
\* the service's thread wakes up with the interrupt's event; nobody is told if nobody has registered
InterruptEvent ==
  /\ Idle /\ dsp.interrupt
  /\ dsp' = [dsp EXCEPT !.interrupt = FALSE, !.owed = FALSE, !.channel_event = IF @ = "none" THEN @ ELSE "set"]
ClientWakes == DspRunning /\ dsp.channel_event = "set" /\ dsp' = [dsp EXCEPT !.channel_event = "clear"]

-----------------------------------------------------------------------------
(* The signal processor *)
Send(s, channel, value) ==
  LET t == [s EXCEPT !.reply[channel] = FullWord(value)] IN IF channel = 2 THEN ProcessPipeEvent(t, TRUE) ELSE t
DspBoots ==
  /\ DspRunning
  /\ \/ dsp.stage = "reset" /\ dsp' = [Send(dsp, 0, 1) EXCEPT !.stage = "boot1"]
     \/ dsp.stage = "boot1" /\ dsp' = [Send(dsp, 1, 1) EXCEPT !.stage = "boot2"]
     \/ dsp.stage = "boot2" /\ dsp' = [Send(dsp, 2, 1) EXCEPT !.stage = "boot3"]
     \/ dsp.stage = "boot3" /\ ~dsp.reply[2].full /\ dsp' = [Send(dsp, 2, 6) EXCEPT !.stage = "up"]
DspWrites ==
  /\ DspRunning /\ dsp.stage = "up" /\ dsp.started
  /\ \E n \in Lengths :
       LET bytes == NextBytes(dsp.sentBytes["toARM"], n)
           done == WriteChunks(dsp.pipe["toARM"], dsp.memory["toARM"], bytes, FALSE)
       IN  /\ dsp.sentBytes["toARM"] + dsp.sentBytes["toDSP"] + n <= MaxBytes /\ done.ok
           /\ dsp' = [dsp EXCEPT !.pipe["toARM"] = done.p, !.memory["toARM"] = done.memory, !.sentBytes["toARM"] = @ + n,
                                 !.sent["toARM"] = @ \o [i \in 1 .. n |-> {bytes[i]}], !.stage = "data"]
DspAnnounces ==
  /\ DspRunning
  /\ \/ dsp.stage = "data" /\ ~dsp.reply[2].full /\ dsp' = [Send(dsp, 2, dsp.pipe["toARM"].index) EXCEPT !.stage = "semaphore"]
     \/ dsp.stage = "semaphore" /\ dsp' = [ProcessPipeEvent(dsp, FALSE) EXCEPT !.stage = "up", !.owed = dsp.loaded]
DspTakes ==
  /\ DspRunning /\ dsp.stage = "up" /\ dsp.cmd.full
  /\ IF dsp.cmd.value = 0 THEN ~dsp.reply[2].full /\ dsp' = [Send(dsp, 2, 0) EXCEPT !.cmd = NoWord, !.stage = "off"]
     ELSE LET p == dsp.pipe["toDSP"]
              n == CursorDistance(p)
              done == ReadChunks(p, dsp.memory["toDSP"], n)
          IN  dsp' = IF dsp.cmd.value = IndexToARM11(2) \/ n = 0 THEN [dsp EXCEPT !.cmd = NoWord, !.started = TRUE]
                     ELSE [dsp EXCEPT !.cmd = NoWord, !.started = TRUE, !.pipe["toDSP"] = done.p, !.sent["toDSP"] = <<>>,
                                      !.wrong = ~Fits(done.got, dsp.sent["toDSP"])]

DspInit == dsp = [Reset([stage |-> "", pipe |-> <<>>, memory |-> <<>>, cmd |-> NoWord, reply |-> <<>>, sent |-> <<>>, owed |-> FALSE,
                         sentBytes |-> [x \in Side |-> 0], call |-> NoCall, calls |-> 0, handlers |-> FALSE, loaded |-> FALSE, started |-> FALSE,
                         data_signaled |-> FALSE, semaphore_signaled |-> FALSE, interrupt |-> FALSE, channel_event |-> "none",
                         mask |-> {}, semaphore |-> {}, wrong |-> FALSE, stopped |-> FALSE])
                  EXCEPT !.stage = "off"]
DspNext == \/ \E n \in Lengths : HandleWriteProcessPipe(n)
           \/ \E n \in Lengths \cup {0} : HandleReadPipeIfPossible(n)
           \/ \E valid \in BOOLEAN : HandleLoadComponent(valid)
           \/ \E register \in BOOLEAN : RegisterInterruptEvents(register)
           \/ ReadPipeRest \/ AwaitChannel \/ AwaitPipes \/ InstallHandlers \/ UnloadComponent \/ UnloadRest
           \/ SetSemaphoreMask \/ SetSemaphore \/ SemaphoreEvent \/ HandleRecvData \/ InterruptEvent \/ ClientWakes
           \/ DspBoots \/ DspWrites \/ DspAnnounces \/ DspTakes
DspSpec == DspInit /\ [][DspNext]_dsp

-----------------------------------------------------------------------------
Byte == 0 .. 3
Pipe == [read : [value : 0 .. PipeSize - 1, iteration : {0, 1}], write : [value : 0 .. PipeSize - 1, iteration : {0, 1}], index : {4, 5}]
WordType == [full : BOOLEAN, value : Nat]
DspState == [stage : {"off", "reset", "boot1", "boot2", "boot3", "up", "data", "semaphore"},
             pipe : [Side -> Pipe], memory : [Side -> [0 .. PipeSize - 1 -> Byte]], cmd : WordType, reply : [0 .. 2 -> WordType],
             sent : [Side -> Seq(SUBSET Byte)], owed : BOOLEAN, sentBytes : [Side -> Nat],
             call : [c : {"none", "read", "load", "unload"}, n : Nat], calls : Nat, handlers : BOOLEAN, loaded : BOOLEAN,
             started : BOOLEAN, data_signaled : BOOLEAN, semaphore_signaled : BOOLEAN, interrupt : BOOLEAN,
             channel_event : {"none", "clear", "set"}, mask : SUBSET {"bit16", "some"}, semaphore : SUBSET {"bit16", "some"},
             wrong : BOOLEAN, stopped : BOOLEAN]
DspTypeOK == dsp \in DspState

(* A pipe is a queue: through every wrap, and although the service stores  *)
(* both cursors back, the bytes between the cursors are the ones written   *)
(* and not yet read, and a read returns them in order.                     *)
PipesAreQueues ==
  /\ ~dsp.wrong
  /\ \A side \in Side :
       LET p == dsp.pipe[side] IN
       /\ CursorsValid(p)
       /\ Fits(ReadChunks(p, dsp.memory[side], CursorDistance(p)).got, dsp.sent[side])

(* An announcement by the signal processor is relayed to the client who    *)
(* has registered for it: until then the interrupt stays signalled.        *)
AnnouncementsRelayed == dsp.owed /\ ~dsp.stopped => dsp.interrupt

(* The pipes and the announcements are right at any time, also if the      *)
(* component is unloaded and loaded again in between (FakeDSP).            *)
PipesServed == PipesAreQueues /\ AnnouncementsRelayed

-----------------------------------------------------------------------------
(* Why: between the cursors lies what was sent, and both halves of an      *)
(* announcement are noted by the same handlers, the word always first.     *)
Place(p, i) == IF p.read.value + i <= PipeSize THEN p.read.value + i - 1 ELSE p.read.value + i - 1 - PipeSize
Holds(p, memory, sent) ==
  /\ CursorsValid(p) /\ Len(sent) = CursorDistance(p)
  /\ \A i \in 1 .. Len(sent) : memory[Place(p, i)] \in sent[i]
PipesHold == \A side \in Side : Holds(dsp.pipe[side], dsp.memory[side], dsp.sent[side])
WordFirst ==
  /\ dsp.loaded \/ dsp.started \/ dsp.cmd.full \/ dsp.call.c = "read" \/ dsp.stage \in {"data", "semaphore"} => dsp.handlers
  /\ ~dsp.semaphore_signaled
  /\ dsp.stage = "semaphore" => dsp.data_signaled /\ dsp.reply[2].value = 4
  /\ dsp.pipe["toARM"].index = 4
DspInv == DspTypeOK /\ PipesHold /\ WordFirst /\ ~dsp.wrong /\ AnnouncementsRelayed
=============================================================================
