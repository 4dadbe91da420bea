------------------------------ MODULE Messages ------------------------------
(***************************************************************************)
(* One IPC command from a client to a server and back: the arguments are   *)
(* written to the command buffer of the client (IPCMessageWriter), the     *)
(* kernel translates the buffer into that of the server                    *)
(* (TranslateIPCMessage), the server reads its arguments                   *)
(* (DispatchIPCMessage) and the reply takes the same way back.             *)
(*                                                                         *)
(* Command buffers hold words; descriptors and headers are the bit fields  *)
(* of the code.  Memory is addressed in bytes, with small pages.  The byte *)
(* of the client at a physical address is the address itself.  A client    *)
(* has its memory in ranges, whose physical pages need not be adjacent.    *)
(* An exception stops the emulator: fault.                                 *)
(***************************************************************************)
EXTENDS Integers, Sequences, FiniteSets, SequencesExt, FiniteSetsExt, Functions, Bitwise

CONSTANTS PageSize,   \* bytes in a page (0x1000)
          WordBase,   \* one more than the largest word that 64-bit values are split into (2^32)
          Buffer,     \* words of a command buffer (0x40)
          Ranges,     \* mappings of the client: functions from the first byte to [start, size]
          Commands,   \* records [id, request, response]: sequences of tags
          Buffers     \* addresses and sizes of buffers that the client passes

VARIABLE msg
vars == <<msg>>

Client == "client"
Server == "server"
Other(who) == IF who = Client THEN Server ELSE Client
Pid(who) == IF who = Client THEN 7 ELSE 8
\* where the static buffer of an id is in a process, by virtual and by physical address
StaticAddr(id) == 500 + 20 * id
StaticSize == 16
Physical(addr) == addr + 300
\* where FindAvailableVirtualMemory starts for a mapped buffer
MapStart == 100 * PageSize

-----------------------------------------------------------------------------
(* Bit fields of headers and descriptors. *)
Bits(raw, pos, len) == (raw \div 2^pos) % 2^len
MakeHeader(id, normal, translate) == id * 2^16 + (normal % 2^6) * 2^6 + (translate % 2^6)
Handles == 0
StaticBuffer == 1
PXIBuffer == 2
PXIConstBuffer == 3
MapReadOnly == 5
MapWriteOnly == 6
MapReadWrite == 7
MakeHandles(n, close) == Handles * 2 + (n - 1) * 2^26 + (IF close THEN 2^4 ELSE 0)
MakeProcessHandle == Handles * 2 + 2^5
MakeStaticBuffer(id, n) == StaticBuffer * 2 + (id % 2^4) * 2^10 + n * 2^14
MakePXIBuffer(type, id, n) == type * 2 + (id % 2^4) * 2^4 + n * 2^8
MapBuffer(n, type) == type * 2 + (n % 2^27) * 2^4
TypeOf(raw) == Bits(raw, 1, 3)

(* Tags: [t |-> "u32"], "u64", "result", "pid", [t |-> "serialized", parts |-> tags],
   [t |-> "handle", n |-> count, close |-> BOOLEAN], [t |-> "static", id |-> id],
   [t |-> "pxi", type |-> type, id |-> id], [t |-> "map", type |-> type]. *)
Normal == {"u32", "u64", "result", "serialized"}
PartSize(part) == IF part = "u64" THEN 2 ELSE 1
TagSize(tag) == CASE tag.t \in {"u32", "result"} -> 1
                  [] tag.t = "serialized" -> FoldLeft(LAMBDA n, part : n + PartSize(part), 0, tag.parts)
                  [] tag.t = "handle" -> 1 + tag.n
                  [] OTHER -> 2
SizeOf(tags, normal) == FoldLeft(LAMBDA n, tag : IF (tag.t \in Normal) = normal THEN n + TagSize(tag) ELSE n, 0, tags)
\* the builder of a command takes its normal parameters before the others
InOrder(tags) == \A i, j \in DOMAIN tags : i < j /\ tags[j].t \in Normal => tags[i].t \in Normal
HeaderOf(command, tags) == MakeHeader(command.id, SizeOf(tags, TRUE), SizeOf(tags, FALSE))

-----------------------------------------------------------------------------
(* TLSWriter and TLSReader: one operator per kind of tag. *)
Split(value) == <<value % WordBase, value \div WordBase>>
WriteNormal(part, value) == IF part = "u64" THEN Split(value) ELSE <<value>>
WriteSerialized(tag, value) ==
  FoldLeft(LAMBDA words, i : words \o WriteNormal(tag.parts[i], value[i]), <<>>, [i \in 1 .. Len(tag.parts) |-> i])
WriteHandleDescriptor(tag, value) == <<MakeHandles(tag.n, tag.close)>> \o value
WriteProcessId == <<MakeProcessHandle, 0>>
WriteStaticBuffer(value) == <<MakeStaticBuffer(value.id, value.size), value.addr>>
WritePXIBuffer(tag, value) == <<MakePXIBuffer(tag.type, value.id, value.size), value.addr>>
WriteMapBuffer(tag, value) == <<MapBuffer(value.size, tag.type), value.addr>>
WriteTag(tag, value) ==
  CASE tag.t = "serialized" -> WriteSerialized(tag, value)
    [] tag.t = "handle" -> WriteHandleDescriptor(tag, value)
    [] tag.t = "pid" -> WriteProcessId
    [] tag.t = "static" -> WriteStaticBuffer(value)
    [] tag.t = "pxi" -> WritePXIBuffer(tag, value)
    [] tag.t = "map" -> WriteMapBuffer(tag, value)
    [] OTHER -> WriteNormal(tag.t, value)
\* the words after the message keep what they had
Message(tls, command, tags, values) ==
  LET words == FoldLeft(LAMBDA sofar, i : sofar \o WriteTag(tags[i], values[i]), <<HeaderOf(command, tags)>>,
                        [i \in 1 .. Len(tags) |-> i])
  IN  [i \in 1 .. Buffer |-> IF i <= Len(words) THEN words[i] ELSE tls[i]]

ReadNormal(part, tls, at) == IF part = "u64" THEN tls[at + 1] * WordBase + tls[at] ELSE tls[at]
ReadSerialized(tag, tls, at) ==
  [i \in 1 .. Len(tag.parts) |->
     ReadNormal(tag.parts[i], tls, at + FoldLeft(LAMBDA n, part : n + PartSize(part), 0, SubSeq(tag.parts, 1, i - 1)))]
ReadHandles(tag, tls, at) == [i \in 1 .. tag.n |-> tls[at + i]]
ReadBuffer(tls, at) == [addr |-> tls[at + 1], size |-> Bits(tls[at], 14, 18), id |-> Bits(tls[at], 10, 4)]
ReadMapBuffer(tls, at) == [addr |-> tls[at + 1], size |-> Bits(tls[at], 4, 27)]
ReadTag(tag, tls, at) ==
  CASE tag.t = "serialized" -> ReadSerialized(tag, tls, at)
    [] tag.t = "handle" -> ReadHandles(tag, tls, at)
    [] tag.t = "pid" -> tls[at + 1]
    [] tag.t \in {"static", "pxi"} -> ReadBuffer(tls, at)
    [] tag.t = "map" -> ReadMapBuffer(tls, at)
    [] OTHER -> ReadNormal(tag.t, tls, at)
ReadTags(tags, tls) ==
  [i \in 1 .. Len(tags) |-> ReadTag(tags[i], tls, 2 + FoldLeft(LAMBDA n, tag : n + TagSize(tag), 0, SubSeq(tags, 1, i - 1)))]

-----------------------------------------------------------------------------
(* Memory: the client's by its ranges, the server's by pages. *)
ResolveVirtualAddrWithSize(addr) ==
  LET below == {v \in DOMAIN msg.ranges : v <= addr}
      v == Max(below)
  IN  IF below = {} \/ v + msg.ranges[v].size <= addr THEN <<>>
      ELSE <<[addr |-> msg.ranges[v].start + (addr - v), size |-> msg.ranges[v].size - (addr - v)]>>
PageOf(addr) == addr \div PageSize
Mapped(addr) == PageOf(addr) \in DOMAIN msg.pages
ServerByte(addr) == msg.pages[PageOf(addr)] * PageSize + (addr % PageSize)
FindAvailableVirtualMemory(n) ==
  Min({p \in PageOf(MapStart) .. PageOf(MapStart) + n * (Cardinality(DOMAIN msg.pages) + 1) :
         \A i \in 0 .. n - 1 : p + i \notin DOMAIN msg.pages})
MinOf(a, b) == IF a < b THEN a ELSE b

-----------------------------------------------------------------------------
(* Init, and SendIPCRequest up to the system call. *)
Objects(who) == IF who = Client THEN {"c1", "c2"} ELSE {"s1", "s2"}
FirstTable(who) == IF who = Client THEN [h \in {1, 2} |-> <<"c1", "c2">>[h]] ELSE [h \in {11, 12} |-> <<"s1", "s2">>[h - 10]]
Numbers == {5, WordBase - 1}
Values(tag, tables, buffers) ==
  CASE tag.t \in {"u32", "result"} -> Numbers
    [] tag.t = "u64" -> {3 * WordBase + 1}
    [] tag.t = "serialized" -> {[i \in 1 .. Len(tag.parts) |-> IF tag.parts[i] = "u64" THEN 2 * WordBase + i ELSE i]}
    [] tag.t = "handle" -> {hs \in [1 .. tag.n -> DOMAIN tables \cup {0}] : \A i, j \in 1 .. tag.n : hs[i] = hs[j] => i = j}
    [] tag.t = "pid" -> {0}
    [] tag.t \in {"static", "pxi"} -> {[addr |-> b.addr, size |-> b.size, id |-> tag.id] : b \in buffers}
    [] tag.t = "map" -> {[addr |-> b.addr, size |-> b.size] : b \in buffers}
SetOfValues(tags, tables, buffers) ==
  FoldLeft(LAMBDA sofar, tag : {Append(v, x) : v \in sofar, x \in Values(tag, tables, buffers)}, {<<>>}, tags)
Blank == [i \in 1 .. Buffer |-> 9]

Init ==
  \E command \in {c \in Commands : InOrder(c.request) /\ InOrder(c.response)}, ranges \in Ranges :
    \E args \in SetOfValues(command.request, FirstTable(Client), Buffers) :
      msg = [stage |-> "request", command |-> command, ranges |-> ranges, args |-> args, results |-> <<>>,
             source |-> Client, at |-> 0, used |-> {}, fault |-> FALSE,
             tls |-> [who \in {Client, Server} |-> IF who = Client THEN Message(Blank, command, command.request, args) ELSE Blank],
             table |-> [who \in {Client, Server} |-> FirstTable(who)], cur |-> [who \in {Client, Server} |-> 20],
             pages |-> [p \in {PageOf(MapStart) + 1} |-> 90], static |-> [who \in {Client, Server} |-> <<>>],
             chunks |-> <<>>, got |-> <<>>, returned |-> <<>>]

(* TranslateIPCMessage: the header and the normal parameters, then one     *)
(* descriptor per step.                                                    *)
Header == msg.tls[msg.source][1]
NumNormal == Bits(Header, 6, 6)
CommandEnd == 1 + NumNormal + Bits(Header, 0, 6)
IsReply == msg.source = Server
TranslateHeader ==
  /\ msg.stage \in {"request", "reply"} /\ msg.at = 0
  /\ msg' = [msg EXCEPT !.at = NumNormal + 2, !.used = {}, !.static[Other(msg.source)] = <<>>,
                        !.tls[Other(msg.source)] =
                          [i \in 1 .. Buffer |-> IF i <= NumNormal + 1 THEN msg.tls[msg.source][i] ELSE 0]]

Descriptor == msg.tls[msg.source][msg.at]
Param == msg.tls[msg.source][msg.at + 1]
Translates(types) == /\ msg.stage \in {"request", "reply"} /\ msg.at > 0 /\ msg.at <= CommandEnd /\ ~msg.fault
                     /\ TypeOf(Descriptor) \in types
\* the words of one descriptor in the buffer of the destination
Put(words) == [i \in 1 .. Buffer |-> IF i \in msg.at .. msg.at + Len(words) - 1 THEN words[i - msg.at + 1]
                                     ELSE msg.tls[Other(msg.source)][i]]
Throw == msg' = [msg EXCEPT !.fault = TRUE]

\* one handle of a descriptor; SVCCloseHandle takes it from the source
TranslateHandle(m, handle, close) ==
  LET dest == Other(msg.source)
      new == m.cur[dest] + 1
      opened == [m EXCEPT !.cur[dest] = new, !.table[dest] = [h \in DOMAIN @ \cup {new} |-> IF h = new THEN m.table[msg.source][handle] ELSE @[h]],
                          !.words = Append(@, new)]
  IN  IF handle = 0 THEN [m EXCEPT !.words = Append(@, 0)]
      ELSE IF handle \notin DOMAIN m.table[msg.source] THEN [m EXCEPT !.fault = TRUE]
      ELSE IF close THEN [opened EXCEPT !.table[msg.source] = Restrict(@, DOMAIN @ \ {handle})]
      ELSE opened
TranslateHandles ==
  /\ Translates({Handles})
  /\ LET n == Bits(Descriptor, 26, 6) + 1
         close == Bits(Descriptor, 4, 1) = 1
         fill == Bits(Descriptor, 5, 1) = 1
         start == [table |-> msg.table, cur |-> msg.cur, words |-> <<Descriptor>>, fault |-> close /\ fill]
         m == IF fill THEN [start EXCEPT !.words = <<Descriptor>> \o [i \in 1 .. n |-> Pid(msg.source)]]
              ELSE FoldLeft(LAMBDA sofar, i : TranslateHandle(sofar, msg.tls[msg.source][msg.at + i], close), start, [i \in 1 .. n |-> i])
     IN  msg' = [msg EXCEPT !.table = m.table, !.cur = m.cur, !.fault = m.fault, !.at = @ + 1 + n,
                            !.tls[Other(msg.source)] = Put(m.words)]

\* what a byte of the source is: the client's by its ranges, the server's by its pages
Readable(addr) == IF msg.source = Client THEN ResolveVirtualAddrWithSize(addr) # <<>> ELSE Mapped(addr)
SourceByte(addr) == IF msg.source = Client THEN ResolveVirtualAddrWithSize(addr)[1].addr ELSE ServerByte(addr)
TranslateStaticBuffer ==
  /\ Translates({StaticBuffer})
  /\ LET id == Bits(Descriptor, 10, 4)
         size == Bits(Descriptor, 14, 18)
         dest == Other(msg.source)
     IN  IF id \in msg.used \/ size > StaticSize \/ \E i \in 0 .. size - 1 : ~Readable(Param + i) THEN Throw
         ELSE msg' = [msg EXCEPT !.used = @ \cup {id}, !.at = @ + 2,
                                 !.static[dest] = Append(@, [id |-> id, bytes |-> [i \in 1 .. size |-> SourceByte(Param + i - 1)]]),
                                 !.tls[dest] = Put(<<Descriptor, StaticAddr(id)>>)]

\* the table of a buffer across several ranges has one entry per virtual page
PXIEntryWhole(addr, size) == [addr |-> ResolveVirtualAddrWithSize(addr)[1].addr, size |-> MinOf(size, PageSize)]
PXIEntry(addr, size) == [addr |-> ResolveVirtualAddrWithSize(addr)[1].addr,
                         size |-> MinOf(size, (PageOf(addr) + 1) * PageSize - addr)]
PXITable(addr, size) ==
  LET base == ResolveVirtualAddrWithSize(addr)
      pages == PageOf(addr) .. PageOf(addr + size - 1)
      starts == [i \in 1 .. Cardinality(pages) |-> IF i = 1 THEN addr ELSE (PageOf(addr) + i - 1) * PageSize]
  IN  IF size = 0 THEN <<[addr |-> IF base = <<>> THEN 0 ELSE base[1].addr, size |-> 0]>>
      ELSE IF base[1].size >= size THEN <<[addr |-> base[1].addr, size |-> size]>>
      ELSE [i \in DOMAIN starts |-> PXIEntry(starts[i], size - (starts[i] - addr))]
TranslatePXIBuffer ==
  /\ Translates({PXIBuffer, PXIConstBuffer}) /\ msg.source = Client
  /\ LET id == Bits(Descriptor, 4, 4)
         size == Bits(Descriptor, 8, 24)
         table == PXITable(Param, size)
     IN  IF id \in msg.used \/ (size > 0 /\ \E i \in Param .. Param + size - 1 : ResolveVirtualAddrWithSize(i) = <<>>) THEN Throw
         ELSE msg' = [msg EXCEPT !.used = @ \cup {id}, !.at = @ + 2, !.chunks = Append(@, [id |-> id, table |-> table]),
                                 !.tls[Server] = Put(<<MakeStaticBuffer(id, 8 * Len(table)), Physical(StaticAddr(id))>>)]

\* the pages that a mapped buffer touches
MappedSize(addr, size) == PageOf(addr + size + PageSize - 1) - PageOf(addr)
TranslateMapBuffer ==
  /\ Translates({MapReadOnly, MapWriteOnly, MapReadWrite}) /\ ~IsReply
  /\ LET size == Bits(Descriptor, 4, 27)
         n == MappedSize(Param, size)
         first == FindAvailableVirtualMemory(n)
         source(i) == ResolveVirtualAddrWithSize((PageOf(Param) + i) * PageSize)
     IN  IF size = 0 THEN msg' = [msg EXCEPT !.at = @ + 2, !.tls[Server] = Put(<<Descriptor>>)]
         ELSE IF \E i \in 0 .. n - 1 : source(i) = <<>> THEN Throw
         ELSE msg' = [msg EXCEPT !.at = @ + 2,
                        !.pages = [p \in DOMAIN @ \cup first .. first + n - 1 |->
                                     IF p \in first .. first + n - 1 THEN PageOf(source(p - first)[1].addr) ELSE @[p]],
                        !.tls[Server] = Put(<<Descriptor, first * PageSize + (Param % PageSize)>>)]
TranslateUnmapBuffer ==
  /\ Translates({MapReadOnly, MapWriteOnly, MapReadWrite}) /\ IsReply
  /\ LET size == Bits(Descriptor, 4, 27)
         gone == PageOf(Param) .. PageOf(Param) + MappedSize(Param, size) - 1
     IN  IF size = 0 THEN msg' = [msg EXCEPT !.at = @ + 2, !.tls[Client] = Put(<<Descriptor>>)]
         ELSE IF ~(gone \subseteq DOMAIN msg.pages) THEN Throw
         ELSE msg' = [msg EXCEPT !.at = @ + 2, !.pages = Restrict(@, DOMAIN @ \ gone), !.tls[Client] = Put(<<Descriptor, 0>>)]

-----------------------------------------------------------------------------
(* HandleIPCCommand: the server reads its arguments and writes the reply,  *)
(* in which it gives back the buffers it has got in their order; or the    *)
(* handler fails and only an error code goes back.                         *)
Translated == msg.at > 0 /\ msg.at > CommandEnd /\ ~msg.fault
DispatchIPCMessage ==
  /\ msg.stage = "request" /\ Translated
  /\ msg.tls[Server][1] = HeaderOf(msg.command, msg.command.request)
  /\ msg' = [msg EXCEPT !.stage = "handler", !.got = ReadTags(msg.command.request, msg.tls[Server])]
MapTags(tags) == SelectSeq([i \in 1 .. Len(tags) |-> i], LAMBDA i : tags[i].t = "map")
ResultValues(tags) ==
  LET back == MapTags(msg.command.request)
      maps == MapTags(tags)
      index(i) == CHOOSE k \in DOMAIN maps : maps[k] = i
      values(i) == IF tags[i].t = "map" THEN {msg.got[back[index(i)]]}
                   ELSE IF tags[i].t = "result" THEN {0}
                   ELSE Values(tags[i], FirstTable(Server), {[addr |-> (PageOf(MapStart) + 1) * PageSize + 1, size |-> 2]})
  IN  FoldLeft(LAMBDA sofar, i : {Append(v, x) : v \in sofar, x \in values(i)}, {<<>>}, [i \in 1 .. Len(tags) |-> i])
WriteIPCReplyFromTuple ==
  /\ msg.stage = "handler"
  /\ \E results \in ResultValues(msg.command.response) :
       msg' = [msg EXCEPT !.stage = "reply", !.source = Server, !.at = 0, !.results = results,
                          !.tls[Server] = Message(@, msg.command, msg.command.response, results)]
HandlerFails ==
  /\ msg.stage = "handler"
  /\ msg' = [msg EXCEPT !.stage = "reply", !.source = Server, !.at = 0, !.results = <<1>>,
                        !.tls[Server] = Message(@, [id |-> 0], <<[t |-> "result"]>>, <<1>>)]
\* the end of SendIPCRequest: IPCError, or the results without the code
SendIPCRequestReturns ==
  /\ msg.stage = "reply" /\ Translated
  /\ LET code == msg.tls[Client][2]
     IN  msg' = [msg EXCEPT !.stage = IF code = 0 THEN "done" ELSE "error",
                            !.returned = IF code = 0 THEN ReadTags(msg.command.response, msg.tls[Client]) ELSE <<code>>]

Next == \/ TranslateHeader \/ TranslateHandles \/ TranslateStaticBuffer \/ TranslatePXIBuffer
        \/ TranslateMapBuffer \/ TranslateUnmapBuffer
        \/ DispatchIPCMessage \/ WriteIPCReplyFromTuple \/ HandlerFails \/ SendIPCRequestReturns
Spec == Init /\ [][Next]_vars

-----------------------------------------------------------------------------
(* PXIBuffer::LookupAddress on the table of a buffer. *)
LookupChunkSize(table) == table[IF Len(table) = 1 THEN 1 ELSE 2].size
LookupAddress(table, offset) ==
  LET rest == offset - table[1].size
      chunk == table[2 + (rest \div LookupChunkSize(table))]
  IN  IF offset < table[1].size THEN table[1].addr + offset ELSE chunk.addr + (rest & (LookupChunkSize(table) - 1))
\* the mask takes the size of the second chunk, which is the last one of two, for a power of two
Maskable(table) == Len(table) # 2 \/ \E k \in 0 .. 8 : table[2].size = 2^k

\* what an argument stands for: an object, a number, or the bytes of a buffer
ChunksOf(id) == LET i == CHOOSE k \in DOMAIN msg.chunks : msg.chunks[k].id = id IN msg.chunks[i].table
BytesOf(who, id) == LET i == CHOOSE k \in DOMAIN msg.static[who] : msg.static[who][k].id = id IN msg.static[who][i].bytes
ClientBytes(b) == [i \in 1 .. b.size |-> ResolveVirtualAddrWithSize(b.addr + i - 1)[1].addr]
SameArgument(tag, sent, got) ==
  CASE tag.t = "handle" -> \A i \in 1 .. tag.n :
                             IF sent[i] = 0 THEN got[i] = 0
                             ELSE got[i] \in DOMAIN msg.table[Server] /\ msg.table[Server][got[i]] = FirstTable(Client)[sent[i]]
    [] tag.t = "pid" -> got = Pid(Client)
    [] tag.t = "static" -> got.size = sent.size /\ got.addr = StaticAddr(tag.id) /\ BytesOf(Server, tag.id) = ClientBytes(sent)
    [] tag.t = "pxi" -> Maskable(ChunksOf(tag.id)) => \A i \in 1 .. sent.size : LookupAddress(ChunksOf(tag.id), i - 1) = ClientBytes(sent)[i]
    [] tag.t = "map" -> got.size = sent.size /\ \A i \in 1 .. sent.size : Mapped(got.addr + i - 1) /\ ServerByte(got.addr + i - 1) = ClientBytes(sent)[i]
    [] OTHER -> got = sent
SameResult(tag, sent, returned) ==
  CASE tag.t = "handle" -> \A i \in 1 .. tag.n :
                             IF sent[i] = 0 THEN returned[i] = 0
                             ELSE returned[i] \in DOMAIN msg.table[Client] /\ msg.table[Client][returned[i]] = FirstTable(Server)[sent[i]]
    [] tag.t = "static" -> BytesOf(Client, tag.id) = [i \in 1 .. sent.size |-> 90 * PageSize + i]
    [] tag.t = "map" -> TRUE
    [] tag.t = "pid" -> returned = Pid(Server)
    [] OTHER -> returned = sent

(* A server reads the arguments that the client passed and the client the  *)
(* results of the server: numbers arrive as they are, a handle names the   *)
(* same object, a buffer the same bytes, over every page boundary and over *)
(* ranges that are not adjacent (TLSWriter, TranslateIPCMessage,           *)
(* TLSReader, PXIBuffer::LookupAddress).                                   *)
ArgumentsArrive ==
  /\ msg.stage = "handler" => \A i \in DOMAIN msg.got : SameArgument(msg.command.request[i], msg.args[i], msg.got[i])
  /\ msg.stage = "done" => \A i \in DOMAIN msg.returned : SameResult(msg.command.response[i], msg.results[i], msg.returned[i])
  /\ msg.stage = "error" => msg.returned = <<1>>

(* After a command, each process has the handles it had, without those it  *)
(* gave away and with the ones it got, and no buffer of the client is left *)
(* in the memory of the server once the server has returned them all.      *)
Sent(tags, values, close) == UNION {{values[i][k] : k \in 1 .. tags[i].n} \ {0} :
                                      i \in {j \in DOMAIN tags : tags[j].t = "handle" /\ (tags[j].close \/ ~close)}}
ResourcesSettled ==
  msg.stage \in {"done", "error"} =>
    LET request == msg.command.request
        response == IF msg.stage = "done" THEN msg.command.response ELSE <<>>
        kept(who, tags, values) == DOMAIN FirstTable(who) \ Sent(tags, values, TRUE)
        new(who) == DOMAIN msg.table[who] \ DOMAIN FirstTable(who)
    IN  /\ DOMAIN msg.table[Client] \cap DOMAIN FirstTable(Client) = kept(Client, request, msg.args)
        /\ DOMAIN msg.table[Server] \cap DOMAIN FirstTable(Server) = kept(Server, response, msg.results)
        /\ Cardinality(new(Server)) = Cardinality(Sent(request, msg.args, FALSE))
        /\ Cardinality(new(Client)) = Cardinality(Sent(response, msg.results, FALSE))
        /\ msg.stage = "done" => DOMAIN msg.pages = {PageOf(MapStart) + 1}
=============================================================================
