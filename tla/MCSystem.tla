------------------------------ MODULE MCSystem ------------------------------
(***************************************************************************)
(* The parts of the system software that share no state with one another,  *)
(* one of which runs in each behaviour; state is the state of that part.   *)
(***************************************************************************)
EXTENDS Integers, Sequences, FiniteSets, Arbiter, Packets, Dsp

VARIABLES part, state

\* one FIRM module, the program that boots and two more processes on six pages
Kernel11 == INSTANCE Processes
              WITH os <- state, Pages <- 6, NumFirm <- 1, MaxPid <- 3, MaxHandle <- 2, MaxThreads <- 2,
                   MaxCodeSets <- 2, MaxBlocks <- 1, SlotsPerPage <- 2

\* a directory with one file in every archive; files of two cells where sizes are remembered or
\* divided into sub files, and of one elsewhere
Archives(Programs, MaxSize) == INSTANCE FileSystem
           WITH fs <- state, Nodes <- {<<>>, <<"d">>, <<"d", "a">>}, SaveMedia <- "card", SectionSize <- 3, HeaderSize <- 1,
                MaxHandle <- 4, MaxArchives <- 1
Checked == {{"save"}, {"ncch"}}
Plain == {{"user"}, {"system"}, {"host"}}

\* commands that between them use every kind of tag, in both directions
Tag(t) == [t |-> t]
Handles(n, close) == [t |-> "handle", n |-> n, close |-> close]
Static(id) == [t |-> "static", id |-> id]
PXIBuffer(type, id) == [t |-> "pxi", type |-> type, id |-> id]
Mapped(type) == [t |-> "map", type |-> type]
Struct == [t |-> "serialized", parts |-> <<"u64", "u32">>]
Result == Tag("result")
Command(id, request, response) == [id |-> id, request |-> request, response |-> response]
MCCommands ==
  {Command(1, <<Tag("u64"), Tag("u32"), Handles(2, FALSE)>>, <<Result, Tag("u64")>>),
   Command(2, <<Struct, Tag("pid"), Handles(1, TRUE), Static(1)>>, <<Result, Handles(1, TRUE), Static(2)>>),
   Command(3, <<Tag("u32"), PXIBuffer(2, 0), PXIBuffer(3, 1)>>, <<Result, Tag("u32")>>),
   Command(4, <<Tag("u32"), Mapped(5), Mapped(6)>>, <<Result, Tag("u32"), Mapped(5), Mapped(6)>>),
   Command(5, <<Handles(1, TRUE), Tag("pid"), Handles(1, FALSE), Mapped(6)>>,
              <<Result, Struct, Handles(2, FALSE), Tag("pid"), Mapped(6)>>)}
\* pages of 4 bytes from address 16: in one piece, scattered over three and over two
Piece(start, size) == [start |-> start, size |-> size]
MCRanges == {[v \in {16} |-> Piece(160, 16)],
             [v \in {16, 20, 28} |-> IF v = 16 THEN Piece(160, 4) ELSE IF v = 20 THEN Piece(200, 8) ELSE Piece(40, 4)],
             [v \in {16, 24} |-> IF v = 16 THEN Piece(160, 8) ELSE Piece(80, 8)]}
Requests == INSTANCE Messages
              WITH msg <- state, PageSize <- 4, WordBase <- 16, Buffer <- 14, Ranges <- MCRanges,
                   Commands <- MCCommands, Buffers <- [addr : {16, 17, 19, 22}, size : {0, 1, 4, 6, 9}]

\* titles of every kind of encryption, one that is emulated, one that is not installed, a game card
Title(id, media, enc, method, logo, romfs, hle, card) ==
  [id |-> id, media |-> media, enc |-> enc, method |-> method, logo |-> logo, romfs |-> romfs, hle |-> hle, card |-> card]
MCTitles == {Title("a", 0, "secure", 1, TRUE, TRUE, FALSE, "cxi"), Title("b", 0, "plain", 0, FALSE, FALSE, FALSE, "cxi"),
             Title("c", 0, "fixed", 0, FALSE, TRUE, FALSE, "cxi"), Title("d", 0, "plain", 0, FALSE, FALSE, TRUE, "cxi"),
             Title("probed", 0, "secure", 0, FALSE, FALSE, FALSE, "cxi"),
             Title("card", 2, "stripped", 1, FALSE, TRUE, FALSE, "cci")}
Storage == INSTANCE Pxi
             WITH pxi <- state, Titles <- MCTitles, Installed <- {"a", "b", "c"}, SaveIds <- {1}, MaxFile <- 2,
                  MaxArchive <- 1, MaxProgram <- 1, MaxSize <- 2

\* a file system, an audio service and others that the hypervisor has handlers for
Observer == INSTANCE Hypervisor
              WITH hv <- state, Services <- {"fs:USER", "dsp::DSP", "ns:s", "APT:S", "ldr:ro"}, MaxHandle <- 8,
                   MaxRequests <- 3, MaxChanges <- 1

\* programs with and without data in every segment, relocations of both kinds, and a RomFS
Numbers(n, seed) == [i \in 1 .. n |-> 4 * ((seed * i) % 13)]
Typed(n, seed) == [i \in 1 .. n |-> Numbers(n, seed)[i] + (IF i % 2 = 1 THEN 256 ELSE 0)]
Entries(n) == {<<>>} \cup (IF n >= 1 THEN {<<<<0, 1>>>>} ELSE {})
              \cup (IF n >= 4 THEN {<<<<1, 2>>, <<0, 1>>>>, <<<<2, 1>>>>} ELSE {})
Absolute == {[text |-> Numbers(t, 5), ro |-> Numbers(r, 7), data |-> Numbers(4, 3), bss |-> 1, abs |-> <<a1, <<>>, a3>>,
              rel |-> <<<<>>, <<>>, <<>>>>, secondary |-> Len(a1) = 1, romfs |-> [i \in 1 .. 3 |-> i]] :
               t \in {1, 5}, r \in {0, 4}, a1 \in Entries(1), a3 \in Entries(4)}
Relative == {[text |-> Typed(5, 5), ro |-> Numbers(r, 7), data |-> Typed(4, 3), bss |-> 0, abs |-> <<a1, <<>>, <<>>>>,
              rel |-> <<<<>>, b2, b3>>, secondary |-> r > 0, romfs |-> [i \in 1 .. r + 1 |-> i]] :
               r \in {1, 4}, a1 \in {<<>>, <<<<1, 1>>, <<1, 1>>>>}, b2 \in Entries(1), b3 \in Entries(4)}
Cells(n) == [i \in 1 .. n |-> 1000 + i]
Section(name, offset, n) == [name |-> name, offset |-> offset, data |-> Cells(n)]
MCTemplates == {[header |-> [plain_offset |-> 0, plain_size |-> 0, logo_offset |-> 0, logo_size |-> 0, romfs_offset |-> 0, romfs_hash |-> 0],
                 exheader |-> 7, plain |-> Cells(p), logo |-> Cells(l), romfs |-> Cells(f),
                 sections |-> <<Section("a", 0, s), Section("b", 3, 0), Section("c", 9, u)>>] :
                  p \in {0, 2}, l \in {0, 4}, f \in {0, 2, 4}, s \in {1, 4}, u \in {0, 3}}
Convert == INSTANCE Images
             WITH img <- state, Word <- 4, Unit <- 2, Page <- 4, TextVaddr <- 64, Nibble <- 256, ExHeader <- 4, Icon <- 3,
                  Banner <- 5, NumFiles <- 3, Programs <- Absolute \cup Relative, Logos <- {0, 1, 2}, Templates <- MCTemplates

\* CIA files with one and two contents, plain and encrypted, sound and not
Key(s, t, k) == [slot |-> s, type |-> t, key |-> k]
MCKeys == <<Key(1, "X", "old"), Key(0, "C", "common"), Key(1, "X", "x")>>
Sha(d) == <<"sha256", d>>
\* a CIA file as other tools make it: contents [id, index, enc, body], infos in groups of the given sizes
Info(c, bad) == [id |-> c.id, index |-> c.index, enc |-> c.enc, size |-> 2, hash |-> Sha(IF bad THEN <<"other">> ELSE c.body)]
Official(title, cs, counts, main, mask, bad) ==
  LET infos == [i \in DOMAIN cs |-> Info(cs[i], bad)]
      first == [g \in DOMAIN counts |-> IF g = 1 THEN 0 ELSE counts[1]]
      groups == [g \in DOMAIN counts |-> [offset |-> first[g], count |-> counts[g], hash |-> Sha(SubSeq(infos, first[g] + 1, first[g] + counts[g]))]]
      tmd == [title |-> title, records |-> Sha(groups), groups |-> groups, infos |-> infos, main |-> main]
      key == <<"key">>
      ticket == [title |-> title, title_key |-> <<"aes", <<"generated", "x", "common">>, <<title>>, key>>, key_y |-> 0]
  IN [title |-> title, main |-> main + 1, groups |-> counts, sound |-> ~bad, truth |-> [i \in DOMAIN cs |-> cs[i].body], mask |-> mask,
      header |-> [header_size |-> 5, certs |-> 3, ticket |-> 3, tmd |-> 3 + Len(cs), content |-> 2 * Len(cs), meta |-> 1],
      pieces |-> <<[k |-> "mask", at |-> 1, size |-> 4, what |-> <<>>], [k |-> "certs", at |-> 6, size |-> 3, what |-> <<>>],
                   [k |-> "ticket", at |-> 10, size |-> 3, what |-> ticket], [k |-> "tmd", at |-> 14, size |-> 3 + Len(cs), what |-> tmd]>>
                 \o [i \in DOMAIN cs |-> [k |-> "content", at |-> 14 + (IF Len(cs) = 1 THEN 4 ELSE 6) + 2 * (i - 1), size |-> 2,
                                          what |-> IF cs[i].enc THEN <<"aes", key, <<"index", cs[i].index>>, cs[i].body>> ELSE cs[i].body]]
                 \o <<[k |-> "meta", at |-> 14 + (IF Len(cs) = 1 THEN 4 ELSE 6) + 2 * Len(cs), size |-> 1, what |-> <<>>]>>]
Content(id, index, enc, body) == [id |-> id, index |-> index, enc |-> enc, body |-> <<"program", body>>]
One == Official("t", <<Content(0, 0, FALSE, "a")>>, <<1>>, 0, {0}, FALSE)
Two == Official("t", <<Content(2, 1, TRUE, "manual"), Content(1, 0, TRUE, "b")>>, <<2>>, 1, {0, 1}, FALSE)
Clash == Official("t", <<Content(1, 0, FALSE, "c"), Content(0, 1, FALSE, "manual")>>, <<2>>, 0, {0, 1}, FALSE)
Groups == Official("u", <<Content(0, 0, FALSE, "d"), Content(1, 1, FALSE, "e")>>, <<1, 1>>, 0, {0, 1}, FALSE)
Seven == Official("u", <<Content(0, 7, FALSE, "f")>>, <<1>>, 0, {7}, FALSE)
Broken == Official("u", <<Content(0, 0, FALSE, "g")>>, <<1>>, 0, {0}, TRUE)
Other == Official("u", <<Content(0, 0, TRUE, "h")>>, <<1>>, 0, {0}, FALSE)
Short == [One EXCEPT !.header.header_size = 1, !.title = "u"]
Entry(cia, n, image) == [cia |-> cia, name_size |-> n, image |-> image]
MCCards == {[kind |-> k, update |-> u, logo |-> l] : k \in {"cci"}, l \in {<<>>, <<"logo">>},
             u \in {<<Entry(TRUE, 6, a), Entry(FALSE, 2, One), Entry(TRUE, 4, b)>> : a \in {One, Two, Clash}, b \in {Two, Groups, Seven, Broken, Other, Short}}}
           \cup {[kind |-> k, update |-> <<>>, logo |-> <<>>] : k \in {"cxi", "elf"}}
Install == INSTANCE Titles WITH host <- state, Align <- 2, HeaderSize <- 1, MaskSize <- 4, Sizes <- {1, 2, 3}, KeyFile <- MCKeys, NumSlots <- 2,
       Cards <- MCCards, Images <- {One, Two, Other, Broken}, Programs <- {[title |-> "u", body |-> <<"ncch", "u">>]}, Titles <- {"t", "u"}, Ids <- 0 .. 2,
       Substitutes <- {"u"}, MaxRuns <- 2

\* two processes that wait at the same virtual address, and one whose threads share tokens
Arbitrated(main, others, use) ==
  [main |-> main, home |-> [t \in {"m", "n", "c", "d"} |-> others[t]], word |-> [p \in {1, 2} |-> [addr |-> 1, use |-> use]]]
MCLayouts == {Arbitrated(<<"m", "n">>, [m |-> 1, n |-> 2, c |-> 1, d |-> 3], "gate"),
              Arbitrated(<<"m">>, [m |-> 1, n |-> 1, c |-> 1, d |-> 1], "tokens")}
MCPriority == [m |-> 2, n |-> 1, c |-> 2, d |-> 1]
ASSUME WaitersAssumption == ArbiterAssumption /\ TokensApart
\* the arbiter while another part runs
NoThreads == [layout |-> [main |-> <<>>, home |-> <<>>, word |-> <<>>], word |-> <<>>, ready |-> <<>>,
              entries |-> [t \in Threads |-> 0], status |-> [t \in Threads |-> "Uncreated"],
              pc |-> [t \in Threads |-> "top"], fault |-> FALSE]

\* the stub while another part runs
NotConnected == [client |-> "none", failed |-> "none"]

\* the audio service while another part runs; a pipe of five bytes is one that four bytes can cross the end of
NoProcessor == [wrong |-> FALSE, owed |-> FALSE, stopped |-> TRUE, pipe |-> [x \in Side |-> SubPipeInfo(0)],
                memory |-> [x \in Side |-> <<>>], sent |-> [x \in Side |-> <<>>]]

-----------------------------------------------------------------------------
Init == \/ part = "processes" /\ Kernel11!Init /\ arb = NoThreads /\ gdb = NotConnected /\ dsp = NoProcessor
        \/ part = "checked files" /\ Archives(Checked, 2)!Init /\ arb = NoThreads /\ gdb = NotConnected /\ dsp = NoProcessor
        \/ part = "plain files" /\ Archives(Plain, 1)!Init /\ arb = NoThreads /\ gdb = NotConnected /\ dsp = NoProcessor
        \/ part = "messages" /\ Requests!Init /\ arb = NoThreads /\ gdb = NotConnected /\ dsp = NoProcessor
        \/ part = "storage" /\ Storage!Init /\ arb = NoThreads /\ gdb = NotConnected /\ dsp = NoProcessor
        \/ part = "observer" /\ Observer!Init /\ arb = NoThreads /\ gdb = NotConnected /\ dsp = NoProcessor
        \/ part = "audio" /\ DspInit /\ state = <<>> /\ arb = NoThreads /\ gdb = NotConnected
        \/ part = "images" /\ Convert!Init /\ arb = NoThreads /\ gdb = NotConnected /\ dsp = NoProcessor
        \/ part = "titles" /\ Install!Init /\ arb = NoThreads /\ gdb = NotConnected /\ dsp = NoProcessor
        \/ part = "arbiter" /\ ArbInit /\ state = <<>> /\ gdb = NotConnected /\ dsp = NoProcessor
        \/ part = "packets" /\ GdbInit /\ state = <<>> /\ arb = NoThreads /\ dsp = NoProcessor
Next == \/ part = "processes" /\ Kernel11!Next /\ UNCHANGED <<part, arb, gdb, dsp>>
        \/ part = "checked files" /\ Archives(Checked, 2)!Next /\ UNCHANGED <<part, arb, gdb, dsp>>
        \/ part = "plain files" /\ Archives(Plain, 1)!Next /\ UNCHANGED <<part, arb, gdb, dsp>>
        \/ part = "messages" /\ Requests!Next /\ UNCHANGED <<part, arb, gdb, dsp>>
        \/ part = "storage" /\ Storage!Next /\ UNCHANGED <<part, arb, gdb, dsp>>
        \/ part = "observer" /\ Observer!Next /\ UNCHANGED <<part, arb, gdb, dsp>>
        \/ part = "audio" /\ DspNext /\ UNCHANGED <<part, state, arb, gdb>>
        \/ part = "images" /\ Convert!Next /\ UNCHANGED <<part, arb, gdb, dsp>>
        \/ part = "titles" /\ Install!Next /\ UNCHANGED <<part, arb, gdb, dsp>>
        \/ part = "arbiter" /\ ArbNext /\ UNCHANGED <<part, state, gdb, dsp>>
        \/ part = "packets" /\ GdbNext /\ UNCHANGED <<part, state, arb, dsp>>
Spec == Init /\ [][Next]_<<part, state, arb, gdb, dsp>>

\* Every page in use belongs to something that exists, whatever is created, shared, closed and
\* terminated; nothing is left of a process that ended, and the threads that exist have slots of
\* thread-local storage of their own (Process, CodeSet, SharedMemoryBlock, FreeTLSSlot).
MemoryAccounted == part = "processes" => Kernel11!MemoryAccounted /\ Kernel11!SlotsApart
\* A request reaches the file that its session was opened for, a file is kept from use exactly
\* while a sub file of it is open, and the size a save data file remembers is never more than
\* what is on the host or held back by its own stream (FSServiceHelper, File, FileSaveData).
SessionsServed ==
  /\ part = "checked files" => Archives(Checked, 2)!SessionsServed /\ Archives(Checked, 2)!SizesRight
  /\ part = "plain files" => Archives(Plain, 1)!SessionsServed /\ Archives(Plain, 1)!SizesRight
\* Arguments and results arrive as they were sent, through every page boundary and handle table,
\* and a command leaves each process the handles and buffers it is meant to have
\* (TLSWriter, TranslateIPCMessage, TLSReader).
CommandsDelivered == part = "messages" => Requests!ArgumentsArrive /\ Requests!ResourcesSettled
\* Every handle for a section of a title reads the plain contents of that section, whatever the
\* container and its encryption, and a save keeps every write through one handle
\* (NCCHOpenExeFSSection, AESEncryptedFile, FileView, HostFile).
SectionsServed == part = "storage" => Storage!SectionsServed /\ Storage!SavesKept
\* However handles are copied, passed on and closed, the hypervisor knows every port and session by
\* what it was opened for, and what its handlers remember agrees with the servers
\* (Hypervisor, SrvService, FSUserService, DspService, NsService).
ObserverRight == part = "observer" => Observer!SessionsTracked /\ Observer!ShadowsAgree
\* A homebrew program is served as the title that the headers made for it promise, with every
\* relocation applied, and a title file that is written reads back as what was put into it
\* (Adaptor3DSXToNCCH, WriteNCCH, ParseNCCH).  A title boots what its last installation brought,
\* whatever was killed, overwritten or refused before; a bootstrap that ends has installed
\* everything, and a CIA file that is written can be read up to the two fields its header gets
\* wrong (InstallCIA, main, WriteCIA).
TitlesRight ==
  /\ part = "images" => Convert!CardServed /\ Convert!FilesReadBack
  /\ part = "titles" =>
       Install!InstalledRight /\ Install!RefusedUntouched /\ Install!BootstrapDone /\ Install!ConvertedRight
=============================================================================
