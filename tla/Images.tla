------------------------------- MODULE Images -------------------------------
(***************************************************************************)
(* Homebrew programs (3DSX) as titles: the adaptor that lets a 3DSX file   *)
(* look like an NCCH on a game card, and the tool that writes an NCCH file *)
(* from one and reads NCCH files back.                                     *)
(*                                                                         *)
(* Everything is measured in cells of Word bytes; addresses are bytes.  A  *)
(* program is [text, ro, data, bss, abs, rel, secondary, romfs], where     *)
(* abs[s] and rel[s] are the relocations <<words to skip, words to patch>> *)
(* of segment s.  An NCCH is the records its headers hold and the cells    *)
(* behind them.  Extended header fields other than the code set, logging   *)
(* and read errors of the host are left out.                               *)
(***************************************************************************)
EXTENDS Integers, Sequences, FiniteSets, SequencesExt, FiniteSetsExt

CONSTANTS Word,        \* bytes of a cell
          Unit,        \* cells of a media unit (0x200 bytes)
          Page,        \* cells of a page (0x1000 bytes)
          TextVaddr,   \* 0x00100000
          Nibble,      \* 2^28: what lies below the sub type of a word
          ExHeader,    \* cells of the extended header
          Icon,        \* cells of the SMDH
          Banner,      \* cells of the banner
          NumFiles,    \* entries of an ExeFS header
          Programs,    \* 3DSX files
          Logos,       \* cells of placeholder_logo.bin; 0: it does not exist
          Templates    \* NCCHs that are read and written again

\* Page and ExHeader are multiples of Unit, TextVaddr of the bytes of a page

VARIABLE img
vars == <<img>>

Wrap == 16 * Nibble   \* 2^32
Throw == [throws |-> TRUE]
Hash(data) == <<"sha256", data>>
Zeroes(n) == [i \in 1 .. n |-> 0]
RoundToNextMediaUnit(n) == ((n + Unit - 1) \div Unit) * Unit
FromBytes(n) == n \div Unit
ToBytes(u) == u * Unit

-----------------------------------------------------------------------------
(* The code of a program.                                                  *)
Numpages(n) == (n + Page - 1) \div Page
Segments(x) == <<x.text, x.ro, x.data>>
Pages(x) == [s \in 1 .. 3 |-> Numpages(Len(Segments(x)[s]))]
SegmentAt(x, s) == Page * (IF s = 1 THEN 0 ELSE IF s = 2 THEN Pages(x)[1] ELSE Pages(x)[1] + Pages(x)[2])
Vaddr(x, s) == TextVaddr + Word * SegmentAt(x, s)
CodeSet(x) == [s \in 1 .. 3 |-> [address |-> Vaddr(x, s), pages |-> Pages(x)[s], size |-> Len(Segments(x)[s])]]
GetProgramCodeSize(x) == Page * (Pages(x)[1] + Pages(x)[2] + Pages(x)[3])
Loaded(x) ==
  [p \in 0 .. GetProgramCodeSize(x) - 1 |->
     LET here == {s \in 1 .. 3 : p >= SegmentAt(x, s) /\ p < SegmentAt(x, s) + Len(Segments(x)[s])}
     IN IF here = {} THEN 0 ELSE LET s == CHOOSE s \in here : TRUE IN Segments(x)[s][p - SegmentAt(x, s) + 1]]

\* Patches(x, code, s, kind, R): the entries of one table in turn, each from where the last one ended
Patches(x, code, s, kind, R(_, _, _, _)) ==
  LET Entry(st, e) ==
        LET first == st.ptr + e[1]
        IN [ptr |-> first + e[2],
            code |-> [p \in DOMAIN st.code |-> IF p \in first .. first + e[2] - 1 THEN R(x, p, st.code[p], kind) ELSE st.code[p]]]
      entries == IF kind = "abs" THEN x.abs[s] ELSE x.rel[s]
  IN FoldLeft(Entry, [ptr |-> SegmentAt(x, s), code |-> code], entries).code
Relocated(x, R(_, _, _, _)) ==
  FoldLeft(LAMBDA code, t : Patches(x, code, t[1], t[2], R), Loaded(x),
           <<<<1, "abs">>, <<1, "rel">>, <<2, "abs">>, <<2, "rel">>, <<3, "abs">>, <<3, "rel">>>>)

\* the adaptor's word: the target by segment; a relative word counts from its own address
TranslateAddress(x, offset) ==
  LET text == Word * SegmentAt(x, 2)
      both == Word * SegmentAt(x, 3)
  IN IF offset < text THEN offset + TextVaddr
     ELSE IF offset < both THEN offset + Vaddr(x, 2) - text ELSE offset + Vaddr(x, 3) - both
\* the distance of a relative word counted from the start of the text
PatchedWordFromStart(x, p, w, kind) ==
  LET target == TranslateAddress(x, w % Nibble)
  IN IF kind = "abs" THEN target ELSE (target - TextVaddr) % Wrap
PatchedWord(x, p, w, kind) ==
  LET target == TranslateAddress(x, w % Nibble)
      relative == (target - (TextVaddr + Word * p)) % Wrap
  IN IF kind = "abs" THEN target ELSE IF w \div Nibble = 0 THEN relative ELSE relative % (Wrap \div 2)
ReadProgramCode(x) == Relocated(x, PatchedWord)
\* the tool's word: the sub type is not looked at and the distance is taken from a count of words
InjectedWord(x, p, w, kind) ==
  LET target == (w % Nibble) + TextVaddr IN IF kind = "abs" THEN target ELSE (target - p) % Wrap

-----------------------------------------------------------------------------
(* The adaptor.                                                            *)
Flags == [plain |-> TRUE, romfs_mounted |-> FALSE]
Adaptor3DSXToNCCH(logo) == IF logo = 0 THEN Throw ELSE [throws |-> FALSE, ncch |-> Flags]

GetExeFSSize(files) == Unit + Max({files[i].offset + files[i].size : i \in DOMAIN files})
ExeFSFiles(x, logo) ==
  LET icon == RoundToNextMediaUnit(GetProgramCodeSize(x))
      banner == RoundToNextMediaUnit(icon + Icon)
      last == RoundToNextMediaUnit(banner + Banner)
  IN <<[name |-> ".code", offset |-> 0, size |-> GetProgramCodeSize(x)], [name |-> "icon", offset |-> icon, size |-> Icon],
       [name |-> "banner", offset |-> banner, size |-> Banner], [name |-> "logo", offset |-> last, size |-> logo]>>
Open(x, logo) ==
  LET files == ExeFSFiles(x, logo)
      exefs_offset == FromBytes(Unit + ExHeader)
      exefs_size == FromBytes(GetExeFSSize(files) + Unit - 1)
      romfs_size == IF x.secondary THEN FromBytes(Len(x.romfs) + Unit - 1 + Page) ELSE 0
  IN [code_set |-> CodeSet(x), bss |-> x.bss, files |-> files,
      exefs_offset |-> exefs_offset, exefs_size |-> exefs_size,
      romfs_offset |-> IF x.secondary THEN FromBytes(Unit - 1 + ToBytes(exefs_offset) + ToBytes(exefs_size)) ELSE 0,
      romfs_size |-> romfs_size,
      content_size |-> FromBytes(Unit + ExHeader + ToBytes(exefs_size) + ToBytes(romfs_size))]

\* Read(x, a, offset, n): what it hands out, [what, from, n], or Throw
Piece(what, from, n) == [throws |-> FALSE, what |-> what, from |-> from, n |-> n]
ReadExeFS(a, offset, n) ==
  LET data == Unit + ExHeader + Unit
      hit == {i \in 1 .. 4 : offset = data + a.files[i].offset /\ n = a.files[i].size}
  IN IF hit = {} THEN Throw ELSE Piece(a.files[Min(hit)].name, 0, n)
ReadRomFS(x, a, offset, n) ==
  LET romfs == ToBytes(a.romfs_offset)
  IN IF offset = romfs /\ n <= 1 THEN Piece("IVFC", 0, 0)
     ELSE IF offset >= romfs + Page /\ offset + n <= romfs + ToBytes(a.romfs_size) /\ x.secondary
          THEN Piece("romfs", offset - romfs - Page, n) ELSE Throw
Read(x, a, offset, n) ==
  LET exheader == Unit
      exefsheader == exheader + ExHeader
      exefsdata == exefsheader + Unit
  IN IF offset + n <= exheader THEN Piece("header", offset, n)
     ELSE IF offset >= exheader /\ offset < exefsheader
          THEN IF offset = exheader /\ n = ExHeader THEN Piece("exheader", 0, n) ELSE Throw
     ELSE IF offset >= exefsheader /\ offset < exefsdata
          THEN IF offset = exefsheader /\ n = Unit THEN Piece("exefs", 0, n) ELSE Throw
     ELSE IF offset >= exefsdata /\ offset < exefsdata + a.files[4].offset + a.files[4].size
          THEN ReadExeFS(a, offset, n)
     ELSE ReadRomFS(x, a, offset, n)
GetSize(a) == ToBytes(a.content_size)

-----------------------------------------------------------------------------
(* The tool.  A section keeps its place in the header it was read from.    *)
NoSection == [name |-> "", offset |-> 0, data |-> <<>>]
WriteExeFS(sections) ==
  LET Section(st, s) ==
        IF s.data = <<>> THEN [st EXCEPT !.files = Append(@, [name |-> s.name, offset |-> s.offset, size |-> 0]), !.hashes = <<0>> \o @]
        ELSE [files |-> Append(st.files, [name |-> s.name, offset |-> Len(st.cells), size |-> Len(s.data)]),
              hashes |-> <<Hash(s.data)>> \o st.hashes, cells |-> st.cells \o s.data]
  IN FoldLeft(Section, [files |-> <<>>, hashes |-> <<>>, cells |-> <<>>], sections)

\* Part(cells, data): data at the next media unit, padded to the one after it
ZeroUpTo(cells, n) == cells \o Zeroes(n - Len(cells))
ZeroUpToNextMediaUnitFrom(cells) == ZeroUpTo(cells, RoundToNextMediaUnit(Len(cells)))
Part(cells, data) ==
  IF data = <<>> THEN cells ELSE ZeroUpToNextMediaUnitFrom(ZeroUpToNextMediaUnitFrom(cells) \o data)
\* the file is [header, exheader, exefs, cells]: the headers, which are written last, and all cells
WriteNCCH(n) ==
  LET start == Zeroes(Unit + ExHeader)
      plain == Part(start, n.plain)
      logo == Part(plain, n.logo)
      exefs == WriteExeFS(n.sections)
      code == logo \o Zeroes(Unit) \o exefs.cells
      romfs == IF n.romfs = <<>> THEN code ELSE ZeroUpTo(code, 2 * Unit + RoundToNextMediaUnit(Len(code))) \o n.romfs
  IN [exheader |-> n.exheader, exefs |-> [files |-> exefs.files, hashes |-> exefs.hashes], cells |-> romfs,
      header |->
        [plain_offset |-> IF n.plain = <<>> THEN n.header.plain_offset ELSE FromBytes(RoundToNextMediaUnit(Len(start))),
         plain_size |-> IF n.plain = <<>> THEN n.header.plain_size ELSE FromBytes(Len(n.plain)),
         logo_offset |-> IF n.logo = <<>> THEN n.header.logo_offset ELSE FromBytes(RoundToNextMediaUnit(Len(plain))),
         logo_size |-> IF n.logo = <<>> THEN n.header.logo_size ELSE FromBytes(Len(n.logo)),
         logo_hash |-> Hash(n.logo),
         exefs_offset |-> FromBytes(Len(logo)), exefs_size |-> FromBytes(GetExeFSSize(exefs.files)),
         exefs_hash |-> Hash(<<exefs.files, exefs.hashes>>),
         romfs_offset |-> IF n.romfs = <<>> THEN n.header.romfs_offset
                          ELSE FromBytes(2 * Unit + RoundToNextMediaUnit(Len(code))),
         romfs_size |-> FromBytes(RoundToNextMediaUnit(Len(n.romfs))),
         romfs_hash |-> IF n.romfs = <<>> THEN n.header.romfs_hash ELSE Hash(SubSeq(n.romfs, 1, Unit)),
         exheader_hash |-> Hash(n.exheader),
         content_size |-> FromBytes(RoundToNextMediaUnit(Len(romfs)))]]

\* a read that runs past the end of the file throws (eofbit)
Within(f, at, n) == n = 0 \/ at + n <= Len(f.cells)
ReadAt(f, at, n) == SubSeq(f.cells, at + 1, at + n)
ParseExHeader(f) == [exheader |-> f.exheader, computed |-> Hash(f.exheader)]
ParsePart(f, offset, size) == ReadAt(f, ToBytes(offset), ToBytes(size))
ParseExeFS(f) ==
  LET data == ToBytes(f.header.exefs_offset) + Unit
  IN [i \in DOMAIN f.exefs.files |->
        [name |-> f.exefs.files[i].name, offset |-> f.exefs.files[i].offset,
         data |-> ReadAt(f, data + f.exefs.files[i].offset, f.exefs.files[i].size)]]
ParseNCCH(f) ==
  LET h == f.header
      data == ToBytes(h.exefs_offset) + Unit
  IN IF /\ Within(f, ToBytes(h.plain_offset), ToBytes(h.plain_size))
        /\ Within(f, ToBytes(h.logo_offset), ToBytes(h.logo_size))
        /\ Within(f, ToBytes(h.exefs_offset), Unit)
        /\ \A i \in DOMAIN f.exefs.files : Within(f, data + f.exefs.files[i].offset, f.exefs.files[i].size)
        /\ Within(f, ToBytes(h.romfs_offset), ToBytes(h.romfs_size))
     THEN [header |-> h, exheader |-> ParseExHeader(f).exheader, plain |-> ParsePart(f, h.plain_offset, h.plain_size),
           logo |-> ParsePart(f, h.logo_offset, h.logo_size), sections |-> ParseExeFS(f),
           romfs |-> ParsePart(f, h.romfs_offset, h.romfs_size), throws |-> FALSE]
     ELSE Throw

\* the NCCH that main makes for a 3DSX: default permissions, the program as the only section
NewHeader == [plain_offset |-> 0, plain_size |-> 0, logo_offset |-> 0, logo_size |-> 0, romfs_offset |-> 0, romfs_hash |-> 0]
Generate3DSX(x) ==
  LET code == Relocated(x, InjectedWord)
  IN [exheader |-> [code_set |-> CodeSet(x), bss |-> x.bss],
      sections |-> [i \in 1 .. NumFiles |->
                      IF i = 1 THEN [name |-> ".code", offset |-> 0, data |-> [p \in 1 .. GetProgramCodeSize(x) |-> code[p - 1]]]
                      ELSE NoSection]]
GenerateNCCH(x) ==
  [header |-> NewHeader, exheader |-> Generate3DSX(x).exheader, plain |-> <<>>, logo |-> <<>>,
   sections |-> Generate3DSX(x).sections, romfs |-> <<>>]

-----------------------------------------------------------------------------
(* A card that is inserted and read the way PXI reads titles, a run of the *)
(* tool, or a template that the tool reads and writes.                     *)
Init == img \in [k : {"card"}, phase : {"new"}, x : Programs, logo : Logos]
                \cup [k : {"tool"}, phase : {"new"}, x : Programs]
                \cup [k : {"template"}, phase : {"new"}, n : Templates]

\* the reads of the loader and of PXI, by the headers they were given
Requests(x, a) ==
  LET exefs == ToBytes(a.exefs_offset)
      romfs == ToBytes(a.romfs_offset)
      Request(what, from, offset, n) == [what |-> what, from |-> from, offset |-> offset, n |-> n]
  IN {Request("header", 0, 0, Unit), Request("exheader", 0, Unit, ExHeader), Request("exefs", 0, exefs, Unit)}
     \cup {Request(a.files[i].name, 0, exefs + Unit + a.files[i].offset, a.files[i].size) : i \in 1 .. 4}
     \cup (IF x.secondary
           THEN {Request("IVFC", 0, romfs, 1)}
                \cup {Request("romfs", r[1], romfs + Page + r[1], r[2]) :
                        r \in {r \in (0 .. Len(x.romfs) - 1) \X (1 .. Len(x.romfs)) : r[1] + r[2] <= Len(x.romfs)}}
           ELSE {})

Insert == /\ img.k = "card" /\ img.phase = "new"
          /\ img' = IF Adaptor3DSXToNCCH(img.logo).throws THEN [img EXCEPT !.phase = "failed"]
                    ELSE [k |-> "card", phase |-> "open", x |-> img.x, logo |-> img.logo, a |-> Open(img.x, img.logo)]
ReadCard == /\ img.k = "card" /\ img.phase = "open"
            /\ \E r \in Requests(img.x, img.a) :
                 img' = [k |-> "card", phase |-> "read", x |-> img.x, logo |-> img.logo, a |-> img.a, request |-> r,
                         answer |-> Read(img.x, img.a, r.offset, r.n)]
NextRead == /\ img.k = "card" /\ img.phase = "read"
            /\ img' = [k |-> "card", phase |-> "open", x |-> img.x, logo |-> img.logo, a |-> img.a]

Convert == /\ img.phase = "new" /\ img.k \in {"tool", "template"}
           /\ LET n == IF img.k = "tool" THEN GenerateNCCH(img.x) ELSE img.n
              IN img' = [k |-> img.k, phase |-> "written", n |-> n, file |-> WriteNCCH(n),
                         x |-> IF img.k = "tool" THEN img.x ELSE 0]
Reread == /\ img.phase = "written"
          /\ img' = [img EXCEPT !.phase = "reread", !.file = [file |-> @, parsed |-> ParseNCCH(@)]]

Next == Insert \/ ReadCard \/ NextRead \/ Convert \/ Reread
Spec == Init /\ [][Next]_vars

-----------------------------------------------------------------------------
(* What a relocation means: the words that the tables name, by arithmetic  *)
(* on the entries, and what each of them has to hold.                      *)
Before(entries, i) == FoldLeft(LAMBDA sum, e : sum + e[1] + e[2], 0, SubSeq(entries, 1, i - 1))
Named(entries, at) == UNION {LET first == at + Before(entries, i) + entries[i][1] IN first .. first + entries[i][2] - 1 : i \in DOMAIN entries}
Target(w) == TextVaddr + (w % Nibble)
Meaning(x, p) ==
  LET w == Loaded(x)[p]
      absolute == \E s \in 1 .. 3 : p \in Named(x.abs[s], SegmentAt(x, s))
      relative == \E s \in 1 .. 3 : p \in Named(x.rel[s], SegmentAt(x, s))
  IN IF absolute THEN Target(w) ELSE IF ~relative THEN w
     ELSE (Target(w) - TextVaddr - Word * p) % (IF w < Nibble THEN Wrap ELSE Wrap \div 2)

\* A read of the adaptor hands out what the headers it handed out before promise at that place, the
\* code with every relocation applied, and all of it lies inside of the size it reports
\* (Adaptor3DSXToNCCH::Open, Read, ReadProgramCode).
CardServed ==
  /\ (img.k = "card" /\ img.phase = "read") =>
       LET r == img.request
       IN /\ ~img.answer.throws /\ img.answer.what = r.what /\ img.answer.from = r.from
          /\ r.what # "IVFC" => img.answer.n = r.n
          /\ r.offset + r.n <= GetSize(img.a)
          /\ r.what = ".code" => \A p \in 0 .. r.n - 1 : ReadProgramCode(img.x)[p] = Meaning(img.x, p)
  /\ (img.k = "card" /\ img.phase = "open") =>
       \A r, s \in Requests(img.x, img.a) :
         r.what # s.what => r.offset + r.n <= s.offset \/ s.offset + s.n <= r.offset

\* An NCCH that the tool writes reads back as it was: its parts do not overlap, the hashes are those
\* of what is found there, and a program without relative relocations is the one the adaptor serves
\* (WriteNCCH, WriteExeFS, ParseNCCH, Generate3DSX).
FilesReadBack ==
  img.phase = "reread" =>
    LET p == img.file.parsed
        file == img.file.file
        rest == NumFiles + 1
    IN /\ ~p.throws
       /\ p.plain = img.n.plain /\ p.logo = img.n.logo /\ p.romfs = img.n.romfs /\ p.exheader = img.n.exheader
       /\ \A i \in 1 .. NumFiles :
            /\ p.sections[i].data = img.n.sections[i].data
            /\ p.sections[i].data # <<>> => file.exefs.hashes[rest - i] = Hash(p.sections[i].data)
       /\ file.header.logo_hash = Hash(p.logo)
       /\ ToBytes(file.header.content_size) >= Len(file.cells)
       /\ (img.k = "tool" /\ \A s \in 1 .. 3 : img.x.rel[s] = <<>>) =>
            p.sections[1].data = [i \in 1 .. GetProgramCodeSize(img.x) |-> ReadProgramCode(img.x)[i - 1]]
=============================================================================
