-------------------------------- MODULE Pxi --------------------------------
(***************************************************************************)
(* The PXI process: files of the emulated NAND, of the game card and of    *)
(* system save data behind the handles of PxiFS, the programs of PxiPM and *)
(* the title lists of PxiAM.  Its service threads share one Context; a     *)
(* command is one step, for it holds the emulated processor throughout.    *)
(* How the threads accept sessions and reply is part of module Sessions.   *)
(*                                                                         *)
(* A file is a sequence of cells (media units).  A cell of an encrypted    *)
(* region carries the key, the region byte of the counter and the counter; *)
(* decrypting with anything else gives Garbage.  A stream of the host      *)
(* holds the last write back until it is moved or closed.  An exception or *)
(* a panic stops the emulator: fault.                                      *)
(***************************************************************************)
EXTENDS Integers, Sequences, FiniteSets, SequencesExt, Functions

CONSTANTS Titles,      \* records [id, media, enc, method, logo, romfs, hle, card]
          Installed,   \* ids of the titles that exist on the emulated NAND
          SaveIds,     \* system saves
          MaxFile,     \* handles of files that are ever given out
          MaxArchive,  \* the same for archives
          MaxProgram,  \* and for programs
          MaxSize      \* cells of a save

VARIABLE pxi
vars == <<pxi>>

Garbage == <<"garbage", 0, 0>>
NoFile == [k |-> "null"]
Throw == [ok |-> FALSE]

-----------------------------------------------------------------------------
(* Containers (external formats): an NCCH, alone or as partition 0 of an   *)
(* NCSD.  enc is "plain" (flag 4), "secure" (keys of slots), "fixed"       *)
(* (flag 1: key of zeroes) or "stripped": flags of an encrypted file on    *)
(* contents that are not.                                                  *)
Slot == <<"slot2c", "slot25">>
KeyOf(t, i) == IF t.enc = "fixed" THEN "zero" ELSE Slot[i + 1]
ExeFSAt(t) == IF t.logo THEN 3 ELSE 2
RomFSAt(t) == IF t.romfs THEN ExeFSAt(t) + 4 ELSE 0
Sections == <<[name |-> ".code", offset |-> 0, size |-> 2], [name |-> "icon", offset |-> 2, size |-> 1]>>
Plain(t, region, i) == <<t.id, region, i>>
Sealed(t, cell, key, region, ctr) ==
  IF t.enc \in {"plain", "stripped"} THEN cell ELSE [cell |-> cell, key |-> key, iv |-> region, ctr |-> ctr]
Header(t) == [id |-> t.id, plain |-> t.enc = "plain", fixed |-> t.enc = "fixed", method |-> t.method,
              logo |-> IF t.logo THEN 2 ELSE 0, exefs |-> ExeFSAt(t), romfs |-> RomFSAt(t), romsize |-> IF t.romfs THEN 2 ELSE 0]
ExeFSHeader(t) == [files |-> Sections, hashes |-> <<<<t.id, "icon">>, <<t.id, ".code">>>>]
Ncch(t) ==
  <<Header(t), Sealed(t, Plain(t, "exheader", 0), Slot[1], 1, 0)>>
  \o (IF t.logo THEN <<Plain(t, "logo", 0)>> ELSE <<>>)
  \o <<Sealed(t, ExeFSHeader(t), KeyOf(t, 0), 2, 0)>>
  \o [i \in 1 .. 2 |-> Sealed(t, Plain(t, ".code", i - 1), KeyOf(t, t.method), 2, i)]
  \o <<Sealed(t, Plain(t, "icon", 0), KeyOf(t, 0), 2, 3)>>
  \o (IF t.romfs THEN [i \in 1 .. 2 |-> Sealed(t, Plain(t, "romfs", i - 1), KeyOf(t, t.method), 3, i - 1)] ELSE <<>>)
CartAt == 2   \* where partition 0 starts in the image of a card
Ncsd(t) == <<[offset |-> CartAt, size |-> Len(Ncch(t))], <<"pad", 0, 0>>>> \o Ncch(t) \o <<<<"pad", 0, 1>>>>
IsCell(cell) == DOMAIN cell = 1 .. 3

Path(t) == <<"title", t.id>>
SavePath(s) == <<"save", s>>
ImageOf(t) == IF t.card = "cci" THEN Ncsd(t) ELSE Ncch(t)

-----------------------------------------------------------------------------
(* Files: HostFile, FileView, AESEncryptedFile, DummyExeFSFile. *)
HostFile(path) == [k |-> "host", path |-> path, open |-> "no", pend |-> <<>>]
FileView(file, offset, n, hash) == [k |-> "view", file |-> file, offset |-> offset, n |-> n, hash |-> hash]
AESEncryptedFile(file, at, key, iv) == [k |-> "aes", file |-> file, at |-> at, key |-> key, iv |-> iv]
DummyExeFSFile == [k |-> "dummy"]

RECURSIVE Leaf(_)
Leaf(file) == IF file.k \in {"view", "aes"} THEN Leaf(file.file) ELSE file
RECURSIVE WithLeaf(_, _)
WithLeaf(file, leaf) == IF file.k \in {"view", "aes"} THEN [file EXCEPT !.file = WithLeaf(@, leaf)] ELSE leaf

\* the stream writes back what it holds; cells beyond the end are filled with zeroes
Put(cells, at, new) ==
  [i \in 1 .. (IF at + Len(new) > Len(cells) THEN at + Len(new) ELSE Len(cells)) |->
     IF i \in at + 1 .. at + Len(new) THEN new[i - at] ELSE IF i <= Len(cells) THEN cells[i] ELSE <<"zero", 0, 0>>]
Synced(disk, leaf) ==
  IF leaf.k # "host" \/ leaf.pend = <<>> THEN disk
  ELSE [disk EXCEPT ![leaf.path] = Put(@, leaf.pend[1].at, leaf.pend[1].cells)]
Flushed(file) == IF Leaf(file).k = "host" THEN WithLeaf(file, [Leaf(file) EXCEPT !.pend = <<>>]) ELSE file
CloseStream(leaf) == [leaf EXCEPT !.open = "no", !.pend = <<>>]

RECURSIVE GetSize(_, _)
GetSize(file, disk) == CASE file.k = "host" -> Len(disk[file.path])
                         [] file.k = "view" -> file.n
                         [] file.k = "aes" -> GetSize(file.file, disk)
                         [] OTHER -> 1

\* HostFile::Open: "missing" without the create flag, truncation with it; an open stream stays as it is
HostOpen(file, mode, create, disk) ==
  IF ~create /\ file.path \notin DOMAIN disk THEN [ok |-> TRUE, missing |-> TRUE, file |-> file, disk |-> disk]
  ELSE IF file.open # "no" THEN [ok |-> TRUE, missing |-> FALSE, file |-> file, disk |-> disk]
  ELSE [ok |-> TRUE, missing |-> FALSE, file |-> [file EXCEPT !.open = mode],
        disk |-> IF create THEN [p \in DOMAIN disk \cup {file.path} |-> IF p = file.path THEN <<>> ELSE disk[p]] ELSE disk]
RECURSIVE Open(_, _, _, _)
Open(file, mode, create, disk) ==
  CASE file.k = "host" -> HostOpen(file, mode, create, disk)
    [] file.k = "view" -> IF create \/ file.offset + file.n > GetSize(file.file, disk) THEN Throw
                          ELSE LET inner == Open(file.file, mode, FALSE, disk) IN
                               IF inner.ok THEN [inner EXCEPT !.file = [file EXCEPT !.file = inner.file]] ELSE Throw
    [] file.k = "aes" -> LET inner == Open(file.file, mode, create, disk) IN
                         IF inner.ok THEN [inner EXCEPT !.file = [file EXCEPT !.file = inner.file]] ELSE Throw
    [] OTHER -> [ok |-> TRUE, missing |-> FALSE, file |-> file, disk |-> disk]

Decrypt(cell, key, iv, ctr) ==
  IF DOMAIN cell = {"cell", "key", "iv", "ctr"} /\ cell.key = key /\ cell.iv = iv /\ cell.ctr = ctr THEN cell.cell ELSE Garbage
\* a read ahead of which the stream has been moved; <<>> as .cells when nothing is to be read
AesReadStart(file, inner, offset) ==
  [inner EXCEPT !.cells = [i \in DOMAIN @ |-> Decrypt(@[i], file.key, file.iv, file.at + i - 1)]]
AesRead(file, inner, offset) ==
  [inner EXCEPT !.cells = [i \in DOMAIN @ |-> Decrypt(@[i], file.key, file.iv, file.at + offset + i - 1)]]
RECURSIVE Read(_, _, _, _)
Read(file, offset, n, disk) ==
  CASE file.k = "host" -> IF file.open = "no" \/ offset + n > Len(disk[file.path]) THEN Throw
                          ELSE [ok |-> TRUE, cells |-> SubSeq(disk[file.path], offset + 1, offset + n)]
    [] file.k = "view" -> IF file.n = 0 THEN [ok |-> TRUE, cells |-> <<>>]
                          ELSE IF offset + n > file.n THEN Throw
                          ELSE Read(file.file, file.offset + offset, n, disk)
    [] file.k = "aes" -> IF n = 0 THEN [ok |-> TRUE, cells |-> <<>>]
                         ELSE LET inner == Read(file.file, offset, n, disk) IN
                              IF inner.ok THEN AesRead(file, inner, offset) ELSE Throw
    [] file.k = "dummy" -> IF offset # 0 THEN Throw ELSE [ok |-> TRUE, cells |-> [i \in 1 .. n |-> <<"zero", 0, 0>>]]
    [] OTHER -> Throw
RECURSIVE Overwrite(_, _, _, _)
Overwrite(file, offset, cells, disk) ==
  CASE file.k = "host" -> IF Len(disk[file.path]) - offset < Len(cells) \/ file.open # "rw" THEN Throw
                          ELSE [ok |-> TRUE, file |-> [file EXCEPT !.pend = IF cells = <<>> THEN @ ELSE <<[at |-> offset, cells |-> cells]>>]]
    [] file.k = "view" -> IF offset + Len(cells) > file.n THEN Throw
                          ELSE LET inner == Overwrite(file.file, file.offset + offset, cells, disk) IN
                               IF inner.ok THEN [ok |-> TRUE, file |-> [file EXCEPT !.file = inner.file]] ELSE Throw
    [] OTHER -> Throw

-----------------------------------------------------------------------------
(* NCCHOpenExeFSSection on an opened NCCH: the keys, the region and the    *)
(* counter with which the section that is asked for is read.               *)
IsEncrypted(header) == ~header.plain
KeysOf(header) == IF ~IsEncrypted(header) \/ header.fixed THEN <<"zero", "zero">> ELSE Slot
KeyIndexAlways(header, name) == header.method
KeyIndex(header, name) == IF header.method = 1 THEN (IF name = ".code" THEN 1 ELSE 0) ELSE 0
Closed(file) == WithLeaf(file, CloseStream(Leaf(file)))
Wrap(encrypted, view, at, key, iv) == [ok |-> TRUE, file |-> IF encrypted THEN AESEncryptedFile(view, at, key, iv) ELSE view]
IsIVFC(cell) == IsCell(cell) /\ cell[2] = "romfs" /\ cell[3] = 0
OpenRomFS(ncch, header, disk) ==
  LET magic == Read(ncch, header.romfs, 1, disk)
      found == magic.ok /\ IsIVFC(magic.cells[1])
      encrypted == IsEncrypted(header) /\ ~found
  IN  IF ~magic.ok \/ (~found /\ ~encrypted) THEN Throw
      ELSE Wrap(encrypted, FileView(Closed(ncch), header.romfs, header.romsize, <<"none">>), 0, KeysOf(header)[header.method + 1], 3)
OpenExeFS(ncch, header, name, disk) ==
  LET raw == Read(ncch, header.exefs, 1, disk).cells[1]
      encrypted == IsEncrypted(header) /\ "files" \notin DOMAIN raw
      exefs == IF encrypted THEN Decrypt(raw, KeysOf(header)[1], 2, 0) ELSE raw
      found == {i \in 1 .. 2 : "files" \in DOMAIN exefs /\ exefs.files[i].name = name}
      section == exefs.files[CHOOSE i \in found : TRUE]
      hash == Reverse(exefs.hashes)[CHOOSE i \in found : TRUE]
  IN  IF found = {} THEN Throw
      ELSE Wrap(encrypted, FileView(Closed(ncch), header.exefs + 1 + section.offset, section.size, hash),
                1 + section.offset, KeysOf(header)[KeyIndex(header, name) + 1], 2)
NCCHOpenExeFSSection(ncch, type, name, disk) ==
  LET header == Read(ncch, 0, 1, disk).cells[1]
  IN  CASE type = 0 -> OpenRomFS(ncch, header, disk)
        [] name = "logo" /\ header.logo # 0 -> [ok |-> TRUE, file |-> FileView(ncch, header.logo, 1, <<header.id, "logo">>)]
        [] OTHER -> OpenExeFS(ncch, header, name, disk)

\* GetPartitionFromId on a card; a CCI holds its partitions behind a table
GetPartitionFromId(t, content, disk) ==
  IF content # 0 THEN Throw
  ELSE IF t.card = "cci" THEN LET table == disk[Path(t)][1] IN
                              [ok |-> TRUE, file |-> FileView(HostFile(Path(t)), table.offset, table.size, <<"none">>)]
  ELSE [ok |-> TRUE, file |-> HostFile(Path(t))]
\* "missing" is the exception that ArchiveProgramDataFromTitleId looks for
OpenNCCHSubFile(t, content, type, name, disk) ==
  IF t.media = 0 /\ t.hle THEN IF content = 0 /\ type = 1 THEN [ok |-> TRUE, missing |-> FALSE, file |-> DummyExeFSFile] ELSE Throw
  ELSE LET part == IF t.media = 2 THEN GetPartitionFromId(t, content, disk)
                   ELSE [ok |-> TRUE, file |-> HostFile(IF content = 0 THEN Path(t) ELSE <<"none", content>>)]
           opened == Open(part.file, "ro", FALSE, disk)
       IN  IF ~part.ok \/ ~opened.ok THEN Throw
           ELSE IF opened.missing THEN [ok |-> TRUE, missing |-> TRUE]
           ELSE LET sub == NCCHOpenExeFSSection(opened.file, type, name, disk)
                IN  IF sub.ok THEN [ok |-> TRUE, missing |-> FALSE, file |-> sub.file] ELSE Throw

-----------------------------------------------------------------------------
(* PxiFS *)
FirstDisk == [p \in {Path(t) : t \in {u \in Titles : ~u.hle /\ (u.media = 2 \/ u.id \in Installed)}} |->
                ImageOf(CHOOSE t \in Titles : Path(t) = p)]
First == [archives |-> [h \in {} |-> 0], nextArchive |-> 0, files |-> [h \in {} |-> NoFile], nextFile |-> 0,
               programs |-> [h \in {} |-> 0], nextProgram |-> 0, disk |-> FirstDisk, fault |-> FALSE,
               want |-> [h \in {} |-> "none"], truth |-> FirstDisk, mixed |-> {}]
MissingAllowed(t) == t.id = "probed"    \* one of the three titles that system software probes
Fault == \* nothing of what the emulator had in memory is left
  pxi' = [pxi EXCEPT !.archives = <<>>, !.files = <<>>, !.programs = <<>>, !.nextArchive = 0, !.nextFile = 0, !.nextProgram = 0,
                     !.disk = <<>>, !.want = <<>>, !.truth = <<>>, !.mixed = {}, !.fault = TRUE]
Running == ~pxi.fault
Extend(f, key, value) == [x \in DOMAIN f \cup {key} |-> IF x = key THEN value ELSE f[x]]

\* OpenArchive: the archive that the path names keeps a copy of the program's title
OpenArchive ==
  /\ Running /\ pxi.nextArchive < MaxArchive
  /\ \E archive \in [a : {"unknown", "save"}] \cup [a : {"title"}, t : Titles]
                    \cup [a : {"program"}, t : {pxi.programs[p] : p \in DOMAIN pxi.programs}] :
       pxi' = [pxi EXCEPT !.archives = Extend(@, pxi.nextArchive, archive), !.nextArchive = @ + 1]
\* media that are not supported, an unknown program handle or archive id
OpenArchiveFails == Running /\ pxi.nextArchive < MaxArchive /\ Fault
CloseArchive ==
  /\ Running
  /\ \E h \in DOMAIN pxi.archives : pxi' = [pxi EXCEPT !.archives = Restrict(@, DOMAIN @ \ {h})]

Handles(path) == {h \in DOMAIN pxi.files : Leaf(pxi.files[h]).k = "host" /\ Leaf(pxi.files[h]).path = path}
\* the end of OpenFile: the file is opened for reading and writing and gets a handle
Enter(file, create, want) ==
  LET opened == Open(file, "rw", create, pxi.disk)
      path == IF Leaf(file).k = "host" THEN Leaf(file).path ELSE <<"none", 0>>
  IN  IF ~opened.ok THEN Fault
      ELSE IF opened.missing THEN UNCHANGED pxi
      ELSE pxi' = [pxi EXCEPT !.files = Extend(@, pxi.nextFile, opened.file), !.nextFile = @ + 1, !.disk = opened.disk,
                              !.want = Extend(@, pxi.nextFile, want),
                              !.truth = IF create /\ Leaf(file).k = "host" THEN Extend(@, path, <<>>) ELSE @,
                              !.mixed = IF Handles(path) # {} THEN @ \cup {path} ELSE IF create THEN @ \ {path} ELSE @]
OpenSaveFile(create) == \E s \in SaveIds : Enter(HostFile(SavePath(s)), create, "save")
OpenTitleFile(t, create) ==
  \E content \in {0, 1}, type \in 0 .. 2, name \in {".code", "icon", "logo"} :
    LET sub == OpenNCCHSubFile(t, content, type, name, pxi.disk)
    IN  IF ~sub.ok THEN Fault
        ELSE IF sub.missing THEN IF MissingAllowed(t) THEN UNCHANGED pxi ELSE Fault
        ELSE Enter(sub.file, create, IF type = 0 THEN "romfs" ELSE name)
\* ArchiveProgramDataFromProgramId: twelve bytes of path, the first content
OpenProgramFile(t, create) ==
  \E type \in 0 .. 2, name \in {".code", "icon", "logo"} :
    LET sub == OpenNCCHSubFile(t, 0, type, name, pxi.disk)
    IN  IF ~sub.ok THEN Fault
        ELSE IF sub.missing THEN IF MissingAllowed(t) THEN UNCHANGED pxi ELSE Fault
        ELSE Enter(sub.file, create, IF type = 0 THEN "romfs" ELSE name)
\* the archive that is not implemented gives no file, and neither does any archive for a path of text
OpenNoFile == pxi' = [pxi EXCEPT !.files = Extend(@, pxi.nextFile, NoFile), !.nextFile = @ + 1, !.want = Extend(@, pxi.nextFile, "none")]
OpenFile ==
  /\ Running /\ pxi.nextFile < MaxFile
  /\ \E h \in DOMAIN pxi.archives, create \in BOOLEAN :
       LET archive == pxi.archives[h] IN
       CASE archive.a = "unknown" -> OpenNoFile
         [] archive.a = "save" -> OpenSaveFile(create)
         [] archive.a = "title" -> OpenTitleFile(archive.t, create)
         [] OTHER -> OpenProgramFile(archive.t, create)

\* a command on a file moves its stream first, so that a write that was held back reaches the disk
Moved(h) == [files |-> [pxi.files EXCEPT ![h] = Flushed(@)], disk |-> Synced(pxi.disk, Leaf(pxi.files[h]))]
ReadFile ==
  /\ Running
  /\ \E h \in DOMAIN pxi.files, offset \in 0 .. 1, n \in 0 .. 2 :
       LET result == Read(pxi.files[h], offset, n, Moved(h).disk)
       IN  IF result.ok THEN pxi' = [pxi EXCEPT !.files = Moved(h).files, !.disk = Moved(h).disk] ELSE Fault
\* the file system service writes to saves only
WriteFile ==
  /\ Running
  /\ \E h \in DOMAIN pxi.files, offset \in 0 .. MaxSize, cells \in {<<>>, <<<<"data", 1, 1>>>>, <<<<"data", 2, 1>>, <<"data", 2, 2>>>>} :
       /\ pxi.files[h].k \in {"host", "aes", "null"}
       /\ LET result == Overwrite(pxi.files[h], offset, cells, Moved(h).disk)
          IN  IF result.ok THEN pxi' = [pxi EXCEPT !.files = [Moved(h).files EXCEPT ![h] = result.file], !.disk = Moved(h).disk,
                                                   !.truth[result.file.path] = Put(@, offset, cells)]
              ELSE Fault
GetFileSize == Running /\ \E h \in DOMAIN pxi.files : IF pxi.files[h].k = "null" THEN Fault ELSE UNCHANGED pxi
\* resize_file goes by the path and not through the stream
Resized(cells, n) == [i \in 1 .. n |-> IF i <= Len(cells) THEN cells[i] ELSE <<"zero", 0, 0>>]
SetFileSize ==
  /\ Running
  /\ \E h \in DOMAIN pxi.files, n \in 0 .. MaxSize :
       CASE pxi.files[h].k = "null" -> Fault
         [] pxi.files[h].k = "host" ->
              LET path == pxi.files[h].path IN
              pxi' = [pxi EXCEPT !.disk[path] = Resized(@, n), !.truth[path] = Resized(@, n),
                                 !.mixed = IF pxi.files[h].pend # <<>> THEN @ \cup {path} ELSE @]
         [] OTHER -> UNCHANGED pxi
\* only views know a hash
GetFileSHA256 ==
  /\ Running
  /\ \E h \in DOMAIN pxi.files : IF pxi.files[h].k = "view" /\ pxi.files[h].hash # <<"none">> THEN UNCHANGED pxi ELSE Fault
CloseFileOnly(h) == [files |-> Restrict(pxi.files, DOMAIN pxi.files \ {h}), disk |-> pxi.disk]
CloseFile(h) == [files |-> Restrict(pxi.files, DOMAIN pxi.files \ {h}), disk |-> Synced(pxi.disk, Leaf(pxi.files[h]))]
HandleCloseFile ==
  /\ Running
  /\ \E h \in DOMAIN pxi.files :
       pxi' = [pxi EXCEPT !.files = CloseFile(h).files, !.disk = CloseFile(h).disk, !.want = Restrict(@, DOMAIN @ \ {h})]
FSThread == \/ OpenArchive \/ OpenArchiveFails \/ CloseArchive \/ OpenFile \/ ReadFile \/ WriteFile \/ GetFileSize \/ SetFileSize
            \/ GetFileSHA256 \/ HandleCloseFile

-----------------------------------------------------------------------------
(* PxiPM *)
\* the header of a card may be stored in the clear although the flags say otherwise; that of the NAND may not
ExHeaderOnCard(t, disk) ==
  LET part == GetPartitionFromId(t, 0, disk)
      raw == Read(Open(part.file, "ro", FALSE, disk).file, 1, 1, disk).cells[1]
  IN  IF t.enc = "plain" \/ IsCell(raw) THEN raw ELSE Decrypt(raw, Slot[1], 1, 0)
ExHeaderOnNAND(t, disk) == IF t.enc = "plain" THEN disk[Path(t)][2] ELSE Decrypt(disk[Path(t)][2], Slot[1], 1, 0)
GetExtendedHeader(t, disk) ==
  IF t.media = 0 THEN IF t.hle THEN <<t.id, "exheader", 0>> ELSE ExHeaderOnNAND(t, disk) ELSE ExHeaderOnCard(t, disk)
PMGetExtendedHeader ==
  /\ Running
  /\ \E p \in DOMAIN pxi.programs :
       LET t == pxi.programs[p] IN
       IF t.media = 0 /\ ~t.hle /\ Path(t) \notin DOMAIN pxi.disk THEN Fault ELSE UNCHANGED pxi
PMRegisterProgram ==
  /\ Running
  /\ \E t \in Titles :
       IF \E p \in DOMAIN pxi.programs : pxi.programs[p].id = t.id THEN Fault
       ELSE pxi.nextProgram < MaxProgram /\ pxi' = [pxi EXCEPT !.programs = Extend(@, pxi.nextProgram, t), !.nextProgram = @ + 1]
PMUnregisterProgram ==
  /\ Running
  /\ \E p \in DOMAIN pxi.programs : pxi' = [pxi EXCEPT !.programs = Restrict(@, DOMAIN @ \ {p})]
PMThread == PMGetExtendedHeader \/ PMRegisterProgram \/ PMUnregisterProgram

(* PxiAM: the titles that were found when the process started. *)
GetTitleCount(media) == IF media = 0 THEN Cardinality(Installed) ELSE IF media = 2 THEN 1 ELSE 0
AMHandleGetTitleList(n, media) == IF media = 0 THEN (IF n > Cardinality(Installed) THEN Cardinality(Installed) ELSE n)
                                  ELSE IF media = 1 THEN 0 ELSE IF n > 1 THEN -1 ELSE 1
AMThread ==
  /\ Running
  /\ \E media \in 0 .. 3, n \in 0 .. 2 : IF media = 3 \/ AMHandleGetTitleList(n, media) = -1 THEN Fault ELSE UNCHANGED pxi

-----------------------------------------------------------------------------
Init == pxi = First
Next == FSThread \/ PMThread \/ AMThread
Spec == Init /\ [][Next]_vars

-----------------------------------------------------------------------------
(* Whatever the container, its encryption and its flags, every handle that *)
(* was given out for a section of a title reads the plain contents of that *)
(* section of that title, at every offset, and the announced hash is the   *)
(* hash of that section; and a program's extended header is legible        *)
(* (NCCHOpenExeFSSection, AESEncryptedFile::Read, FileView::Read,          *)
(* GetExtendedHeader).  Extended headers of titles with the fixed key and  *)
(* of stripped titles on the NAND are left out: the code does not treat    *)
(* them.                                                                   *)
Title(h) == LET path == Leaf(pxi.files[h]).path IN CHOOSE t \in Titles : Path(t) = path
Length(name) == IF name \in {".code", "romfs"} THEN 2 ELSE 1
ReadsSection(h) ==
  LET file == pxi.files[h]
      name == pxi.want[h]
      n == IF name = "romfs" /\ ~Title(h).romfs THEN 0 ELSE Length(name)
  IN  /\ GetSize(file, pxi.disk) = n
      /\ \A offset \in 0 .. n : \A size \in 0 .. n - offset :
           LET result == Read(file, offset, size, pxi.disk) IN
           result.ok /\ result.cells = [i \in 1 .. size |-> Plain(Title(h), name, offset + i - 1)]
      /\ file.k = "view" /\ file.hash # <<"none">> => file.hash = <<Title(h).id, name>>
SectionsServed ==
  /\ \A h \in DOMAIN pxi.files : pxi.want[h] \in {"romfs", ".code", "icon", "logo"} /\ pxi.files[h].k # "dummy" => ReadsSection(h)
  /\ \A p \in DOMAIN pxi.programs :
       LET t == pxi.programs[p] IN
       t.enc # "fixed" /\ ~(t.enc = "stripped" /\ t.media = 0) /\ (t.hle \/ Path(t) \in DOMAIN pxi.disk)
         => GetExtendedHeader(t, pxi.disk) = Plain(t, "exheader", 0)

(* A save that one handle at a time works on keeps every write: what the   *)
(* stream holds back is what the disk lacks, and nothing is missing once   *)
(* the handle is closed (HostFile).  A file that is resized while a write  *)
(* is held back is left out: the resize goes past the stream.              *)
SavesKept ==
  \A path \in DOMAIN pxi.truth \ pxi.mixed :
    LET open == Handles(path) IN
    pxi.truth[path] = IF open = {} THEN pxi.disk[path] ELSE Synced(pxi.disk, Leaf(pxi.files[CHOOSE h \in open : TRUE]))[path]
=============================================================================
