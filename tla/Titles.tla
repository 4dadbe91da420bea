------------------------------- MODULE Titles -------------------------------
(***************************************************************************)
(* How titles get onto the emulated NAND: the front end's bootstrap, which *)
(* installs the CIA files of a game card's update partition, the tools     *)
(* install_cia and embed_title, and 3dsx_to_cia, which writes CIA files.   *)
(*                                                                         *)
(* A CIA file is its header, the content indexes of its mask and the       *)
(* pieces in the order they were written; a later piece destroys what it   *)
(* covers.  A file of the NAND is <<>> if it does not exist, Partial from  *)
(* the moment it is opened until its stream is closed, or a program.  A    *)
(* run may be killed at any time.  Files of a fixed content (HWCAL0,       *)
(* SecureInfo_A), certificate chains and logging are left out.             *)
(***************************************************************************)
EXTENDS Integers, Sequences, FiniteSets, SequencesExt

CONSTANTS Align,       \* cells of 64 bytes, to which the parts of a CIA are aligned
          HeaderSize,  \* cells of the header (0x20 bytes)
          MaskSize,    \* cells of the content mask (0x2000 bytes)
          Sizes,       \* cells of the parts of a CIA file that is written
          KeyFile,     \* lines [slot, type, key] of aes_keys.txt
          NumSlots,    \* slots there are, 0 .. NumSlots - 1
          Cards,       \* what can be inserted: [kind, update, logo]
          Images,      \* CIA files for install_cia
          Programs,    \* NCCH files [title, body] for embed_title
          Titles,      \* title ids
          Ids,         \* content ids
          Substitutes, \* titles that come with the emulator
          MaxRuns      \* runs of the front end and of the tools

VARIABLE host
vars == <<host>>

Partial == <<"partial">>
Throw == [throws |-> TRUE]
Fine == [throws |-> FALSE]
Hash(data) == <<"sha256", data>>
AlignUp(n) == ((n + Align - 1) \div Align) * Align
Sum(f, n) == FoldLeft(LAMBDA a, i : a + f[i], 0, [i \in 1 .. n |-> i])

-----------------------------------------------------------------------------
(* Keys and encryption.                                                    *)
LoadKeyDatabase(lines) ==
  IF \E i \in DOMAIN lines : lines[i].type \notin {"X", "Y", "N", "C"} \/ lines[i].slot >= NumSlots THEN Throw
  ELSE [throws |-> FALSE,
        keys |-> {lines[i] : i \in {i \in DOMAIN lines :
                    \A j \in i + 1 .. Len(lines) : lines[j].slot # lines[i].slot \/ lines[j].type # lines[i].type}}]
KeyOf(db, slot, type) == {k.key : k \in {k \in db.keys : k.slot = slot /\ k.type = type}}
Encrypted(key, iv, data) == <<"aes", key, iv, data>>
ProcessData(key, iv, data) ==
  IF Len(data) = 4 /\ data[1] = "aes" /\ data[2] = key /\ data[3] = iv THEN data[4] ELSE <<"garbage">>
\* (X ROL 2) XOR Y plus a constant, rotated: a term, since no property depends on the arithmetic
GenerateAESKey(x, y) == <<"generated", x, y>>
\* the title key of a ticket, or nothing if a key is missing
TitleKey(db, ticket) ==
  {ProcessData(GenerateAESKey(x, y), <<ticket.title>>, ticket.title_key) :
     x \in KeyOf(db, 1, "X"), y \in KeyOf(db, ticket.key_y, "C")}

-----------------------------------------------------------------------------
(* Reading a CIA file.                                                     *)
Begins(header) ==
  LET cert == AlignUp(header.header_size)
      ticket == cert + AlignUp(header.certs)
      tmd == ticket + AlignUp(header.ticket)
      content == tmd + AlignUp(header.tmd)
  IN [cert |-> cert, ticket |-> ticket, tmd |-> tmd, content |-> content, meta |-> content + AlignUp(header.content)]
Intact(pieces, i) == \A j \in i + 1 .. Len(pieces) :
  pieces[j].at + pieces[j].size <= pieces[i].at \/ pieces[i].at + pieces[i].size <= pieces[j].at
FoundAt(image, at) ==
  LET here == {i \in DOMAIN image.pieces : image.pieces[i].at = at /\ Intact(image.pieces, i)}
  IN IF here = {} THEN [k |-> "garbage", size |-> 0]
     ELSE LET p == image.pieces[CHOOSE i \in here : TRUE] IN [k |-> p.k, size |-> p.size, what |-> p.what]
\* anything but a signature type that is known throws
ParseSignedData(image, at, k) == LET p == FoundAt(image, at) IN IF p.k = k THEN [throws |-> FALSE, what |-> p.what, size |-> p.size] ELSE Throw

CheckHeader(image) == image.header.header_size = HeaderSize + MaskSize
ReadCertificates(image) == ParseSignedData(image, Begins(image.header).cert, "certs")
ReadTicket(image) == ParseSignedData(image, Begins(image.header).ticket, "ticket")
ReadTmd(image) == ParseSignedData(image, Begins(image.header).tmd, "tmd")
CheckInfoHashes(tmd) == tmd.records = Hash(tmd.groups)
\* the infos of a group are looked for at a byte offset that counts infos, so only those of a group
\* that starts at zero are found
CheckInfos(tmd) ==
  LET first == [g \in DOMAIN tmd.groups |-> Sum([i \in DOMAIN tmd.groups |-> tmd.groups[i].count], g - 1)]
  IN \A g \in DOMAIN tmd.groups : tmd.groups[g].count # 0 =>
       /\ tmd.groups[g].offset = first[g]
       /\ first[g] = 0 /\ tmd.groups[g].hash = Hash(SubSeq(tmd.infos, 1, tmd.groups[g].count))
\* content_mask[index / 8] & (~index % 8), with the sign of C++'s remainder
Bit(v, b) == (v \div (2 ^ b)) % 2 = 1
CheckMask(image, index) ==
  \E i \in image.mask : (i \div 8) = (index \div 8) /\ Bit((256 - ((index + 1) % 8)) % 256, 7 - (i % 8))
CheckSizes(image, tmd) ==
  /\ \A i \in DOMAIN tmd.infos : CheckMask(image, tmd.infos[i].index)
  /\ Sum([i \in DOMAIN tmd.infos |-> tmd.infos[i].size], Len(tmd.infos)) = image.header.content
  /\ ReadTmd(image).size = image.header.tmd

\* the contents in turn, each where the last one ended
ContentAt(image, tmd, i) == Begins(image.header).content + Sum([j \in DOMAIN tmd.infos |-> tmd.infos[j].size], i - 1)
ReadContentRaw(image, at) == LET p == FoundAt(image, at) IN IF p.k = "content" THEN p.what ELSE <<"garbage">>
Decrypted(db, ticket, info, data) ==
  {IF info.enc THEN ProcessData(key, <<"index", info.index>>, data) ELSE data :
     key \in IF info.enc THEN TitleKey(db, ticket) ELSE {<<"none">>}}
ReadContents(image, ticket, tmd, db) ==
  LET plain == [i \in DOMAIN tmd.infos |->
                  Decrypted(db, ticket, tmd.infos[i], ReadContentRaw(image, ContentAt(image, tmd, i)))]
  IN IF \A i \in DOMAIN plain : \E p \in plain[i] : Hash(p) = tmd.infos[i].hash
     THEN [throws |-> FALSE, contents |-> [i \in DOMAIN plain |-> CHOOSE p \in plain[i] : TRUE]] ELSE Throw

\* InstallCIA until "Beginning install": what is going to be written, and where, or Throw
ReadCIA(image, db) ==
  IF ~CheckHeader(image) \/ ReadCertificates(image).throws \/ ReadTicket(image).throws \/ ReadTmd(image).throws THEN Throw
  ELSE LET ticket == ReadTicket(image).what
           tmd == ReadTmd(image).what
           read == ReadContents(image, ticket, tmd, db)
       IN IF ~CheckInfoHashes(tmd) \/ ~CheckInfos(tmd) \/ ~CheckSizes(image, tmd) \/ read.throws THEN Throw
          ELSE [throws |-> FALSE, title |-> ticket.title, infos |-> tmd.infos, main |-> tmd.main + 1, contents |-> read.contents]

\* the tools read the same parts and only print the hashes; install_cia refuses encrypted contents
ToolParts(image) == [cert |-> ReadCertificates(image), ticket |-> ReadTicket(image)]
ToolTmd(image) == LET p == ReadTmd(image) IN IF p.throws THEN p ELSE IF Len(p.what.infos) = 1 THEN p ELSE Throw
ToolParseCIA(image) ==
  LET parts == ToolParts(image)
      tmd == ToolTmd(image)
  IN IF parts.cert.throws \/ parts.ticket.throws \/ tmd.throws THEN Throw
     ELSE IF tmd.what.infos[1].enc \/ FoundAt(image, Begins(image.header).meta).k # "meta" THEN Throw
     ELSE [throws |-> FALSE, title |-> tmd.what.title, body |-> ReadContentRaw(image, Begins(image.header).content)]

-----------------------------------------------------------------------------
(* Writing a CIA file (3dsx_to_cia): certificates from a template, a       *)
(* ticket and a TMD with one content, and the check that reads it again.   *)
Piece(k, at, size, what) == [k |-> k, at |-> at, size |-> size, what |-> what]
SaveSignedData(pieces, k, at, size, what) == Append(pieces, Piece(k, at, size, what))
MakeCIA(title, body, certs, ticket, tmd, content) ==
  [title |-> title, body |-> body, certs |-> certs, ticket |-> ticket, tmd |-> tmd, content |-> content,
   header |-> [header_size |-> HeaderSize]]
WriteCIA(cia) ==
  LET mask_begin == MaskSize
      cert_begin == AlignUp(mask_begin)
      ticket_begin == cert_begin + AlignUp(cia.certs)
      tmd_begin == ticket_begin + AlignUp(cia.ticket)
      content_begin == tmd_begin + AlignUp(cia.tmd)
      meta_begin == content_begin + AlignUp(cia.content)
      infos == <<[id |-> 0, index |-> 0, enc |-> FALSE, size |-> cia.content, hash |-> Hash(cia.body)]>>
      groups == <<[offset |-> 0, count |-> 1, hash |-> Hash(infos)]>>
      tmd == [title |-> cia.title, records |-> Hash(groups), groups |-> groups, infos |-> infos, main |-> 0]
      ticket == [title |-> cia.title, title_key |-> <<"none">>, key_y |-> 0]
  IN [header |-> [header_size |-> cia.header.header_size, certs |-> cia.certs, ticket |-> cia.ticket, tmd |-> cia.tmd,
                  content |-> cia.content, meta |-> 1],
      mask |-> {infos[i].index : i \in DOMAIN infos},
      pieces |-> SaveSignedData(SaveSignedData(<<Piece("certs", cert_begin, cia.certs, <<>>)>>,
                                               "ticket", ticket_begin, cia.ticket, ticket),
                                "tmd", tmd_begin, cia.tmd, tmd)
                 \o <<Piece("content", content_begin, cia.content, cia.body), Piece("meta", meta_begin, 1, <<>>),
                      Piece("header", 0, HeaderSize, <<>>), Piece("mask", mask_begin, MaskSize, <<>>)>>]
ConvertedParts(image) == [cert |-> ReadCertificates(image), ticket |-> ReadTicket(image)]
ConvertedTmd(image) == ToolTmd(image)
ConvertedContent(image) == [body |-> ReadContentRaw(image, Begins(image.header).content), meta |-> FoundAt(image, Begins(image.header).meta).k]
ParseConverted(image) ==
  IF ConvertedParts(image).cert.throws \/ ConvertedParts(image).ticket.throws \/ ConvertedTmd(image).throws
     \/ ConvertedContent(image).meta # "meta"
  THEN Throw ELSE [throws |-> FALSE, body |-> ConvertedContent(image).body]

-----------------------------------------------------------------------------
(* The host: what exists on the NAND, the placeholder logo, and the run in *)
(* progress.  good[t] is what the title t has to boot, if an installation  *)
(* of it was the last thing that happened to it; <<>> if nothing is known. *)
Idle == [k |-> "idle"]
Init == host = [nand |-> [t \in Titles |-> [i \in Ids |-> <<>>]], logo |-> <<>>, op |-> Idle, runs |-> 0,
                good |-> [t \in Titles |-> <<>>]]

Started(h, op) == [h EXCEPT !.op = op, !.runs = @ + 1]
\* a run that ends early: what happened to the title it was at is not known any more
Abandoned(h, t) == [h EXCEPT !.op = Idle, !.good = [x \in Titles |-> IF x = t THEN <<>> ELSE @[x]]]

\* LoadGameCard: the first format that the file can be loaded as
LoadGameCard(card) == IF card.kind \in {"3dsx", "cxi", "cci"} THEN card.kind ELSE "unrecognized"
GetPartitionFromId(card) == IF LoadGameCard(card) = "cci" THEN card.update ELSE <<>>

Bootstrap ==
  /\ host.op.k = "idle" /\ host.runs < MaxRuns
  /\ \E card \in Cards :
       LET db == LoadKeyDatabase(KeyFile)
       IN host' = IF LoadGameCard(card) = "unrecognized" \/ GetPartitionFromId(card) = <<>> \/ db.throws
                  THEN Started(host, Idle)
                  ELSE Started(host, [k |-> "bootstrap", card |-> card, offset |-> 0, installed |-> <<>>, before |-> host.nand])

\* the metadata of the update partition's files, one after the other, names padded to four bytes
Padded(n) == ((n + 3) \div 4) * 4
MetadataSize == 8
EntryAt(files, i) == Sum([j \in DOMAIN files |-> MetadataSize + Padded(files[j].name_size)], i - 1)
AfterName(offset, file) == offset + MetadataSize + Padded(file.name_size)
NextFile ==
  /\ host.op.k = "bootstrap"
  /\ LET op == host.op
         files == op.card.update
         here == {i \in DOMAIN files : EntryAt(files, i) = op.offset}
     IN /\ op.offset < EntryAt(files, Len(files) + 1)
        /\ IF here = {} THEN host' = Abandoned(host, "none")
           ELSE LET f == files[CHOOSE i \in here : TRUE]
                    next == AfterName(op.offset, f)
                IN IF ~f.cia THEN host' = [host EXCEPT !.op.offset = next]
                   ELSE LET read == ReadCIA(f.image, LoadKeyDatabase(KeyFile))
                        IN host' = IF read.throws
                                   THEN [host EXCEPT !.op = [k |-> "refused", image |-> f.image, before |-> host.nand]]
                                   ELSE [host EXCEPT !.op = [k |-> "install", card |-> op.card, offset |-> next, before |-> op.before,
                                                             installed |-> op.installed, image |-> f.image, read |-> read, n |-> 1, open |-> FALSE]]

\* the loop of InstallCIA: a file is opened, and written, and closed; the main content is copied
OpenContent ==
  /\ host.op.k = "install" /\ ~host.op.open /\ host.op.n <= Len(host.op.read.contents)
  /\ LET op == host.op
     IN host' = [host EXCEPT !.nand[op.read.title][op.read.infos[op.n].id] = Partial, !.op.open = TRUE,
                             !.good[op.read.title] = <<>>]
\* a main content is only copied where no 00000000.cxi exists
CopyMainOnce(nand, read, n) ==
  IF n = read.main /\ read.infos[n].id # 0 /\ nand[read.title][0] = <<>>
  THEN [nand EXCEPT ![read.title][0] = nand[read.title][read.infos[n].id]] ELSE nand
CopyMain(nand, read, n) ==
  IF n = read.main /\ read.infos[n].id # 0
  THEN [nand EXCEPT ![read.title][0] = nand[read.title][read.infos[n].id]] ELSE nand
WriteContent ==
  /\ host.op.k = "install" /\ host.op.open
  /\ LET op == host.op
         written == [host.nand EXCEPT ![op.read.title][op.read.infos[op.n].id] = op.read.contents[op.n]]
     IN host' = IF op.n # op.read.main /\ op.read.infos[op.n].id = 0
                THEN Abandoned([host EXCEPT !.nand = written], op.read.title)
                ELSE [host EXCEPT !.nand = CopyMain(written, op.read, op.n), !.op.n = @ + 1, !.op.open = FALSE]
EndInstall ==
  /\ host.op.k = "install" /\ ~host.op.open /\ host.op.n > Len(host.op.read.contents)
  /\ LET op == host.op
     IN host' = [host EXCEPT !.good[op.read.title] = op.image.truth[op.read.main],
                             !.op = [k |-> "bootstrap", card |-> op.card, offset |-> op.offset, before |-> op.before,
                                     installed |-> Append(op.installed, op.image)]]

\* substitute titles where there is none, then the logo, whose file is opened before it is known to exist
Substitute(t) == <<"substitute", t>>
CopySubstitutes ==
  /\ host.op.k = "bootstrap" /\ host.op.offset = EntryAt(host.op.card.update, Len(host.op.card.update) + 1)
  /\ host' = [host EXCEPT !.nand = [t \in Titles |-> IF t \in Substitutes /\ @[t][0] = <<>> THEN [@[t] EXCEPT ![0] = Substitute(t)] ELSE @[t]],
                          !.op = [k |-> "logo", card |-> host.op.card, before |-> host.op.before, installed |-> host.op.installed]]
DumpLogo ==
  /\ host.op.k = "logo"
  /\ host' = IF host.op.card.logo = <<>> THEN Abandoned([host EXCEPT !.logo = Partial], "none")
             ELSE [host EXCEPT !.logo = host.op.card.logo,
                               !.op = [k |-> "done", before |-> host.op.before, installed |-> host.op.installed, logo |-> host.op.card.logo]]
Return == /\ host.op.k \in {"refused", "done", "converted"} /\ host' = [host EXCEPT !.op = Idle]

\* install_cia: one file, named after the TMD, which must not exist unless it is forced
ToolInstall ==
  /\ host.op.k = "idle" /\ host.runs < MaxRuns
  /\ \E image \in Images, force \in BOOLEAN :
       LET cia == ToolParseCIA(image)
       IN host' = IF cia.throws THEN Started(host, Idle)
                  ELSE IF ~force /\ host.nand[cia.title][0] # <<>> THEN Started(host, Idle)
                  ELSE Started([host EXCEPT !.nand[cia.title][0] = Partial, !.good[cia.title] = <<>>],
                               [k |-> "tool", title |-> cia.title, body |-> cia.body, truth |-> image.truth[1]])
ToolClose ==
  /\ host.op.k = "tool"
  /\ host' = [host EXCEPT !.nand[host.op.title][0] = host.op.body, !.op = Idle, !.good[host.op.title] = host.op.truth]

\* embed_title: a copy under the program id, which fails if there is a file
Embed ==
  /\ host.op.k = "idle" /\ host.runs < MaxRuns
  /\ \E p \in Programs :
       host' = IF host.nand[p.title][0] # <<>> THEN Started(host, Idle)
               ELSE Started([host EXCEPT !.nand[p.title][0] = p.body, !.good[p.title] = p.body], Idle)

\* 3dsx_to_cia: whatever reading its own file says, the file stays
Convert ==
  /\ host.op.k = "idle" /\ host.runs < MaxRuns
  /\ \E p \in Programs, certs \in Sizes, ticket \in Sizes, tmd \in Sizes, content \in Sizes :
       LET image == WriteCIA(MakeCIA(p.title, p.body, certs, ticket, tmd, content))
       IN host' = Started(host, [k |-> "converted", image |-> image, body |-> p.body, verdict |-> ParseConverted(image).throws])

\* the process is killed: a file that was open stays as it is
InProgress == IF host.op.k = "install" THEN host.op.read.title ELSE IF host.op.k = "tool" THEN host.op.title ELSE "none"
Kill == /\ host.op.k \in {"bootstrap", "install", "logo", "tool"}
        /\ host' = Abandoned(host, InProgress)

Next == \/ Bootstrap \/ NextFile \/ OpenContent \/ WriteContent \/ EndInstall \/ CopySubstitutes \/ DumpLogo \/ Return
        \/ ToolInstall \/ ToolClose \/ Embed \/ Convert \/ Kill
Spec == Init /\ [][Next]_vars

-----------------------------------------------------------------------------
(* image.truth holds the programs that were put into a CIA file.           *)

\* A title boots what the last installation of it brought, whatever was installed before under
\* which content ids, and whatever run was killed at another title (InstallCIA, install_cia).
InstalledRight ==
  \A t \in Titles : (host.good[t] # <<>> /\ InProgress # t) => host.nand[t][0] = host.good[t]

\* A CIA file that is refused leaves the NAND as it was; one whose contents and hashes are sound, in
\* one group and with no index that is 7 modulo 8, is not refused (InstallCIA).
Sound(image) ==
  LET tmd == image.sound
  IN tmd /\ image.header.header_size = HeaderSize + MaskSize /\ Len(image.groups) = 1 /\ 7 \notin {i % 8 : i \in image.mask}
RefusedUntouched == host.op.k = "refused" => host.nand = host.op.before /\ ~Sound(host.op.image)

\* After a bootstrap every title of the update partition is there as the last file for it says, a
\* substitute stands only where nothing else did, and the logo is whole (main, DumpLogo).
BootstrapDone ==
  host.op.k = "done" =>
    /\ host.logo = host.op.logo
    /\ \A n \in DOMAIN host.op.installed :
         LET image == host.op.installed[n]
             later == {m \in n + 1 .. Len(host.op.installed) : host.op.installed[m].title = image.title}
         IN later = {} => host.nand[image.title][0] = image.truth[image.main]
    /\ \A t \in Titles : host.nand[t][0] = Substitute(t) => host.op.before[t][0] \in {<<>>, Substitute(t)}
    /\ \A t \in Substitutes : host.nand[t][0] # <<>>

\* Behind the certificates the reader of a CIA file that 3dsx_to_cia wrote looks for every part where
\* the writer put it, and every hash is that of what it finds: put right what the header leaves out,
\* the mask, and the file can be read and passes the installer's checks (WriteCIA, ParseCIA).
Repaired(image) == [header |-> [image.header EXCEPT !.header_size = MaskSize], mask |-> image.mask,
                    pieces |-> SelectSeq(image.pieces, LAMBDA p : p.k # "mask")]
ConvertedRight ==
  host.op.k = "converted" =>
    LET image == Repaired(host.op.image)
        read == ParseConverted(image)
    IN /\ ~read.throws /\ read.body = host.op.body
       /\ LET tmd == ReadTmd(image).what
          IN CheckInfoHashes(tmd) /\ CheckInfos(tmd) /\ CheckSizes(image, tmd) /\ tmd.infos[1].hash = Hash(read.body)
=============================================================================
