----------------------------- MODULE FileSystem -----------------------------
(***************************************************************************)
(* The fs module: archives over directories of the host, files and         *)
(* directories in them, the sessions that serve these, link files and sub  *)
(* files, save data that is created and formatted, and the registration of *)
(* processes.                                                              *)
(*                                                                         *)
(* The host keeps a tree of inodes for each archive; a file that is open   *)
(* holds its inode also when its path is gone.  A File object lives as     *)
(* long as a session or a sub file refers to it.  One turn of the service  *)
(* loop is one step.  Results are the error codes of replies; any other    *)
(* exception stops the emulator, so there is no step that raises one.      *)
(* Files have sizes but no contents.  What a stream of the host holds back *)
(* is modelled where it shows in a size: zeroes that SetSize appends, which *)
(* are assumed to fit into the buffer of the stream.                       *)
(* test_mode is true in the code.                                          *)
(* Paths name places inside the archive.                                   *)
(***************************************************************************)
EXTENDS Integers, Sequences, FiniteSets, SequencesExt, FiniteSetsExt, Functions

CONSTANTS Programs,     \* sets of archives of {"save", "user", "boss", "system", "host", "ncch"} that a program uses
          Nodes,        \* paths in an archive, <<>> is its root
          SaveMedia,    \* where the save data of programs is: "sd" or "card"
          SectionSize,  \* size of the NCCH section that PXI serves, in cells
          HeaderSize,   \* the part of it that fs skips
          MaxSize,      \* bound on file sizes
          MaxHandle,    \* bound on the handles of the module
          MaxArchives   \* bound on archive handles

Kinds == UNION Programs
Absent == 0
Dir == -1
Bases == {"save", "ext", "system", "host"}
Base(a) == CASE a \in {"user", "boss"} -> "ext" [] OTHER -> a
Trees == Kinds \ {"ncch"}
Port == [kind |-> "port"]
User == [kind |-> "user"]
FileOf(id) == [kind |-> "file", id |-> id]
DirOf(a, left) == [kind |-> "dir", archive |-> a, left |-> left]
Closed == [class |-> "closed", sub |-> FALSE]
NoFunction == [x \in {} |-> x]

VARIABLE fs
vars == <<fs>>

Throw(s, what) == IF s.fault = "none" THEN [s EXCEPT !.fault = what] ELSE s
Reply(s, result) == [s EXCEPT !.result = result]
Fresh(used) == CHOOSE i \in 1 .. Cardinality(used) + 1 : i \notin used

-----------------------------------------------------------------------------
(* Objects and inodes that nothing refers to end.                          *)

Sessions(s, id) == {i \in DOMAIN s.data : s.data[i] = FileOf(id)}
IsSub(s, id) == s.file[id].class = "sub"
SubsOf(s, id) == {x \in DOMAIN s.file : IsSub(s, x) /\ s.file[x].parent = id}
SizeOf(s, inode) == s.inode[inode]
\* the stream of a save data file writes out the zeroes that it held back, up to the place they are for
Flushed(s, id) ==
  LET f == s.file[id]
  IN  [s EXCEPT !.inode[f.inode] = Max({@, f.held}), !.file[id].held = 0]
\* so do the streams of objects that end
Closing(s, dead) ==
  [s EXCEPT !.inode = [i \in DOMAIN @ |->
     Max({@[i]} \cup {s.file[x].held : x \in {y \in dead : s.file[y].class = "save" /\ s.file[y].inode = i}})]]
\* sub files first, whose destructor gives their file back; a mutant forgets to
RECURSIVE DropFiles(_), DropFilesOnly(_)
DropFilesOnly(s) ==
  LET dead == {x \in DOMAIN s.file : Sessions(s, x) = {} /\ SubsOf(s, x) = {}}
  IN  IF dead = {} THEN s ELSE DropFilesOnly([Closing(s, dead) EXCEPT !.file = Restrict(@, DOMAIN @ \ dead)])
DropFiles(s) ==
  LET dead == {x \in DOMAIN s.file : Sessions(s, x) = {} /\ SubsOf(s, x) = {}}
      freed == {s.file[x].parent : x \in {y \in dead : IsSub(s, y)}}
  IN  IF dead = {} THEN s
      ELSE DropFiles([Closing(s, dead) EXCEPT !.file = [x \in DOMAIN @ \ dead |-> IF x \in freed THEN [@[x] EXCEPT !.sub = FALSE] ELSE @[x]]])
Inodes(s) == {s.tree[a][n] : a \in Trees, n \in Nodes} \cup
             {s.file[x].inode : x \in {y \in DOMAIN s.file : s.file[y].class \in {"save", "host"}}}
Collect(s) ==
  LET t == DropFiles(s)
      used == Inodes(t)
  IN  [t EXCEPT !.inode = Restrict(@, DOMAIN @ \cap used), !.twice = @ \cap used, !.opened = Absent, !.result = "ok",
                !.serves = Restrict(@, ToSet(t.handles))]

\* a File object that a session will serve; opened names it until then
Make(s, object) ==
  LET id == Fresh(DOMAIN s.file)
      others == {x \in DOMAIN s.file : s.file[x].class \in {"save", "host"} /\ s.file[x].inode = object.inode}
      made == [s EXCEPT !.file = (id :> object) @@ @, !.opened = id, !.result = "ok"]
  IN  IF object.class \in {"save", "host"} /\ others # {} THEN [made EXCEPT !.twice = @ \cup {object.inode}] ELSE made

-----------------------------------------------------------------------------
(* Files of the host.                                                      *)

CreateInode(s, a, n) ==
  LET i == Fresh(DOMAIN s.inode) IN [s EXCEPT !.inode = (i :> 0) @@ @, !.tree[a][n] = i]
Parent(n) == IF n = <<>> THEN <<>> ELSE Front(n)
Children(s, a, n) == {m \in Nodes : m # <<>> /\ m # n /\ Parent(m) = n /\ s.tree[a][m] # Absent}

\* FileSaveData and GenericHostFile, or the error code of the IPCError that they throw
FileSaveData(s, a, n, create) ==
  LET implicit == a # "user" /\ a # "boss"
      there == IF s.tree[a][n] = Absent /\ create THEN CreateInode(s, a, n) ELSE s
      i == there.tree[a][n]
  IN  CASE s.tree[a][Parent(n)] = Absent -> Reply(s, "directory not found")
        [] i = Absent -> Reply(s, "file not found")
        [] s.tree[a][Parent(n)] # Dir -> Throw(s, "cannot create")
        [] i = Dir -> Reply(s, "not a file")
        [] OTHER -> Make(there, [class |-> "save", inode |-> i, size |-> SizeOf(there, i), held |-> 0, implicit |-> implicit, sub |-> FALSE])
GenericHostFile(s, a, n, create) ==
  LET makes == s.tree[a][n] = Absent /\ create /\ s.tree[a][Parent(n)] = Dir
      there == IF makes THEN CreateInode(s, a, n) ELSE s
      i == there.tree[a][n]
  IN  CASE i = Absent /\ ~create -> Reply(s, "file not found")
        [] i = Absent \/ i = Dir -> Throw(s, "cannot open")
        [] OTHER -> Make(there, [class |-> "host", inode |-> i, size |-> SizeOf(there, i), sub |-> FALSE])

OpenSystemFile(s, a, n, create) ==
  LET t == FileSaveData(s, a, n, create) IN IF t.fault = "cannot create" THEN Reply(s, "no save data") ELSE t
OpenSaveFile(s, a, n, create) == FileSaveData(s, a, n, create)
OpenExtFile(s, a, n, create) == IF create THEN Reply(s, "invalid flags") ELSE FileSaveData(s, a, n, create)
OpenHostFile(s, a, n, create) == GenericHostFile(s, a, n, create)
OpenFile(s, a, n, create) ==
  CASE a = "host" -> OpenHostFile(s, a, n, create)
    [] a = "system" -> OpenSystemFile(s, a, n, create)
    [] a = "save" -> OpenSaveFile(s, a, n, create)
    [] OTHER -> OpenExtFile(s, a, n, create)

-----------------------------------------------------------------------------
(* Operations of a File object.                                            *)

\* moving in the stream writes out what it holds
SaveRead(s, id, offset, n) ==
  IF offset > s.file[id].size \/ n = 0 THEN Throw(s, "bad read") ELSE Reply(Flushed(s, id), "ok")
HostRead(s, f, offset, n) == IF offset + n > SizeOf(s, f.inode) THEN Throw(s, "past end") ELSE Reply(s, "ok")
\* forwarded to PxiFS
PxiRead(s) == Reply(s, "ok")
RECURSIVE Read(_, _, _, _), SubRead(_, _, _, _)
SubRead(s, f, offset, n) ==
  IF offset + n > f.n THEN Throw(s, "past sub file") ELSE Read(s, f.parent, f.offset + offset, n)
Read(s, id, offset, n) ==
  LET f == s.file[id]
  IN  CASE f.class = "sub" -> SubRead(s, f, offset, n)
        [] f.class = "pxi" -> PxiRead(s)
        [] f.class = "save" -> SaveRead(s, id, offset, n)
        [] f.class = "host" -> HostRead(s, f, offset, n)
        [] OTHER -> Reply(s, "closed")
\* the reply to a read, and to a write below, is a success also if the file returned an error
OnIPCFileRead(s, id, offset, n) == Reply(Read(s, id, offset, n), "ok")

\* a write ends here; behind the end it makes the file longer
Written(s, inode, end) == [s EXCEPT !.inode[inode] = Max({@, end})]
\* mutant: the size is not kept
SaveWriteOnly(s, id, offset, n) ==
  IF offset > s.file[id].size THEN Reply(s, "past end") ELSE Reply(Written(Flushed(s, id), s.file[id].inode, offset + n), "ok")
SaveWrite(s, id, offset, n) ==
  LET f == s.file[id]
      fits == IF f.implicit \/ offset + n <= f.size THEN n ELSE f.size - offset
  IN  CASE offset > f.size -> Reply(s, "past end")
        [] n = 0 -> Reply(s, "ok")
        [] OTHER -> Reply([Written(Flushed(s, id), f.inode, offset + fits) EXCEPT !.file[id].size = Max({@, offset + fits})], "ok")
HostWrite(s, id, offset, n) == Reply(IF n = 0 THEN s ELSE Written(s, s.file[id].inode, offset + n), "ok")
Write(s, id, offset, n) ==
  CASE s.file[id].class = "save" -> SaveWrite(s, id, offset, n)
    [] s.file[id].class = "host" -> HostWrite(s, id, offset, n)
    [] s.file[id].class = "closed" -> Reply(s, "closed")
    [] OTHER -> Throw(s, "unimplemented")
OnIPCFileWrite(s, id, offset, n) == Reply(Write(s, id, offset, n), "ok")

GetSize(s, id) ==
  CASE IsSub(s, id) -> Throw(s, "unimplemented")
    [] s.file[id].class = "closed" -> Reply(s, "closed")
    [] OTHER -> Reply(s, "ok")
\* Save data grows at its end and never shrinks.  The zeroes stay in the stream, to go behind the end
\* that it found; a mutant appends none.
SaveSetSizeOwn(s, id, size) ==
  IF size <= s.file[id].size THEN Reply(s, "ok")
  ELSE Reply([s EXCEPT !.file[id].size = size], "ok")
SaveSetSize(s, id, size) ==
  LET t == Flushed(s, id)
      f == t.file[id]
  IN  IF size <= f.size THEN Reply(s, "ok")
      ELSE Reply([t EXCEPT !.file[id].held = SizeOf(t, f.inode) + size - f.size, !.file[id].size = size], "ok")
HostSetSize(s, id, size) == Reply([s EXCEPT !.file[id].size = size], "ok")
SetSize(s, id, size) ==
  CASE s.file[id].class = "save" -> SaveSetSize(s, id, size)
    [] s.file[id].class = "host" -> HostSetSize(s, id, size)
    [] s.file[id].class = "pxi" -> Reply(s, "ok")
    [] s.file[id].class = "closed" -> Reply(s, "closed")
    [] OTHER -> Throw(s, "unimplemented")

SubFile(s, id, offset, n) ==
  IF s.file[id].sub THEN Throw(s, "contract: has a sub file")
  ELSE [Make(s, [class |-> "sub", parent |-> id, offset |-> offset, n |-> n, sub |-> FALSE]) EXCEPT !.file[id].sub = TRUE]

-----------------------------------------------------------------------------
(* Operations of archives.                                                 *)

\* PathValidator: relative and empty paths, then whether the root is there
ValidateAndGetSandboxedTreePath(s, a, absolute) ==
  CASE ~absolute -> Reply(s, "invalid path")
    [] s.tree[a][<<>>] # Dir -> Throw(s, "no root")
    [] OTHER -> Reply(s, "ok")

\* not if it exists; empty, then sized, then filled with zeros
CreateWith(s, a, n, size, exists, made) ==
  LET sized == SetSize(made, made.opened, size)
  IN  CASE exists.fault # "none" -> exists
        [] exists.result = "ok" -> Reply(s, "file exists")
        [] exists.result # "file not found" -> exists
        [] made.fault # "none" \/ made.result # "ok" -> made
        [] OTHER -> Reply(Write(sized, made.opened, 0, size), "ok")
CreateExtFile(s, a, n, size) ==
  IF size = 0 THEN Reply(s, "invalid size")
  ELSE CreateWith(s, a, n, size, OpenSaveFile(s, a, n, FALSE), OpenSaveFile(s, a, n, TRUE))
CreateFile(s, a, n, size) ==
  IF a \in {"user", "boss"} THEN CreateExtFile(s, a, n, size)
  ELSE CreateWith(s, a, n, size, OpenFile(s, a, n, FALSE), OpenFile(s, a, n, TRUE))

\* remove takes files and empty directories
Removed(s, a, n) == Reply([s EXCEPT !.tree[a][n] = Absent], "ok")
DeleteSaveFile(s, a, n) ==
  CASE s.tree[a][n] = Absent -> Reply(s, "file not found")
    [] Children(s, a, n) # {} -> Throw(s, "not empty")
    [] OTHER -> Removed(s, a, n)
DeleteSystemFile(s, a, n) == DeleteSaveFile(s, a, n)
DeleteHostFile(s, a, n) ==
  CASE s.tree[a][n] = Absent -> Reply(s, "file not found")
    [] s.tree[a][n] = Dir -> Throw(s, "not a file")
    [] OTHER -> Removed(s, a, n)
DeleteFile(s, a, n) ==
  CASE a = "host" -> DeleteHostFile(s, a, n)
    [] a = "system" -> DeleteSystemFile(s, a, n)
    [] OTHER -> DeleteSaveFile(s, a, n)

RenameHostFile(s, a, n, m) ==
  IF s.tree[a][n] > 0 /\ s.tree[a][m] = Absent /\ s.tree[a][Parent(m)] = Dir
  THEN Reply([s EXCEPT !.tree[a] = [@ EXCEPT ![m] = s.tree[a][n], ![n] = Absent]], "ok")
  ELSE Throw(s, "cannot rename")
RenameFile(s, a, n, m) == IF a = "host" THEN RenameHostFile(s, a, n, m) ELSE Throw(s, "unimplemented")

CreateSaveDirectory(s, a, n) ==
  CASE s.tree[a][n] = Dir -> Reply(s, "directory exists")
    [] s.tree[a][n] # Absent \/ s.tree[a][Parent(n)] # Dir -> Throw(s, "cannot create")
    [] OTHER -> Reply([s EXCEPT !.tree[a][n] = Dir], "ok")
CreateSystemDirectory(s, a, n) == CreateSaveDirectory(s, a, n)
CreateHostDirectory(s, a, n) ==
  IF s.tree[a][n] # Absent THEN Reply(s, "directory exists") ELSE CreateSaveDirectory(s, a, n)
CreateDirectory(s, a, n) ==
  CASE a = "host" -> CreateHostDirectory(s, a, n)
    [] a = "system" -> CreateSystemDirectory(s, a, n)
    [] OTHER -> CreateSaveDirectory(s, a, n)

DeleteSaveDirectory(s, a, n, recursive) ==
  CASE s.tree[a][n] = Absent -> Reply(s, "directory not found")
    [] s.tree[a][n] # Dir \/ recursive \/ Children(s, a, n) # {} -> Throw(s, "cannot remove")
    [] OTHER -> Removed(s, a, n)
DeleteHostDirectory(s, a, n, recursive) ==
  CASE s.tree[a][n] = Absent -> Reply(s, "directory not found")
    [] s.tree[a][n] # Dir \/ recursive -> Throw(s, "cannot remove")
    [] Children(s, a, n) # {} -> Reply(s, "not empty")
    [] OTHER -> Removed(s, a, n)
DeleteDirectory(s, a, n, recursive) ==
  CASE a = "host" -> DeleteHostDirectory(s, a, n, recursive)
    [] a = "system" -> Throw(s, "unimplemented")
    [] OTHER -> DeleteSaveDirectory(s, a, n, recursive)

HostDirectory(s, a, n) ==
  CASE a = "system" -> Throw(s, "unimplemented")
    [] s.tree[a][n] = Absent -> Reply(s, "directory not found")
    [] s.tree[a][n] # Dir -> Reply(s, "not a directory")
    [] OTHER -> Reply(s, "ok")

\* ArchiveNCCHSection: PXI serves the section, fs the part of it behind the header
OpenSection(s, romfs) ==
  LET pxi == Make(s, [class |-> "pxi", size |-> SectionSize, sub |-> FALSE])
  IN  IF romfs THEN SubFile(pxi, pxi.opened, HeaderSize, SectionSize - HeaderSize) ELSE pxi

-----------------------------------------------------------------------------
(* Save data.                                                              *)

EnsureCreated(s, base) == [s EXCEPT !.created = @ \cup {base}]
\* the directory first, then metadata
EnsureFormatted(s, base) ==
  [s EXCEPT !.tree = [a \in Trees |-> IF Base(a) = base THEN [@[a] EXCEPT ![<<>>] = Dir] ELSE @[a]],
            !.formatted = @ \cup {base}]
ArchiveSaveDataBase(s, base) ==
  LET t == IF base = "save" /\ SaveMedia = "card" THEN EnsureCreated(s, base) ELSE s
  IN  CASE base \notin t.created -> Reply(t, "no save data")
        [] base \notin t.formatted -> Reply(t, "not formatted")
        [] OTHER -> Reply(t, "ok")
CreateExtSaveData(s) == Reply(EnsureFormatted(EnsureCreated(s, "ext"), "ext"), "ok")
DeleteExtSaveData(s) ==
  IF "ext" \notin s.created THEN Reply(s, "file not found")
  ELSE Reply([s EXCEPT !.created = @ \ {"ext"}, !.formatted = @ \ {"ext"},
                       !.tree = [a \in Trees |-> IF Base(a) = "ext" THEN [n \in Nodes |-> Absent] ELSE @[a]]], "ok")
CreateSystemSaveData(s) ==
  IF "system" \in s.created THEN Throw(s, "already created")
  ELSE Reply([EnsureCreated(s, "system") EXCEPT !.tree["system"][<<>>] = Dir], "ok")
FormatSaveData(s) ==
  IF ~s.registered THEN Throw(s, "unregistered")
  ELSE IF "save" \notin s.created THEN Throw(s, "not created")
  ELSE Reply(EnsureFormatted(s, "save"), "ok")

\* the archive that an id stands for
OpenArchive(s, a) ==
  CASE ~s.registered -> Throw(s, "unregistered")
    [] Base(a) \in {"save", "ext"} -> ArchiveSaveDataBase(s, Base(a))
    [] a = "system" /\ "system" \notin s.created -> Reply(s, "file not found")
    [] OTHER -> Reply(s, "ok")
HandleOpenArchive(s, a) ==
  LET t == OpenArchive(s, a)
  IN  IF t.fault = "none" /\ t.result = "ok" THEN [t EXCEPT !.archives = Append(@, a)] ELSE t
HandleGetFormatInfo(s, a) ==
  LET t == OpenArchive(s, a)
  IN  IF t.result = "ok" /\ Base(a) \notin {"save", "ext"} THEN Throw(t, "unimplemented") ELSE t

-----------------------------------------------------------------------------
(* Sessions.  handles and data (handle_data) are parallel; serves is what  *)
(* was opened for a handle.                                                *)

AppendSession(s, data) ==
  [s EXCEPT !.handles = Append(@, s.next), !.data = Append(@, data), !.serves = (s.next :> data) @@ @, !.next = @ + 1]
\* mutant: the data of the session stays behind
EraseHandle(s, i) == [s EXCEPT !.handles = RemoveAt(@, i)]
Erase(s, i) == [s EXCEPT !.handles = RemoveAt(@, i), !.data = RemoveAt(@, i)]
OnNewSession(s) == AppendSession(s, User)
ReplaceFileServer(s, i) ==
  LET id == Fresh(DOMAIN s.file)
  IN  [s EXCEPT !.file = (id :> Closed) @@ @, !.data[i] = FileOf(id), !.serves[s.handles[i]] = FileOf(id)]

\* a session for what was opened, unless there was an error
HandleOpenFile(s, a, n, absolute, create) ==
  LET valid == IF a = "ncch" THEN Reply(s, "ok") ELSE ValidateAndGetSandboxedTreePath(s, a, absolute)
      t == IF a = "ncch" THEN OpenSection(s, absolute) ELSE OpenFile(s, a, n, create)
  IN  IF valid.fault # "none" \/ valid.result # "ok" THEN valid
      ELSE IF t.fault # "none" \/ t.result # "ok" THEN t
      ELSE AppendSession(t, FileOf(t.opened))
HandleOpenFileDirectly(s, a, n, create) ==
  LET t == HandleOpenArchive(s, a)
  IN  IF t.fault # "none" \/ t.result # "ok" THEN t ELSE HandleOpenFile(t, a, n, TRUE, create)
HandleOpenDirectory(s, a, n) ==
  LET valid == ValidateAndGetSandboxedTreePath(s, a, TRUE)
      t == HostDirectory(s, a, n)
  IN  IF valid.fault # "none" THEN valid
      ELSE IF t.fault # "none" \/ t.result # "ok" THEN t
      ELSE AppendSession(t, DirOf(a, Children(s, a, n)))
\* the other operations on a path
OnPath(s, a, absolute, done) ==
  LET valid == ValidateAndGetSandboxedTreePath(s, a, absolute)
  IN  IF valid.fault # "none" \/ valid.result # "ok" THEN valid ELSE done
HandleCreateFile(s, a, n, absolute, size) == OnPath(s, a, absolute, CreateFile(s, a, n, size))
HandleDeleteFile(s, a, n, absolute) == OnPath(s, a, absolute, DeleteFile(s, a, n))
HandleRenameFile(s, a, n, m) == OnPath(s, a, TRUE, RenameFile(s, a, n, m))
HandleCreateDirectory(s, a, n, absolute) == OnPath(s, a, absolute, CreateDirectory(s, a, n))
HandleDeleteDirectory(s, a, n, recursive) == OnPath(s, a, TRUE, DeleteDirectory(s, a, n, recursive))

\* entries that are gone cannot be asked for their size
GetEntries(s, i, n) ==
  LET d == s.data[i]
      got == CHOOSE x \in SUBSET d.left : Cardinality(x) = Min({n, Cardinality(d.left)})
      rest == DirOf(d.archive, d.left \ got)
  IN  IF \E m \in got : s.tree[d.archive][m] = Absent THEN Throw(s, "entry is gone")
      ELSE Reply([s EXCEPT !.data[i] = rest, !.serves[s.handles[i]] = rest], "ok")

UserCommandHandler(s, request) ==
  LET a == s.archives[request.archive]
      n == request.path
  IN  CASE request.op = "OpenFile" -> HandleOpenFile(s, a, n, request.flag, request.create)
        [] request.op = "OpenDirectory" -> HandleOpenDirectory(s, a, n)
        [] request.op = "CreateFile" -> HandleCreateFile(s, a, n, request.flag, request.size)
        [] request.op = "DeleteFile" -> HandleDeleteFile(s, a, n, request.flag)
        [] request.op = "RenameFile" -> HandleRenameFile(s, a, n, request.target)
        [] request.op = "CreateDirectory" -> HandleCreateDirectory(s, a, n, request.flag)
        [] request.op = "DeleteDirectory" -> HandleDeleteDirectory(s, a, n, request.flag)
OnFileIPCRequest(s, i, request) ==
  LET id == s.data[i].id
      linked == AppendSession(s, s.data[i])
      opened == SubFile(s, id, request.offset, request.n)
  IN  CASE s.file[id].sub /\ request.op # "Close" -> Throw(s, "file with open sub file")
        [] request.op = "OpenSubFile" -> AppendSession(opened, FileOf(opened.opened))
        [] request.op = "OpenLinkFile" -> Reply(linked, "ok")
        [] request.op = "Close" -> Reply(ReplaceFileServer(s, i), "ok")
        [] request.op = "Read" -> OnIPCFileRead(s, id, request.offset, request.n)
        [] request.op = "Write" -> OnIPCFileWrite(s, id, request.offset, request.n)
        [] request.op = "GetSize" -> GetSize(s, id)
        [] request.op = "SetSize" -> SetSize(s, id, request.n)

-----------------------------------------------------------------------------
Init ==
  \E kinds \in Programs : \E save \in SUBSET (kinds \cap {"save"}) :
    fs = [kinds |-> kinds, tree |-> [a \in Trees |-> [n \in Nodes |-> IF n = <<>> /\ a = "host" THEN Dir ELSE Absent]],
          inode |-> NoFunction, file |-> NoFunction, twice |-> {}, opened |-> Absent,
          created |-> save, formatted |-> {}, archives |-> <<>>, registered |-> FALSE,
          handles |-> <<1>>, data |-> <<Port>>, serves |-> (1 :> Port), next |-> 2,
          initialized |-> {}, result |-> "ok", fault |-> "none"]

Step(s) == s.fault = "none" /\ fs' = Collect(s)
Room == fs.next <= MaxHandle
UserSessions == {i \in DOMAIN fs.data : fs.data[i] = User /\ fs.handles[i] \in fs.initialized}
FileSessions == {i \in DOMAIN fs.data : fs.data[i].kind = "file"}
Small(s) == /\ \A i \in DOMAIN s.inode : s.inode[i] <= MaxSize
            /\ \A x \in DOMAIN s.file : s.file[x].class = "save" => s.file[x].held <= MaxSize
Sizes == 0 .. MaxSize

PathRequests(h) ==
  {[op |-> "OpenFile", archive |-> h, path |-> n, flag |-> f, create |-> c] : n \in Nodes, f \in BOOLEAN, c \in BOOLEAN} \cup
  {[op |-> "CreateFile", archive |-> h, path |-> n, flag |-> TRUE, size |-> z] : n \in Nodes, z \in Sizes} \cup
  {[op |-> o, archive |-> h, path |-> n, flag |-> f] : o \in {"DeleteFile", "CreateDirectory", "DeleteDirectory", "OpenDirectory"}, n \in Nodes, f \in BOOLEAN} \cup
  {[op |-> "RenameFile", archive |-> h, path |-> n, target |-> m, flag |-> TRUE] : n \in Nodes, m \in Nodes}
FileRequests ==
  {[op |-> o, offset |-> x, n |-> n] : o \in {"Read", "Write", "OpenSubFile"}, x \in Sizes, n \in Sizes} \cup
  {[op |-> "SetSize", n |-> n] : n \in Sizes} \cup {[op |-> o] : o \in {"OpenLinkFile", "Close", "GetSize"}}
Opens(request) == request.op \in {"OpenFile", "OpenDirectory", "OpenSubFile", "OpenLinkFile"}

HandleInitialize(i) == fs.data[i] = User /\ Step(Reply([fs EXCEPT !.initialized = @ \cup {fs.handles[i]}], "ok"))
OnReg_Register == ~fs.registered /\ Step(Reply([fs EXCEPT !.registered = TRUE], "ok"))
OnReg_Unregister == fs.registered /\ Step(Reply([fs EXCEPT !.registered = FALSE], "ok"))
SaveDataCommands ==
  \/ \E a \in fs.kinds : Len(fs.archives) < MaxArchives /\ Step(HandleOpenArchive(fs, a))
  \/ \E a \in fs.kinds \ {"ncch"} : Step(HandleGetFormatInfo(fs, a))
  \/ "save" \in fs.kinds /\ Step(FormatSaveData(fs))
  \/ "user" \in fs.kinds /\ Step(CreateExtSaveData(fs))
  \/ "user" \in fs.kinds /\ Step(DeleteExtSaveData(fs))
  \/ "system" \in fs.kinds /\ Step(CreateSystemSaveData(fs))
\* closing an archive, queries and settings change nothing
OtherCommands == Step(Reply(fs, "ok"))

Next ==
  \/ Room /\ Step(OnNewSession(fs))
  \/ \E i \in DOMAIN fs.data : HandleInitialize(i)
  \/ OnReg_Register
  \/ OnReg_Unregister
  \/ \E i \in DOMAIN fs.data : fs.data[i] # Port /\ Step(Erase(fs, i))
  \/ UserSessions # {} /\ (SaveDataCommands \/ OtherCommands)
  \/ /\ UserSessions # {} /\ Room /\ Len(fs.archives) < MaxArchives
     /\ \E a \in fs.kinds, n \in Nodes, c \in BOOLEAN : Step(HandleOpenFileDirectly(fs, a, n, c))
  \/ /\ UserSessions # {}
     /\ \E h \in DOMAIN fs.archives, request \in PathRequests(0) :
          /\ Opens(request) => Room
          /\ fs.archives[h] = "ncch" => request.op = "OpenFile"
          /\ Step(UserCommandHandler(fs, [request EXCEPT !.archive = h]))
  \/ \E i \in FileSessions, request \in FileRequests :
       /\ Opens(request) => Room
       /\ LET s == OnFileIPCRequest(fs, i, request) IN Small(s) /\ Step(s)
  \/ \E i \in DOMAIN fs.data, n \in 0 .. 2 : fs.data[i].kind = "dir" /\ Step(GetEntries(fs, i, n))
Spec == Init /\ [][Next]_vars

-----------------------------------------------------------------------------
(* However sessions are opened, linked, closed and ended, a request        *)
(* reaches what its session was opened for (FSServiceHelper keeps two      *)
(* parallel lists), and a file is kept from use exactly while a sub file   *)
(* of it is open, also if the session of either has been closed.           *)
SessionsServed ==
  /\ Len(fs.handles) = Len(fs.data)
  /\ \A i \in DOMAIN fs.data : fs.data[i] = fs.serves[fs.handles[i]] /\ (fs.data[i].kind = "file" => fs.data[i].id \in DOMAIN fs.file)
  /\ \A x \in DOMAIN fs.file : fs.file[x].sub <=> SubsOf(fs, x) # {}
  /\ \A x \in DOMAIN fs.file : Cardinality(SubsOf(fs, x)) <= 1

(* The size that a save data file remembers never exceeds what the file of *)
(* the host has as soon as the object's own stream is written, which it is *)
(* before the object reads or writes: what it lets pass then exists.  It   *)
(* is that size unless the file was opened twice (FileSaveData).  Until    *)
(* then the host's file may be shorter (SetSize does not flush), and a     *)
(* second object for it starts with the shorter size.                      *)
SizesRight ==
  \A x \in DOMAIN fs.file : fs.file[x].class = "save" =>
    LET written == Max({SizeOf(fs, fs.file[x].inode), fs.file[x].held})
    IN  /\ fs.file[x].size <= written
        /\ fs.file[x].inode \notin fs.twice => fs.file[x].size = written
=============================================================================
