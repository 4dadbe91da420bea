----------------------------- MODULE Hypervisor -----------------------------
(***************************************************************************)
(* The hypervisor: an observer inside the kernel that keeps, per process   *)
(* and handle, an object of its own for every port and session, so that it *)
(* knows which service a request is meant for.  The kernel tells it of     *)
(* every port, session, copy and end of a handle, of every request after   *)
(* and of every reply before the message is translated.                    *)
(*                                                                         *)
(* The processes are sm (the service manager), one server that registers   *)
(* Service, and an application; what they do is what system modules do     *)
(* with the system calls.  A server is one thread: it answers a request    *)
(* before it takes the next one.  fault is a broken precondition ("Handle  *)
(* is not registered"); stopped is an exception on purpose, for an answer  *)
(* the emulator does not expect.                                           *)
(***************************************************************************)
EXTENDS Integers, Sequences, FiniteSets, SequencesExt, Functions

CONSTANTS Services,      \* names of services, one of which is run
          MaxHandle,     \* handles that a process is ever given
          MaxRequests,   \* requests of the application to the service
          MaxChanges     \* calls of SVCDuplicateHandle and SVCCloseHandle

VARIABLE hv
vars == <<hv>>

Process == {"sm", "server", "app"}
Extend(f, key, value) == [x \in DOMAIN f \cup {key} |-> IF x = key THEN value ELSE f[x]]
Without(f, key) == Restrict(f, DOMAIN f \ {key})
Fault(s) == [s EXCEPT !.fault = TRUE]
Stop(s) == [s EXCEPT !.stopped = TRUE]

-----------------------------------------------------------------------------
(* What the hypervisor keeps: entry[p][h] refers to obj[ref]. *)
NewObject(s, o) == [s EXCEPT !.obj = Append(@, o)]
Ref(s) == Len(s.obj)
Port(name) == [t |-> "port", name |-> name]
Name(s, ref) == IF s.obj[ref].name = "" THEN "UnknownPort" ELSE s.obj[ref].name
SessionObject(class, port, name) == [t |-> "session", class |-> class, port |-> port, name |-> name, cb |-> [do |-> "none"], pipe |-> "Reset"]
Describe(s, ref) == IF s.obj[ref].port # 0 THEN Name(s, s.obj[ref].port) ELSE s.obj[ref].name

\* the factory of a service's sessions; any other name has sessions without a handler
service_factory_map(name) ==
  CASE name = "srv:" -> "srv" [] name = "srv:pm" -> "srvpm" [] name \in {"fs:USER", "fs:LDR"} -> "fsuser" [] name = "fs:REG" -> "fsreg"
    [] name = "APT:S" -> "apt" [] name = "ns:s" -> "ns" [] name = "dsp::DSP" -> "dsp" [] name = "ldr:ro" -> "ro"
    [] name \in {"am:app", "am:net", "am:sys", "am:u"} -> "am" [] name \in {"cfg:i", "cfg:s", "cfg:u"} -> "cfg"
    [] OTHER -> "toport"
\* the constructor of DspService leaves the state of the pipe as it finds it in memory
PipeStates(class) == IF class = "dsp" THEN {"Reset", "Incomplete", "Finished"} ELSE {"Reset"}
SessionFactory(s, port) == NewObject(s, [SessionObject(service_factory_map(Name(s, port)), port, "") EXCEPT !.pipe = s.memory])

FindObject(s, p, h, type) == IF h \in DOMAIN s.entry[p] /\ s.obj[s.entry[p][h]].t = type THEN s.entry[p][h] ELSE 0
Register(s, p, h, ref) == IF h \in DOMAIN s.entry[p] THEN Fault(s) ELSE [s EXCEPT !.entry[p] = Extend(@, h, ref)]
OnPortCreated(s, p, name, h) ==
  LET t == NewObject(s, Port(name)) IN Register([t EXCEPT !.ports = Append(@, Ref(t))], p, h, Ref(t))
OnConnectToPort(s, p, name, h) ==
  LET found == {i \in DOMAIN s.ports : Name(s, s.ports[i]) = name}
      first == CHOOSE i \in found : \A j \in found : i <= j
      t == SessionFactory(s, s.ports[first])
  IN  IF found = {} THEN Fault(s) ELSE Register(t, p, h, Ref(t))
OnNewSession(s, p, port, h) ==
  LET ref == FindObject(s, p, port, "port")
      t == SessionFactory(s, ref)
  IN  IF ref = 0 THEN Fault(s) ELSE Register(t, p, h, Ref(t))
OnSessionCreated(s, p, h) ==
  LET t == NewObject(s, SessionObject("unnamed", 0, "UnknownSession")) IN Register(t, p, h, Ref(t))
\* handles of other kinds of objects are not tracked
OnHandleDuplicated(s, p, h, q, new) == IF h \notin DOMAIN s.entry[p] THEN s ELSE Register(s, q, new, s.entry[p][h])
OnHandleClosed(s, p, h) == [s EXCEPT !.entry[p] = Without(@, h)]
\* ReplaceManagedObject: every handle that refers to the object sees the new one
SetPortName(s, p, h, name) ==
  LET ref == FindObject(s, p, h, "port") IN IF ref = 0 THEN Fault(s) ELSE [s EXCEPT !.obj[ref] = Port(name)]
SetSessionObject(s, p, h, o) ==
  LET ref == FindObject(s, p, h, "session") IN IF ref = 0 THEN Fault(s) ELSE [s EXCEPT !.obj[ref] = o]
SetObjectTag(s, p, h, name) ==
  IF h \notin DOMAIN s.table[p] THEN Fault(s) ELSE s   \* the name is only for the log

-----------------------------------------------------------------------------
(* The kernel's handles, ports and sessions. *)
CreateHandle(s, p, object) == [s EXCEPT !.table[p] = Extend(@, s.next[p] + 1, object), !.next[p] = @ + 1]
Newest(s, p) == s.next[p]
CloseHandle(s, p, h) ==
  LET t == OnHandleClosed(s, p, h) IN [t EXCEPT !.table[p] = Without(@, h)]
SVCCreatePort(s, p, name) ==
  LET id == Len(s.port) + 1
      t == CreateHandle([s EXCEPT !.port = Append(@, [name |-> name, service |-> name, queue |-> <<>>])], p, <<"sport", id>>)
      u == CreateHandle(t, p, <<"cport", id>>)
  IN  OnHandleDuplicated(OnPortCreated(u, p, name, Newest(t, p)), p, Newest(t, p), p, Newest(u, p))
NewSession(s, opened) == [s EXCEPT !.session = Append(@, [opened |-> opened, request |-> [c |-> "none"], reads |-> 0])]
To(name) == [class |-> service_factory_map(name), name |-> name]   \* what a session is for
Offer(s, id) == [s EXCEPT !.port[id].queue = Append(@, Len(s.session))]
SVCConnectToPort(s, p, name) ==
  LET id == CHOOSE i \in DOMAIN s.port : s.port[i].name = name
      t == NewSession(s, To(name))
      u == CreateHandle(t, p, <<"csession", Len(t.session)>>)
  IN  Offer(OnConnectToPort(u, p, name, Newest(u, p)), id)
SVCCreateSessionToPort(s, p, h) ==
  LET id == s.table[p][h][2]
      t == NewSession(s, To(s.port[id].service))
      u == CreateHandle(t, p, <<"csession", Len(t.session)>>)
  IN  Offer(OnNewSession(u, p, h, Newest(u, p)), id)
SVCCreateSession(s, p, opened) ==
  LET t == NewSession(s, opened)
      u == CreateHandle(t, p, <<"ssession", Len(t.session)>>)
      v == CreateHandle(u, p, <<"csession", Len(t.session)>>)
  IN  OnHandleDuplicated(OnSessionCreated(v, p, Newest(u, p)), p, Newest(u, p), p, Newest(v, p))
SVCAcceptSession(s, p, id, h) ==
  LET t == [s EXCEPT !.port[id].queue = Tail(@)]
      u == CreateHandle(t, p, <<"ssession", Head(s.port[id].queue)>>)
  IN  OnNewSession(u, p, h, Newest(u, p))
SVCDuplicateHandle(s, p, h) ==
  LET t == CreateHandle(s, p, s.table[p][h]) IN OnHandleDuplicated(t, p, h, p, Newest(t, p))
CreateEvent(s, p) == CreateHandle([s EXCEPT !.events = @ + 1], p, <<"event", s.events + 1>>)
\* the part of TranslateIPCMessage that passes handles on
RECURSIVE Translate(_, _, _, _, _)
Translate(s, p, q, handles, close) ==
  IF handles = <<>> THEN s
  ELSE LET h == Head(handles)
           t == CreateHandle(s, q, s.table[p][h])
           u == OnHandleDuplicated(t, p, h, q, Newest(t, q))
       IN  Translate(IF close THEN CloseHandle(u, p, h) ELSE u, p, q, Tail(handles), close)

-----------------------------------------------------------------------------
(* The handlers of the services: what a session does when a request passes *)
(* and, as cb, what it will do when the reply does.  A command of which a  *)
(* handler only writes a line to the log has no entry.                     *)
Cb(do) == [do |-> do]
SrvService(c) == CASE c.c = "EnableNotification" -> [do |-> "tag", name |-> "SMNotification"]
                   [] c.c = "RegisterService" -> [do |-> "name", name |-> c.name]
                   [] c.c = "GetServiceHandle" -> [do |-> "tagok", name |-> c.name]
                   [] OTHER -> Cb("none")
\* commands that it does not know go to SrvService
SrvPmService(c) == IF c.c = "RegisterProcess" THEN Cb("none") ELSE SrvService(c)
AptService(c) == IF c.c \in {"GetLockHandle", "Initialize"} THEN [do |-> "tagok", name |-> c.c] ELSE Cb("none")
NsService(c, s) == IF c.c = "CardUpdateInitialize" /\ ~s.update THEN Cb("override") ELSE Cb("none")
RoService(c) == IF c.c \in {"LoadCRO", "LoadCRONew"} THEN Cb("mustsucceed") ELSE Cb("none")
AmService(c) == Cb("none")
CfgService(c) == Cb("none")
DspService(c) == CASE c.c \in {"ReadPipe", "ReadPipeIfPossible"} -> Cb("piperead")
                   [] c.c = "GetSemaphoreEventHandle" -> [do |-> "tag", name |-> "DSPSemaphoreEvent"]
                   [] OTHER -> Cb("none")
OpensFile(c) == c.c \in {"OpenFile", "OpenFileDirectly"}
FSUserService(c) == CASE OpensFile(c) -> [do |-> "session", class |-> "file", name |-> c.name]
                      [] c.c = "OpenDirectory" -> [do |-> "session", class |-> "dir", name |-> c.name]
                      [] c.c = "OpenArchive" -> Cb("archive")
                      [] OTHER -> Cb("none")
\* delete stands for every command that removes, creates or renames a file or directory
NamesArchive(c) == c.c \in {"OpenFile", "OpenDirectory", "CloseArchive", "Delete"}
FSRegService(c) == Cb("none")
FileSession(c) == IF c.c = "OpenLinkFile" THEN [do |-> "session", class |-> "file", name |-> "link"] ELSE Cb("none")
DirSession(c) == Cb("none")
CallbackOf(s, ref, c) ==
  LET class == s.obj[ref].class IN
  CASE class = "srv" -> SrvService(c) [] class = "srvpm" -> SrvPmService(c) [] class = "apt" -> AptService(c)
    [] class = "ns" -> NsService(c, s) [] class = "ro" -> RoService(c) [] class = "am" -> AmService(c)
    [] class = "cfg" -> CfgService(c) [] class = "dsp" -> DspService(c) [] class = "fsuser" -> FSUserService(c)
    [] class = "fsreg" -> FSRegService(c) [] class = "file" -> FileSession(c)
    [] class = "dir" -> DirSession(c) [] OTHER -> Cb("none")
\* LookupArchive: commands of fs:USER that name an archive
LookupArchive(s, ref, c) == s.obj[ref].class = "fsuser" /\ NamesArchive(c) => c.archive \in s.archives
OnRequestState(s, ref, c) ==
  LET class == s.obj[ref].class IN
  CASE class = "fsuser" /\ c.c = "CloseArchive" -> [s EXCEPT !.archives = @ \ {c.archive}]
    [] class = "dsp" /\ c.c = "LoadComponent" -> [s EXCEPT !.obj[ref].pipe = "Reset"]
    [] class = "ns" /\ c.c = "CardUpdateInitialize" /\ ~s.update -> [s EXCEPT !.tls = "0xfffe"]
    [] OTHER -> s
OnIPCRequestFromTo(s, q, h, c) ==
  LET ref == FindObject(s, q, h, "session")
      t == OnRequestState(s, ref, c)
      cb == CallbackOf(s, ref, c)
  IN  IF ref = 0 \/ ~LookupArchive(s, ref, c) THEN Fault(s)
      ELSE IF cb.do = "none" THEN t ELSE [t EXCEPT !.obj[ref].cb = cb]

\* a pipe is read for the number of offsets (one, here) and then for the offsets
OnPipeRead(s, ref, n) ==
  CASE s.obj[ref].pipe = "Reset" /\ n = 2 -> [s EXCEPT !.obj[ref].pipe = "Incomplete"]
    [] s.obj[ref].pipe = "Incomplete" /\ n = 4 -> [s EXCEPT !.obj[ref].pipe = "Finished"]
    [] OTHER -> Stop(s)
RECURSIVE TagAll(_, _, _, _)
TagAll(s, q, handles, name) == IF handles = <<>> THEN s ELSE TagAll(SetObjectTag(s, q, Head(handles), name), q, Tail(handles), name)
RunCallback(s, q, ref, r) ==
  LET cb == s.obj[ref].cb IN
  CASE cb.do = "tag" -> TagAll(s, q, r.handles, cb.name)
    [] cb.do = "tagok" -> IF r.ok THEN TagAll(s, q, r.handles, cb.name) ELSE Stop(s)
    [] cb.do = "name" -> IF r.ok THEN SetPortName(s, q, r.handles[1], cb.name) ELSE Stop(s)
    [] cb.do = "mustsucceed" -> IF r.ok THEN s ELSE Stop(s)
    [] cb.do = "session" -> IF r.ok THEN SetSessionObject(s, q, r.handles[1], SessionObject(cb.class, 0, cb.name)) ELSE s
    [] cb.do = "archive" -> IF ~r.ok THEN s ELSE IF r.archive \in s.archives THEN Fault(s) ELSE [s EXCEPT !.archives = @ \cup {r.archive}]
    [] cb.do = "override" -> [s EXCEPT !.tls = "no card update"]
    [] cb.do = "piperead" -> IF r.ok THEN OnPipeRead(s, ref, r.n) ELSE Stop(s)
    [] OTHER -> s
OnIPCReplyFromTo(s, q, h, r) ==
  LET ref == FindObject(s, q, h, "session") IN
  IF ref = 0 THEN Fault(s) ELSE [RunCallback(s, q, ref, r) EXCEPT !.obj[ref].cb = Cb("none")]
\* the reply of SVCReplyAndReceive: the hypervisor sees the message as the server wrote it
ReplyTranslated(s, q, h, p, r) ==
  OnIPCReplyFromTo(Translate(s, q, p, r.handles, r.close), q, h, r)
Reply(s, q, h, p, r) ==
  LET t == OnIPCReplyFromTo(s, q, h, r) IN IF t.fault \/ t.stopped THEN t ELSE Translate(t, q, p, r.handles, r.close)

-----------------------------------------------------------------------------
(* The processes. *)
HandlesOf(p, k) == {h \in DOMAIN hv.table[p] : hv.table[p][h][1] = k}
HandlesTo(p, object) == {h \in DOMAIN hv.table[p] : hv.table[p][h] = object}
Running == ~hv.fault /\ ~hv.stopped
Step(s) == hv' = s /\ \A p \in Process : s.next[p] <= MaxHandle
Command(c, name, archive) == [c |-> c, name |-> name, archive |-> archive]
Service == hv.service
ServiceClass == service_factory_map(Service)
ServiceCommands ==
  CASE ServiceClass = "apt" -> {Command("GetLockHandle", "", 0), Command("Initialize", "", 0)}
    [] ServiceClass = "ns" -> {Command("CardUpdateInitialize", "", 0)}
    [] ServiceClass = "ro" -> {Command("LoadCRO", "", 0)}
    [] ServiceClass = "dsp" -> {Command(c, "", 0) : c \in {"LoadComponent", "ReadPipe", "GetSemaphoreEventHandle"}}
    [] ServiceClass = "fsuser" -> {Command("OpenArchive", "", 0)}
                                  \cup {Command(c, "path", a) : c \in {"OpenFile", "OpenDirectory", "Delete", "CloseArchive"}, a \in hv.opened}
                                  \cup {Command("OpenFileDirectly", "path", 0)}
    [] OTHER -> {Command("other", "", 0)}
CommandsTo(opened) ==
  CASE opened.name = "srv:" -> {Command("GetServiceHandle", Service, 0), Command("EnableNotification", "", 0)}
    [] opened.class = "file" -> {Command("OpenLinkFile", "", 0), Command("OpenSubFile", "", 0)}
    [] opened.class \in {"dir", "unnamed"} -> {Command("other", "", 0)}
    [] OTHER -> ServiceCommands

\* what a server does with a request before it answers: its system calls, and the answer
Answer(ok, handles, close) == [ok |-> ok, handles |-> handles, close |-> close, archive |-> 0, n |-> 0]
Failure == Answer(FALSE, <<>>, FALSE)
OpenSession(s, q, class, name) ==
  LET t == SVCCreateSession(s, q, [class |-> class, name |-> name]) IN [s |-> t, r |-> Answer(TRUE, <<Newest(t, q)>>, TRUE)]
Serve(s, q, id, c) ==
  CASE c.c = "RegisterService" -> LET t == SVCCreatePort(s, q, "") IN
                                  [s |-> [t EXCEPT !.registered = Newest(t, q)], r |-> Answer(TRUE, <<Newest(t, q) - 1>>, TRUE)]
    [] c.c = "GetServiceHandle" -> LET t == SVCCreateSessionToPort(s, q, s.registered) IN
                                   [s |-> t, r |-> Answer(TRUE, <<Newest(t, q)>>, TRUE)]
    [] c.c \in {"EnableNotification", "GetSemaphoreEventHandle", "GetLockHandle"} ->
         LET t == CreateEvent(s, q) IN [s |-> t, r |-> Answer(TRUE, <<Newest(t, q)>>, FALSE)]
    [] c.c = "Initialize" -> LET t == CreateEvent(CreateEvent(s, q), q) IN
                             [s |-> t, r |-> Answer(TRUE, <<Newest(t, q) - 1, Newest(t, q)>>, FALSE)]
    [] OpensFile(c) -> OpenSession(s, q, "file", c.name)
    [] c.c = "OpenDirectory" -> OpenSession(s, q, "dir", c.name)
    [] c.c = "OpenSubFile" -> OpenSession(s, q, "unnamed", "UnknownSession")   \* FileSession gives it no name
    [] c.c = "OpenLinkFile" -> OpenSession(s, q, "file", "link")
    [] c.c = "OpenArchive" -> [s |-> [s EXCEPT !.nextArchive = @ + 1, !.opened = @ \cup {s.nextArchive}],
                               r |-> [Answer(TRUE, <<>>, FALSE) EXCEPT !.archive = s.nextArchive]]
    [] c.c = "CloseArchive" -> [s |-> [s EXCEPT !.opened = @ \ {c.archive}], r |-> Answer(TRUE, <<>>, FALSE)]
    [] c.c = "LoadComponent" -> [s |-> [s EXCEPT !.session[id].reads = 1], r |-> Answer(TRUE, <<>>, FALSE)]
    [] c.c = "ReadPipe" -> [s |-> [s EXCEPT !.session[id].reads = IF @ \in {1, 2} THEN @ + 1 ELSE 0],
                            r |-> [Answer(TRUE, <<>>, FALSE) EXCEPT !.n = IF s.session[id].reads = 1 THEN 2 ELSE 4]]
    [] c.c = "CardUpdateInitialize" -> [s |-> [s EXCEPT !.updating = TRUE], r |-> Answer(TRUE, <<>>, FALSE)]
    [] OTHER -> [s |-> s, r |-> Answer(TRUE, <<>>, FALSE)]
Idle(q) == \A i \in DOMAIN hv.session : hv.session[i].request.c # "none" => hv.session[i].request.q # q

\* a client sends a command and the server takes it: OnIPCRequestFromTo, then the handler, which may fail
Send(s, p, h, q, c) ==
  LET id == s.table[p][h][2] IN
  /\ s.session[id].request.c = "none" /\ Idle(q)
  /\ \E server \in HandlesTo(q, <<"ssession", id>>), works \in (IF c.c \in {"CloseArchive", "LoadComponent"} THEN {TRUE} ELSE BOOLEAN) :
       LET t == OnIPCRequestFromTo([s EXCEPT !.tls = c.c], q, server, c)
           served == IF works /\ t.tls = c.c THEN Serve(t, q, id, c) ELSE [s |-> t, r |-> Failure]
       IN  Step(IF t.fault THEN t
                ELSE [served.s EXCEPT !.session[id].request = [c |-> c.c, p |-> p, q |-> q, h |-> server, r |-> served.r]])
AppSends ==
  /\ Running /\ hv.requests < MaxRequests
  /\ \E h \in HandlesOf("app", "csession"), q \in {"sm", "server"} :
       \E c \in CommandsTo(hv.session[hv.table["app"][h][2]].opened) :
         /\ c.c = "GetServiceHandle" => hv.registered # 0   \* sm lets the client wait
         /\ Send([hv EXCEPT !.requests = @ + 1], "app", h, q, c)
ServerRegisters ==
  /\ Running /\ hv.registered = 0
  /\ \E h \in HandlesOf("server", "csession") : Send(hv, "server", h, "sm", Command("RegisterService", Service, 0))
Replies ==
  /\ Running
  /\ \E id \in DOMAIN hv.session :
       LET request == hv.session[id].request IN
       /\ request.c # "none"
       /\ LET s == Reply([hv EXCEPT !.tls = IF request.r.ok THEN "ok" ELSE "error"], request.q, request.h, request.p, request.r)
              t == [s EXCEPT !.session[id].request = [c |-> "none"],
                             !.card = IF request.c = "CardUpdateInitialize" THEN s.tls ELSE @]
          IN  Step(IF request.c = "RegisterService" /\ request.r.ok THEN [t EXCEPT !.port[Len(t.port)].service = Service] ELSE t)
Accepts ==
  /\ Running
  /\ \E p \in {"sm", "server"} : Idle(p) /\
       \E h \in HandlesOf(p, "sport") :
         LET id == hv.table[p][h][2] IN hv.port[id].queue # <<>> /\ Step(SVCAcceptSession(hv, p, id, h))
Copies ==
  /\ Running /\ hv.changes < MaxChanges
  /\ \E p \in Process : \E h \in DOMAIN hv.table[p] : Step(SVCDuplicateHandle([hv EXCEPT !.changes = @ + 1], p, h))
\* handles of a pending request stay, and so does the last handle of a port
InUse(p, h) ==
  \E id \in DOMAIN hv.session :
    LET request == hv.session[id].request IN
    request.c # "none" /\ (\/ hv.table[p][h][2] = id /\ hv.table[p][h][1] \in {"csession", "ssession"}
                           \/ p = request.q /\ h \in ToSet(request.r.handles))
Closes ==
  /\ Running /\ hv.changes < MaxChanges
  /\ \E p \in Process : \E h \in DOMAIN hv.table[p] :
       /\ ~InUse(p, h) /\ (p = "sm" => h # hv.registered)
       /\ hv.table[p][h][1] \in {"sport", "cport"} => Cardinality(HandlesTo(p, hv.table[p][h])) > 1
       /\ Step(CloseHandle([hv EXCEPT !.changes = @ + 1], p, h))

\* sm has created its port, and both processes have their session to it
Empty(service, update, memory) ==
  [service |-> service, update |-> update, memory |-> memory, table |-> [p \in Process |-> [h \in {} |-> <<>>]],
   next |-> [p \in Process |-> 0], port |-> <<>>, session |-> <<>>, events |-> 0, obj |-> <<>>,
   entry |-> [p \in Process |-> [h \in {} |-> 0]], ports |-> <<>>, archives |-> {}, opened |-> {}, nextArchive |-> 1,
   registered |-> 0, requests |-> 0, changes |-> 0, tls |-> "", card |-> "", updating |-> FALSE, fault |-> FALSE, stopped |-> FALSE]
Connected(s) == SVCConnectToPort(SVCConnectToPort(SVCCreatePort(s, "sm", "srv:"), "server", "srv:"), "app", "srv:")
Booted(s) == SVCAcceptSession(SVCAcceptSession(Connected(s), "sm", 1, 1), "sm", 1, 1)
Init == \E service \in Services, update \in BOOLEAN :
  /\ update => service_factory_map(service) = "ns"
  /\ \E memory \in PipeStates(service_factory_map(service)) : hv = Booted(Empty(service, update, memory))
Next == AppSends \/ ServerRegisters \/ Replies \/ Accepts \/ Copies \/ Closes
Spec == Init /\ [][Next]_vars

-----------------------------------------------------------------------------
(* However handles are copied, passed on and closed, the hypervisor has an *)
(* object for exactly the handles of ports and sessions that exist, no     *)
(* precondition of its own is ever broken, and the object names the        *)
(* service, file or directory the session was opened for and has its       *)
(* handler; only what is still under way to its client has no name yet.    *)
UnderWay(object) ==
  \E id \in DOMAIN hv.session :
    LET request == hv.session[id].request IN
    request.c # "none" /\ \E h \in ToSet(request.r.handles) : hv.table[request.q][h][2] = object[2] /\ object[1] # "event"
Tracked(p, h) ==
  LET object == hv.table[p][h]
      ref == hv.entry[p][h]
  IN  IF object[1] = "event" THEN h \notin DOMAIN hv.entry[p]
      ELSE /\ h \in DOMAIN hv.entry[p]
           /\ hv.obj[ref].t = IF object[1] \in {"sport", "cport"} THEN "port" ELSE "session"
           /\ UnderWay(object) \/ (IF hv.obj[ref].t = "port" THEN Name(hv, ref) = hv.port[object[2]].service
                                   ELSE /\ Describe(hv, ref) = hv.session[object[2]].opened.name
                                        /\ hv.obj[ref].class = hv.session[object[2]].opened.class)
SessionsTracked ==
  /\ ~hv.fault
  /\ Running => /\ \A p \in Process : DOMAIN hv.entry[p] \subseteq DOMAIN hv.table[p]
                /\ \A p \in Process : \A h \in DOMAIN hv.table[p] : Tracked(p, h)

(* What a handler remembers between requests agrees with the server: the   *)
(* archives are the ones the server has open, the state of the pipe is the *)
(* one the client's reads since LoadComponent lead to, and a card update   *)
(* is answered without the server exactly when the card has none.          *)
Pending(c) == \E id \in DOMAIN hv.session : hv.session[id].request.c = c
ShadowsAgree ==
  Running =>
    /\ ~Pending("OpenArchive") => hv.archives = hv.opened
    /\ \A p \in Process : \A h \in HandlesOf(p, "ssession") :
         LET session == hv.session[hv.table[p][h][2]] IN
         session.opened.class = "dsp" /\ session.request.c = "none" /\ session.reads > 0
           => hv.obj[hv.entry[p][h]].pipe = <<"Reset", "Incomplete", "Finished">>[session.reads]
    /\ IF hv.update THEN hv.card # "no card update" ELSE ~hv.updating /\ hv.card \in {"", "no card update"}
=============================================================================
