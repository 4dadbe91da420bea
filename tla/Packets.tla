------------------------------- MODULE Packets -------------------------------
(***************************************************************************)
(* The remote protocol of the GDB stub (gdb_stub.cpp): the packets that    *)
(* GDB sends to a stopped program, what the stub does to the program and   *)
(* what it answers.  GDB sends one packet at a time and waits for the      *)
(* answer, so that a packet is one step; the handshake with the core that  *)
(* the commands which run the program make is the module Debugger.  GDB is *)
(* external: it selects only threads that it has been told of since the    *)
(* program stopped.  The connection delivers packets whole, so that their  *)
(* checksums are right.  The handlers of breakpoints, watchpoints and      *)
(* launched processes are left out: nothing calls ProcessEventQueue.       *)
(***************************************************************************)
EXTENDS Integers, Sequences, FiniteSets, SequencesExt, Lists

CONSTANTS Pids,         \* the ids of processes
          Emulated,     \* those that are emulated; the others are no EmuProcess
          Tids,         \* the ids of the threads of a process
          Regs,         \* numbers of registers that GDB asks for
          Addrs,        \* virtual addresses
          Present,       \* those that are mapped
          Bytes,        \* the bytes that GDB writes
          MaxThreads,   \* bound on the threads that are ever created
          MaxAttached,  \* bound on the processes that GDB attaches to
          MaxEdits      \* bound on the changes that GDB makes to registers and memory

AnyId == 0                             \* "any process", "any thread"
\* No process or thread has the id that stands for any; a process starts with thread 1.
ASSUME PacketsAssumption ==
  /\ Emulated \subseteq Pids /\ AnyId \notin Pids
  /\ 1 \in Tids /\ AnyId \notin Tids
  /\ Regs \subseteq Nat /\ Bytes \subseteq 0 .. 255
  /\ Present \subseteq Int /\ IsFiniteSet(Present) /\ Addrs \subseteq Int /\ IsFiniteSet(Addrs)

Escape == 125                        \* '}'
Special == {35, 36, 42, Escape}      \* the bytes that GDB escapes: # $ * }

VARIABLE gdb
\* threads[p]       the threads of process p in their order; <<>> when there is no such process
\* regs, memory     registers of each thread, memory of each process
\* attached         attached_processes
\* thread_for_operation   the entry of 'g', <<>> when there is none; no other is ever read
\* core_running, cur      the stub's flag and env.active_thread
\* posted           the thread whose signal waits in io_context, or <<>>
\* client           GDB: "detached", "stopped", "running" or "waiting" (for a stop reply)
\* last             the last packet and its reply, as far as properties ask for it
\* selected, known  the thread that GDB takes to be selected, and those it has been told of
\* created, edits   how many there have been
\* failed           why the network thread has ended

Thread(p) == {<<p, t>> : t \in ToSet(gdb.threads[p])}
Existing == UNION {Thread(p) : p \in Pids}
Nothing == [packet |-> <<>>, reply |-> <<>>]
NoReply == <<"none">>
Error == <<"E">>
Data(list) == <<"data", list>>

GdbInit == \E p \in Emulated :
  gdb = [threads |-> [q \in Pids |-> <<1>>],
         regs |-> [t \in Pids \X Tids |-> [r \in Regs |-> 0]],
         memory |-> [q \in Pids |-> [a \in Present |-> 0]],
         attached |-> <<>>, thread_for_operation |-> <<>>,
         core_running |-> FALSE, cur |-> <<p, 1>>, posted |-> <<>>, client |-> "detached",
         last |-> Nothing, selected |-> <<>>, known |-> {}, created |-> 0, edits |-> 0, failed |-> "none"]

(***************************************************************************)
(* The program, while it runs.                                             *)
(***************************************************************************)
Ready == gdb.failed = "none"
ProgramRuns == Ready /\ gdb.client \in {"running", "detached"}

Switch == \E t \in Existing : ProgramRuns /\ t[1] \in Emulated /\ t # gdb.cur /\ gdb' = [gdb EXCEPT !.cur = t]
CreateThread == \E t \in Tids :
  /\ ProgramRuns /\ gdb.created < MaxThreads /\ <<gdb.cur[1], t>> \notin Existing
  /\ gdb' = [gdb EXCEPT !.threads[gdb.cur[1]] = Append(@, t), !.created = @ + 1]
\* the last thread of a process takes the process with it
ExitThread == \E t \in Existing \ {gdb.cur} :
  /\ ProgramRuns /\ t[1] \in Emulated /\ gdb' = [gdb EXCEPT !.threads[t[1]] = Erased(@, t[2])]

(***************************************************************************)
(* The packets.  Each is a function of the state that gives the new state  *)
(* and the reply, or the reason for which the network thread ends.         *)
(***************************************************************************)
Did(state, reply) == [state |-> state, reply |-> reply]
Fails(why) == Did([gdb EXCEPT !.failed = why], NoReply)

\* GetThreadForOperation; of 'g' for all of the commands that inspect
ThreadForOperation ==
  LET id == gdb.thread_for_operation
      p == IF id[1] = AnyId THEN gdb.cur[1] ELSE id[1]
      all == gdb.threads[p]
  IN IF id = <<>> THEN <<"outOfRange">>
     ELSE IF all = <<>> THEN <<"processGone">>
     ELSE IF id[2] = AnyId THEN <<p, all[Len(all)]>>
     ELSE IF <<p, id[2]>> \notin Existing THEN <<"threadGone">> ELSE <<p, id[2]>>
Dereferenced(Then(_)) ==
  LET t == ThreadForOperation IN IF Len(t) = 1 THEN Fails(t[1]) ELSE Then(t)
\* most commands answer with an error when the thread is gone; 'g' and 'X' do not look
WithThread(Then(_)) ==
  IF ThreadForOperation = <<"threadGone">> THEN Did(gdb, Error) ELSE Dereferenced(Then)

\* GetRegisterValue knows 0 to 15, 25 and 26 to 58; SetRegisterValue only the first of them
Registers == SelectSeq(SetToSortSeq(Regs, <), LAMBDA r : r < 16 \/ r \in 25 .. 58)
ReadAll == IF gdb.attached = <<>> THEN Did(gdb, Error)
           ELSE Dereferenced(LAMBDA t : Did(gdb, Data([i \in DOMAIN Registers |-> gdb.regs[t][Registers[i]]])))
ReadRegister(r) ==
  WithThread(LAMBDA t : IF r >= 26 THEN Fails("throw")
                        ELSE Did(gdb, IF r < 16 \/ r = 25 THEN Data(<<gdb.regs[t][r]>>) ELSE <<"x">>))
WriteRegister(r, value) ==
  WithThread(LAMBDA t : IF r >= 26 THEN Fails("throw")
                        ELSE Did(IF r < 16 THEN [gdb EXCEPT !.regs[t][r] = value, !.edits = @ + 1] ELSE gdb, <<"OK">>))

Select(id) ==
  IF gdb.attached = <<>> THEN Did(gdb, Error)
  ELSE Did([gdb EXCEPT !.thread_for_operation = id], <<"OK">>)

\* what can be read of the range, up to the first address that is not mapped
ReadMemory(addr, length) ==
  WithThread(LAMBDA t :
    LET readable == {n \in 0 .. length : \A a \in addr .. addr + n - 1 : a \in Present}
        n == CHOOSE n \in readable : \A m \in readable : m <= n
    IN Did(gdb, IF n = 0 THEN Error ELSE Data([i \in 1 .. n |-> gdb.memory[t[1]][addr + i - 1]])))

\* The data of 'X' as it is written: an escape character and the byte with bit 5 changed stand
\* for one byte, and shift all that follow.
Flip(byte) == IF (byte \div 32) % 2 = 1 THEN byte - 32 ELSE byte + 32
Encoded(data) == FlattenSeq([i \in DOMAIN data |-> IF data[i] \in Special THEN <<Escape, Flip(data[i])>> ELSE <<data[i]>>])
StartAfter(text, offset) == 0       \* mutant: the escape is skipped for its own byte only
\* how far start has moved when the byte at offset is taken: one for each escape before it
EscapesBefore(text, offset) ==
  LET at[n \in 0 .. offset] == IF n = 0 THEN 0 ELSE at[n - 1] + (IF text[n + at[n - 1]] = Escape THEN 1 ELSE 0)
  IN at[offset]
Decoded(text, length) ==
  [n \in 1 .. length |-> LET at == n + EscapesBefore(text, n - 1)
                         IN IF text[at] = Escape THEN Flip(text[at + 1]) ELSE text[at]]
WriteMemory(addr, data) ==
  Dereferenced(LAMBDA t :
    LET bytes == Decoded(Encoded(data), Len(data))
    IN IF \E i \in DOMAIN data : addr + i - 1 \notin Present THEN Fails("invalidAddress")
       ELSE Did([gdb EXCEPT !.memory[t[1]] = [a \in Present |-> IF a - addr + 1 \in DOMAIN data THEN bytes[a - addr + 1] ELSE @[a]],
                             !.edits = @ + 1],
                <<"OK">>))

\* 'Z' and 'z': the functions of EmuThread throw, the types 0 and above 4 are unknown
Breakpoint(type) ==
  WithThread(LAMBDA t : IF type \in 1 .. 4 THEN Fails("notImplemented") ELSE Did(gdb, <<"">>))

Connected == Did(gdb, IF gdb.attached = <<>> THEN <<"W00">> ELSE <<"assertion">>)
IsAttached(p) == Did(gdb, Data(<<p \in ToSet(gdb.attached)>>))
\* qfThreadInfo: every process is looked up again and dereferenced
ThreadList ==
  LET list == FlattenSeq([i \in DOMAIN gdb.attached |-> SetToSeq(Thread(gdb.attached[i]))])
  IN IF gdb.attached = <<>> THEN Did(gdb, <<"l">>)
     ELSE IF \E i \in DOMAIN gdb.attached : gdb.threads[gdb.attached[i]] = <<>> THEN Fails("processGone")
     ELSE Did([gdb EXCEPT !.known = @ \cup ToSet(list)], Data(list))
ThreadName(t) == IF gdb.threads[t[1]] = <<>> THEN Fails("processGone")
                 ELSE IF t \notin Existing THEN Fails("threadGone") ELSE Did(gdb, Data(t))
\* 'T' looks up the process twice and the thread never
IsAlive(t) == Did(gdb, IF gdb.threads[t[1]] = <<>> THEN Error ELSE <<"OK">>)
Unsupported == Did(gdb, <<"">>)      \* vMustReplyEmpty, vFile:setfs, qC and what is unknown

\* the commands that change what the program does
Continue == Did([gdb EXCEPT !.core_running = TRUE, !.client = "running"], NoReply)
Matches(id) == {t \in Existing : id[1] \in {AnyId, t[1]} /\ id[2] \in {AnyId, t[2]}}
\* RequestStep returns when a thread that matches has paused; that thread is reported
StepIn(t) == Did([gdb EXCEPT !.cur = t, !.posted = t, !.client = "waiting"], NoReply)
\* the pause is over when a thread of the process runs; its first thread is reported
Attach(p, t) ==
  IF gdb.threads[p] = <<>> \/ p \notin Emulated THEN Did(gdb, Error)
  ELSE Did([gdb EXCEPT !.attached = Append(@, p), !.cur = t, !.posted = <<p, Head(gdb.threads[p])>>,
                       !.client = "waiting"], NoReply)

Receive(packet, did) ==
  /\ Ready /\ gdb.client \in {"detached", "stopped"}
  /\ gdb' = [did.state EXCEPT
               !.last = IF packet[1] \in {"X", "m", "P", "p"} THEN [packet |-> packet, reply |-> did.reply] ELSE Nothing,
               !.selected = IF packet[1] = "H" /\ did.reply = <<"OK">> THEN packet[2] ELSE @]

\* ids that GDB selects threads by
Selectable == gdb.known \cup {<<AnyId, AnyId>>} \cup {<<t[1], AnyId>> : t \in gdb.known}
Inspect ==
  \/ Receive(<<"g">>, ReadAll)
  \/ \E r \in Regs : Receive(<<"p", r>>, ReadRegister(r))
  \/ gdb.edits < MaxEdits /\ \E r \in Regs : Receive(<<"P", r, 1>>, WriteRegister(r, 1))
  \/ \E id \in Selectable : Receive(<<"H", id>>, Select(id))
  \/ \E a \in Addrs, n \in {1, Cardinality(Addrs)} : Receive(<<"m", a, n>>, ReadMemory(a, n))
  \/ \E a \in Addrs, data \in [1 .. Cardinality(Present) -> Bytes] :
       gdb.edits < MaxEdits /\ Receive(<<"X", a, data>>, WriteMemory(a, data))
  \/ \E type \in {0, 1, 4} : Receive(<<"Z", type>>, Breakpoint(type))
Query ==
  \/ Receive(<<"?">>, Connected)
  \/ \E p \in Pids : Receive(<<"qAttached", p>>, IsAttached(p))
  \/ Receive(<<"qfThreadInfo">>, ThreadList)
  \/ \E t \in gdb.known : Receive(<<"qThreadExtraInfo", t>>, ThreadName(t)) \/ Receive(<<"T", t>>, IsAlive(t))
  \/ Receive(<<"qC">>, Unsupported)
Resume ==
  \/ gdb.client # "detached" /\ Receive(<<"vCont_c">>, Continue)
  \/ \E id \in gdb.known : \E t \in Matches(id) : Receive(<<"vCont_s", id>>, StepIn(t))
  \/ Len(gdb.attached) < MaxAttached /\ \E p \in Pids : \E t \in IF p \in Emulated /\ gdb.threads[p] # <<>> THEN Thread(p) ELSE {gdb.cur} :
       Receive(<<"vAttach", p>>, Attach(p, t))

KeptSelection(t) == gdb.thread_for_operation     \* mutant: a stop leaves the selection alone
\* the entry, if it exists, is set to the thread that stopped
ResetSelection(t) == IF gdb.thread_for_operation = <<>> THEN <<>> ELSE t
ReportSignal(t, client) ==
  gdb' = [gdb EXCEPT !.thread_for_operation = ResetSelection(t), !.posted = <<>>, !.core_running = FALSE,
                     !.client = client, !.selected = t, !.known = {t}, !.last = Nothing]
Posted == Ready /\ gdb.posted # <<>> /\ gdb.client = "waiting" /\ ReportSignal(gdb.posted, "stopped")
\* the core is paused wherever it is; without core_running the handler throws
Interrupt ==
  /\ Ready /\ gdb.client \in {"running", "stopped"}
  /\ IF gdb.core_running THEN ReportSignal(gdb.cur, "stopped")
     ELSE gdb' = [gdb EXCEPT !.failed = "notRunning"]

GdbNext == \/ Switch \/ CreateThread \/ ExitThread
        \/ Inspect \/ Query \/ Resume \/ Posted \/ Interrupt
GdbSpec == GdbInit /\ [][GdbNext]_gdb

(***************************************************************************)
(* Properties.                                                             *)
(***************************************************************************)
Ids == (Pids \cup {AnyId}) \X (Tids \cup {AnyId})
Packet == {<<>>} \cup {"p"} \X Regs \cup {"P"} \X Regs \X Int \cup {"m"} \X Addrs \X Nat \cup {"X"} \X Addrs \X Seq(Bytes)
Reply == {<<>>, NoReply, Error, <<"OK">>, <<"x">>, <<"">>} \cup {"data"} \X Seq(Int)
Failures == {"none", "threadGone", "processGone", "outOfRange", "throw", "invalidAddress", "notImplemented", "notRunning"}
State == [threads : [Pids -> Seq(Tids)], regs : [Pids \X Tids -> [Regs -> Int]], memory : [Pids -> [Present -> Int]],
          attached : Seq(Pids), thread_for_operation : {<<>>} \cup Ids, core_running : BOOLEAN, cur : Pids \X Tids,
          posted : {<<>>} \cup Pids \X Tids, client : {"detached", "stopped", "running", "waiting"},
          last : [packet : Packet, reply : Reply], selected : {<<>>} \cup Ids, known : SUBSET (Pids \X Tids),
          created : Nat, edits : Nat, failed : Failures]
GdbTypeOK == gdb \in State

Settled == gdb.client = "stopped" /\ Ready
\* Whatever ran, was created or ended between two stops, GDB and the stub mean the same
\* thread, once GDB has selected one: the stub never looks up a thread that has ended.
SelectionAgrees ==
  /\ Settled /\ gdb.thread_for_operation # <<>> => gdb.thread_for_operation = gdb.selected
  /\ gdb.failed # "threadGone"

\* What GDB wrote into registers or memory is there, through any escapes, and what it was told
\* is what the thread has that it means.
RepliesRight ==
  LET packet == gdb.last.packet
      reply == gdb.last.reply
      t == ThreadForOperation
  IN Settled /\ packet # <<>> /\ packet[1] \in {"X", "m", "P", "p"} /\ reply # Error =>
       CASE packet[1] = "X" -> \A i \in DOMAIN packet[3] : gdb.memory[t[1]][packet[2] + i - 1] = packet[3][i]
         [] packet[1] = "m" -> /\ \A i \in DOMAIN reply[2] : gdb.memory[t[1]][packet[2] + i - 1] = reply[2][i]
                               /\ Len(reply[2]) < packet[3] => packet[2] + Len(reply[2]) \notin Present
         [] packet[1] = "P" -> packet[2] < 16 => gdb.regs[t][packet[2]] = packet[3]
         [] packet[1] = "p" -> packet[2] < 16 => reply = Data(<<gdb.regs[t][packet[2]]>>)
\* GDB and the stub mean the same thread after every stop, and GDB reads and writes the registers
\* and the memory of that thread (HandlePacket, ReportSignal).
InspectionRight == SelectionAgrees /\ RepliesRight
=============================================================================
