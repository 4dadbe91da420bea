------------------------------ MODULE Sessions ------------------------------
(***************************************************************************)
(* Inter-process communication (source/os.cpp): a port, the sessions that  *)
(* client threads open through it, and the server thread that accepts them *)
(* and answers the requests sent through them.                             *)
(*                                                                         *)
(* A system call is one step; which thread makes the next one is left      *)
(* open.  What a system call does when its thread is scheduled again (the  *)
(* callbacks that RunWhenReady leaves) is a step of its own.               *)
(***************************************************************************)
EXTENDS Integers, Sequences, FiniteSets, SequencesExt

CONSTANTS
    Client,       \* the threads of the client process
    Session,      \* the session objects
    MaxSessions,  \* max_sessions of the port
    IsFakePort    \* whether the server is FakePort::Run, or a system module
                  \* that closes the sessions whose client is gone

None == "none"  \* no session, no thread
Port == "port"  \* woken by the port, not by a session

ASSUME SessionsAssumption ==
    /\ MaxSessions \in Nat
    /\ IsFakePort \in BOOLEAN
    /\ {None, Port} \cap (Client \cup Session) = {}

VARIABLES
    available,   \* ServerPort::available_sessions
    offered,     \* ServerPort::session_queue
    slotWaiters, \* the observers of the ClientPort
    handles,     \* the ClientSessions in the handle table of the clients
    moved,       \* those in the table of the server, to be sent with the reply
    accepted,    \* the sessions with a ServerSession
    portless,    \* those of them made by SVCCreateSession
    pending,     \* ServerSession::ipc_commands_pending
    threads,     \* ClientSession::threads
    observers,   \* the observers of every ClientSession
    pc, target,  \* of a client thread: what it does, and with which session
    request,     \* of a client thread: what has become of its request
    server,      \* what the server thread does
    table,       \* the sessions that the server waits on, after the port
    woken,       \* Thread::woken_object of the server
    serving,     \* the client thread whose request the server has read
    fault        \* the failed assertion or exception

sessionVars == <<handles, moved, accepted, portless, pending, threads, observers>>
portVars    == <<available, offered, slotWaiters>>
clientVars  == <<pc, target, request>>
serverVars  == <<server, table, woken, serving>>
vars == <<portVars, sessionVars, clientVars, serverVars, fault>>

-----------------------------------------------------------------------------
(* A client thread that spins or sleeps in a request holds a reference to  *)
(* its ClientSession, as the handle table does.                            *)
Using(c, s) == target[c] = s /\ pc[c] \in {"spin", "asleep"}
ClientAlive(s) == s \in handles \cup moved \/ \E c \in Client : Using(c, s)

Unused == {s \in Session : ~ClientAlive(s) /\ s \notin accepted
                             /\ ~Contains(offered, s)}

(* OS::OnResourceReady for the port or a ServerSession that has become     *)
(* ready: the server wakes if it sleeps on it.                             *)
Waits(x) == server = "asleep" /\ (x = Port \/ Contains(table, x))
Wake(x) == IF Waits(x) THEN server' = "woken" /\ woken' = x
                       ELSE UNCHANGED <<server, woken>>

(* OS::OnResourceReady for a ClientSession: its observers are taken off    *)
(* the front of the list, in the order of their registration, up to the    *)
(* first whose request has not been answered                               *)
(* (ClientSession::TryAcquireImpl).                                        *)
ReadyPrefix(obs, waiting) ==
    {i \in DOMAIN obs : \A j \in 1..i : ~Contains(waiting, obs[j])}
Released(obs, waiting) == {obs[i] : i \in ReadyPrefix(obs, waiting)}
Remaining(obs, waiting) ==
    SubSeq(obs, Cardinality(ReadyPrefix(obs, waiting)) + 1, Len(obs))

Fail(what) == fault' = what /\ UNCHANGED <<portVars, sessionVars, clientVars, serverVars>>
Running(c) == fault = "none" /\ pc[c] = "run"

-----------------------------------------------------------------------------
(* Client threads.                                                         *)

(* SVCConnectToPort, SVCCreateSessionToPort: without a free slot they      *)
(* return an error, otherwise the new session is offered to the server.    *)
SVCConnectToPort(c) ==
    /\ Running(c)
    /\ \/ available = 0 /\ UNCHANGED <<portVars, handles, serverVars>>
       \/ /\ available > 0
          /\ \E s \in Unused : /\ handles' = handles \cup {s}
                               /\ offered' = Append(offered, s)
          /\ available' = available - 1
          /\ Wake(Port)
          /\ UNCHANGED <<slotWaiters, table, serving>>
    /\ UNCHANGED <<moved, accepted, portless, pending, threads, observers,
                   clientVars, fault>>

(* Wait on the client port for a slot to become free. *)
WaitForSlot(c) ==
    /\ Running(c)
    /\ \/ available > 0 /\ UNCHANGED <<slotWaiters, pc>>
       \/ /\ available = 0
          /\ slotWaiters' = slotWaiters \cup {c}
          /\ pc' = [pc EXCEPT ![c] = "slotwait"]
    /\ UNCHANGED <<available, offered, sessionVars, target, request, serverVars, fault>>

(* Wrong variant: a command is announced once, however many wait. *)
CommandReadyLost(s) == IF Waits(s) THEN pending ELSE [pending EXCEPT ![s] = 1]

(* CommandReady, and ServerSession::TryAcquireImpl if the server wakes. *)
CommandReady(s) == IF Waits(s) THEN pending ELSE [pending EXCEPT ![s] = @ + 1]

Announce(s) == pending' = CommandReady(s) /\ Wake(s)

(* SVCWaitSynchronization on the session. *)
AwaitReply(c, s) ==
    /\ pc' = [pc EXCEPT ![c] = "asleep"]
    /\ observers' = [observers EXCEPT ![s] = Append(@, c)]

(* SVCSendSyncRequest: the thread enters the list of the session.  If the  *)
(* session has been accepted, it announces the command and waits for the   *)
(* reply; otherwise it is scheduled out, to try again.                     *)
SVCSendSyncRequest(c) ==
    /\ Running(c)
    /\ \E s \in handles :
         /\ threads' = [threads EXCEPT ![s] = Append(@, c)]
         /\ target' = [target EXCEPT ![c] = s]
         /\ \/ s \in accepted /\ Announce(s) /\ AwaitReply(c, s)
            \/ /\ s \notin accepted
               /\ pc' = [pc EXCEPT ![c] = "spin"]
               /\ UNCHANGED <<pending, observers, server, woken>>
    /\ request' = [request EXCEPT ![c] = "sent"]
    /\ UNCHANGED <<portVars, handles, moved, accepted, portless, table, serving, fault>>

(* The continuation of a thread that was scheduled out, once the session   *)
(* has been accepted.  Its request may have been answered by now: the      *)
(* command of another thread made the server read this one's.              *)
SendSyncRequestContinuation(c) ==
    /\ fault = "none" /\ pc[c] = "spin" /\ target[c] \in accepted
    /\ LET s == target[c]
       IN  /\ Announce(s)
           /\ \/ /\ s \notin handles
                 /\ fault' = "handle not found"
                 /\ UNCHANGED <<observers, clientVars>>
              \/ /\ s \in handles /\ Contains(threads[s], c)
                 /\ AwaitReply(c, s)
                 /\ UNCHANGED <<target, request, fault>>
              \/ /\ s \in handles /\ ~Contains(threads[s], c)
                 /\ pc' = [pc EXCEPT ![c] = "run"]
                 /\ target' = [target EXCEPT ![c] = None]
                 /\ request' = [request EXCEPT ![c] = "none"]
                 /\ UNCHANGED <<observers, fault>>
    /\ UNCHANGED <<portVars, handles, moved, accepted, portless, threads, table, serving>>

(* Wrong variant: the server is not told. *)
CloseClientSessionQuiet(c) ==
    /\ Running(c)
    /\ \E s \in handles : handles' = handles \ {s}
    /\ UNCHANGED <<portVars, moved, accepted, portless, pending, threads, observers,
                   clientVars, serverVars, fault>>

(* OS::CloseHandle for a ClientSession: the last reference tells the       *)
(* server.                                                                 *)
CloseClientSession(c) ==
    /\ Running(c)
    /\ \E s \in handles :
         /\ handles' = handles \ {s}
         /\ IF (\E d \in Client : Using(d, s)) \/ s \notin accepted
            THEN UNCHANGED <<server, woken>>
            ELSE Wake(s)
    /\ UNCHANGED <<portVars, moved, accepted, portless, pending, threads, observers,
                   clientVars, table, serving, fault>>

-----------------------------------------------------------------------------
(* The server thread.                                                      *)

(* The handles that WaitSynchronizationN acquires: the port while sessions *)
(* are offered (ServerPort::TryAcquireImpl), a session while commands are  *)
(* pending or if its client is gone (ServerSession::TryAcquireImpl).       *)
Acquirable(h, live) ==
    IF h = Port THEN offered # <<>> ELSE h \notin live \/ pending[h] > 0

(* Wait on the port and the sessions, of which those in live have a client *)
(* end: the first that can be acquired.                                    *)
Receive(live) ==
    LET all == <<Port>> \o table
        ready == {i \in DOMAIN all : Acquirable(all[i], live)}
    IN  \/ /\ ready = {}
           /\ server' = "asleep" /\ UNCHANGED <<woken, pending>>
        \/ /\ ready # {}
           /\ LET h == all[CHOOSE i \in ready : \A j \in ready : i <= j]
              IN  /\ server' = "woken" /\ woken' = h
                  /\ pending' = IF h \in live
                                THEN [pending EXCEPT ![h] = @ - 1] ELSE pending

(* SVCReplyAndReceive: without a reply ... *)
ReceiveOnly ==
    /\ fault = "none" /\ server = "receive" /\ serving = None
    /\ Receive({s \in Session : ClientAlive(s)})
    /\ UNCHANGED <<portVars, handles, moved, accepted, portless, threads, observers,
                   clientVars, table, serving, fault>>

(* Wrong variant: the reply goes to the thread that asked last. *)
ReplyTargetLast(s) == threads[s][Len(threads[s])]

(* "client_session->threads.front()" *)
ReplyTarget(s) == Head(threads[s])

(* ... and with one: the first thread of the session gets the answer       *)
(* (ClientSession::SetReady) and the handles that move with it, and the    *)
(* observers that can go on are released (OnResourceReady).                *)
ReplyAndReceive ==
    /\ fault = "none" /\ server = "receive" /\ serving # None
    /\ LET s == woken
       IN  IF ~ClientAlive(s) \/ threads[s] = <<>>
           THEN Fail("no client to reply to")
           ELSE LET c == ReplyTarget(s)
                    left == RemoveFirst(threads[s], c)
                    free == Released(observers[s], left)
                IN  /\ threads' = [threads EXCEPT ![s] = left]
                    /\ observers' = [observers EXCEPT ![s] = Remaining(@, left)]
                    /\ pc' = [d \in Client |-> IF d \in free THEN "run" ELSE pc[d]]
                    /\ target' = [d \in Client |-> IF d \in free THEN None ELSE target[d]]
                    /\ request' = [d \in Client |-> IF d \in free THEN "none"
                                                    ELSE IF d = c THEN "answered"
                                                    ELSE request[d]]
                    /\ fault' = IF c = serving THEN fault ELSE "reply to another thread"
                    /\ serving' = None
                    /\ handles' = handles \cup moved /\ moved' = {}
                    /\ Receive(handles' \cup {h \in Session : \E d \in Client \ free : Using(d, h)})
                    /\ UNCHANGED <<portVars, accepted, portless, table>>

(* The callback of SVCReplyAndReceive copies the request of the first      *)
(* thread; the program then acts upon what it was woken by.                *)
Woken ==
    /\ fault = "none" /\ server = "woken"
    /\ \/ /\ woken = Port
          /\ server' = "accept" /\ UNCHANGED <<request, serving, fault>>
       \/ /\ woken # Port /\ ~ClientAlive(woken)
          /\ server' = IF IsFakePort THEN "receive" ELSE "close"
          /\ UNCHANGED <<request, serving, fault>>
       \/ /\ woken # Port /\ ClientAlive(woken)
          /\ server' = "serve"
          /\ IF threads[woken] = <<>>
             THEN fault' = "no request to read" /\ UNCHANGED <<request, serving>>
             ELSE LET c == Head(threads[woken])
                  IN  /\ serving' = c
                      /\ fault' = IF request[c] = "sent" THEN fault
                                  ELSE "request read twice"
                      /\ request' = [request EXCEPT ![c] = "read"]
    /\ UNCHANGED <<portVars, sessionVars, pc, target, table, woken>>

(* SVCAcceptSession; FakePort closes the session again if its table is     *)
(* full.                                                                   *)
SVCAcceptSession ==
    /\ fault = "none" /\ server = "accept"
    /\ IF offered = <<>> THEN Fail("accept of no session")
       ELSE /\ offered' = Tail(offered)
            /\ accepted' = accepted \cup {Head(offered)}
            /\ pending' = [pending EXCEPT ![Head(offered)] = 0]
            /\ IF IsFakePort /\ Len(table) >= MaxSessions
               THEN server' = "close" /\ woken' = Head(offered) /\ UNCHANGED table
               ELSE /\ server' = "receive" /\ table' = Append(table, Head(offered))
                    /\ UNCHANGED woken
            /\ UNCHANGED <<available, slotWaiters, handles, moved, portless, threads,
                           observers, clientVars, serving, fault>>

(* The server handles the request; it may make a session of its own        *)
(* (SVCCreateSession) to hand out with the reply, as for open files.       *)
Serve ==
    /\ fault = "none" /\ server = "serve"
    /\ \/ UNCHANGED <<moved, accepted, portless, pending, table>>
       \/ /\ ~IsFakePort
          /\ \E s \in Unused :
               /\ accepted' = accepted \cup {s}
               /\ portless' = portless \cup {s}
               /\ moved' = {s}
               /\ pending' = [pending EXCEPT ![s] = 0]
               /\ table' = Append(table, s)
    /\ server' = "receive"
    /\ UNCHANGED <<portVars, handles, threads, observers, clientVars, woken, serving, fault>>

(* Wrong variant: every closed session gives a slot back. *)
SlotsAfterCloseAny(s) == available + 1

SlotsAfterClose(s) == IF s \in portless THEN available ELSE available + 1

(* Wrong variant: nobody learns of the free slot. *)
SlotWaitersAfterCloseQuiet(s) == slotWaiters

(* OnResourceReady for the client port: its observers find the free slot. *)
SlotWaitersAfterClose(s) == IF s \in portless THEN slotWaiters ELSE {}

(* OS::CloseHandle for a ServerSession: a slot of its port becomes free. *)
CloseServerSession ==
    /\ fault = "none" /\ server = "close"
    /\ accepted' = accepted \ {woken}
    /\ portless' = portless \ {woken}
    /\ table' = RemoveFirst(table, woken)
    /\ available' = SlotsAfterClose(woken)
    /\ slotWaiters' = SlotWaitersAfterClose(woken)
    /\ pc' = [c \in Client |-> IF c \in slotWaiters \ slotWaiters' THEN "run" ELSE pc[c]]
    /\ server' = "receive"
    /\ UNCHANGED <<offered, handles, moved, pending, threads, observers, target, request,
                   woken, serving, fault>>

-----------------------------------------------------------------------------
Init ==
    /\ available = MaxSessions /\ offered = <<>> /\ slotWaiters = {}
    /\ handles = {} /\ moved = {} /\ accepted = {} /\ portless = {}
    /\ pending = [s \in Session |-> 0]
    /\ threads = [s \in Session |-> <<>>]
    /\ observers = [s \in Session |-> <<>>]
    /\ pc = [c \in Client |-> "run"]
    /\ target = [c \in Client |-> None]
    /\ request = [c \in Client |-> "none"]
    /\ server = "receive" /\ table = <<>> /\ woken = None /\ serving = None
    /\ fault = "none"

ServerStep == \/ ReceiveOnly \/ ReplyAndReceive \/ Woken \/ SVCAcceptSession
              \/ Serve \/ CloseServerSession

Halted == fault # "none" /\ UNCHANGED vars

Next ==
    \/ ServerStep
    \/ \E c \in Client : \/ SVCConnectToPort(c) \/ WaitForSlot(c)
                         \/ SVCSendSyncRequest(c) \/ SendSyncRequestContinuation(c)
                         \/ CloseClientSession(c)
    \/ Halted

Spec == Init /\ [][Next]_vars

-----------------------------------------------------------------------------
(* Properties.                                                             *)

(* Type correctness of the port, session, client and server state. *)
TypeOK ==
    /\ available \in 0..MaxSessions /\ offered \in Seq(Session)
    /\ slotWaiters \subseteq Client
    /\ handles \cup moved \cup accepted \subseteq Session
    /\ portless \subseteq accepted
    /\ pending \in [Session -> Nat]
    /\ threads \in [Session -> Seq(Client)] /\ observers \in [Session -> Seq(Client)]
    /\ pc \in [Client -> {"run", "slotwait", "spin", "asleep"}]
    /\ target \in [Client -> Session \cup {None}]
    /\ request \in [Client -> {"none", "sent", "read", "answered"}]
    /\ server \in {"receive", "asleep", "woken", "accept", "serve", "close"}
    /\ table \in Seq(Session) /\ woken \in Session \cup {Port, None}
    /\ serving \in Client \cup {None}
    /\ fault \in {"none", "handle not found", "no client to reply to", "no request to read",
                  "request read twice", "reply to another thread", "accept of no session"}

(* Every slot of the port is free, taken by a session on offer, or taken   *)
(* by one that the server has accepted and not yet closed: connecting,     *)
(* accepting and closing neither lose nor create slots.                    *)
SlotsConserved ==
    available + Len(offered) + Cardinality(accepted \ portless) = MaxSessions

(* The number of threads that wait for an answer agrees with the number of *)
(* announced commands: a thread has been announced unless it still spins,  *)
(* and the server owes one answer for the command it has taken.  From this *)
(* follows that SVCReplyAndReceive always finds a request to read.         *)
CommandsMatch ==
    \A s \in Session :
        (fault = "none" /\ ClientAlive(s)) =>
            Len(threads[s]) =
                pending[s] + Cardinality({c \in Client : pc[c] = "spin" /\ target[c] = s})
                  + (IF woken = s /\ server \in {"woken", "serve", "receive"}
                         /\ (server = "receive" => serving # None) THEN 1 ELSE 0)

(* Every request is read once, and its answer goes to the thread that sent *)
(* it, although the server reads and answers whichever thread is first in  *)
(* the list of the session, and no assertion of the server's path fails:   *)
(* the commands that are announced are the requests that are there.        *)
ExchangeOK ==
    /\ CommandsMatch
    /\ fault \notin {"no client to reply to", "no request to read", "request read twice",
                     "reply to another thread", "accept of no session"}

(* No lost wake-up: the server does not sleep while there is a session on  *)
(* offer, a command, or a closed session, and nobody sleeps for a free     *)
(* slot while there is one.                                                *)
SessionWakeups ==
    /\ server = "asleep" =>
         /\ offered = <<>>
         /\ \A s \in accepted : ClientAlive(s) /\ pending[s] = 0
    /\ slotWaiters # {} => available = 0

(* The dispatcher gives every thread its turn, and the server handles its  *)
(* requests; what the clients do between requests is up to them.           *)
Fairness ==
    /\ WF_vars(ServerStep)
    /\ \A c \in Client : WF_vars(SendSyncRequestContinuation(c))
FairSpec == Spec /\ Fairness

(* The clients that may keep the server busy in the long run: the server   *)
(* waits on its handles in a fixed order, so that two clients on the       *)
(* sessions before it keep it from looking at a third.                     *)
OnlyBusy(busy) ==
    offered = <<>> /\ \A c \in Client \ busy : request[c] = "none"

(* Every request is answered, and its thread continues, unless two other   *)
(* clients (or new connections) keep the server busy: no wake-up is lost   *)
(* on the way, and one other client, however busy, cannot starve it.       *)
RequestsAnswered ==
    \A c, d \in Client :
        <>[]OnlyBusy({c, d}) => []<>(request[c] = "none" \/ fault # "none")

(* "The server will usually close the ServerSession, which will then free  *)
(* up a session slot": once the clients are quiet, no session stays open   *)
(* whose client is gone.                                                   *)
ClosedSessionsEnd ==
    <>[]OnlyBusy({}) =>
        \A s \in Session : []<>((s \in accepted => ClientAlive(s)) \/ fault # "none")
=============================================================================
