--------------------------- MODULE SessionsProofs ---------------------------
(***************************************************************************)
(* Proofs about the sessions of a port, for every number of client threads *)
(* and of session objects, every max_sessions and both kinds of server.    *)
(*                                                                         *)
(* What the module Sessions promises about slots, wake-ups and answers     *)
(* rests on each other: the server finds a request when a command wakes it *)
(* because announced commands are counted (CountInv), the count is right   *)
(* because a thread stands in the list of its session exactly while its    *)
(* request is unanswered (ListsInv), and it stays right over a reply       *)
(* because the server answers the thread it has read (ServingInv).  Inv    *)
(* joins these; one lemma for every system call shows that it is kept.     *)
(***************************************************************************)
EXTENDS Sessions, ListLemmas, SequenceTheorems, FiniteSetTheorems, TLAPS

(* The sessions on offer and the sessions of the server, each listed once. *)
PortInv ==
    /\ Distinct(offered) /\ Distinct(table)
    /\ \A s \in Session : Contains(offered, s) => s \notin accepted
    /\ \A s \in Session : Contains(table, s) => s \in accepted
    /\ \A s \in accepted : Contains(table, s) \/ (server = "close" /\ woken = s)
    /\ IsFiniteSet(accepted \ portless)
    /\ \A s \in handles : s \notin moved

(* What the server was woken by, at each of its points. *)
ServerInv ==
    /\ server = "woken" => woken \in accepted \cup {Port}
    /\ server = "accept" => woken = Port
    /\ server \in {"serve", "close"} \/ serving # None => woken \in accepted
    /\ server \in {"woken", "accept"} /\ woken = Port => offered # <<>>
    /\ serving # None => server \in {"serve", "receive"}
    /\ server = "serve" => serving # None
    /\ moved # {} => server = "receive" /\ serving # None

(* No command is announced to a session that has not been accepted. *)
OfferInv == \A s \in Session : Contains(offered, s) => pending[s] = 0

(* A client thread is in a request while it spins or sleeps on a session, and *)
(* a thread that waits for a slot does nothing else.                          *)
StatesInv ==
    /\ \A c \in Client : pc[c] \in {"spin", "asleep"} <=> request[c] # "none"
    /\ \A c \in Client : target[c] \in Session <=> request[c] # "none"
    /\ \A c \in slotWaiters : pc[c] = "slotwait"

(* A client thread is in the list of a session exactly while its request has *)
(* not been answered, and registered with a session only while it sleeps.    *)
Pends(c, s) == target[c] = s /\ request[c] \in {"sent", "read"}
Sleeps(c, s) == target[c] = s /\ pc[c] = "asleep"
ListsInv ==
    /\ \A s \in Session : Distinct(threads[s]) /\ Distinct(observers[s])
    /\ \A s \in Session, c \in Client : Contains(threads[s], c) <=> Pends(c, s)
    /\ \A s \in Session, c \in Client : Contains(observers[s], c) => Sleeps(c, s)

(* The server has read the request of the first thread of the session that   *)
(* woke it, and no other that it still has to answer.                        *)
ServingInv ==
    /\ serving # None => threads[woken] # <<>> /\ Head(threads[woken]) = serving
    /\ \A c \in Client : request[c] = "read" <=> c = serving

(* The threads of a session are as many as the commands that are announced,  *)
(* still to be announced, and taken by the server.                           *)
Spinning(s) == {c \in Client : pc[c] = "spin" /\ target[c] = s}
Owed(s) == /\ woken = s /\ server \in {"woken", "serve", "receive"}
           /\ server = "receive" => serving # None
Taken(s) == IF Owed(s) /\ ClientAlive(s) THEN 1 ELSE 0
CountInv ==
    \A s \in Session :
        /\ IsFiniteSet(Spinning(s))
        /\ Len(threads[s]) = pending[s] + Cardinality(Spinning(s)) + Taken(s)

(* The inductive invariant.  A client that closes a session on which another *)
(* of its threads still spins ends the emulation in the middle of that       *)
(* thread's system call, when the counts do not match any more.              *)
Inv == /\ TypeOK /\ PortInv /\ OfferInv /\ SlotsConserved /\ ServerInv /\ SessionWakeups
       /\ StatesInv /\ ListsInv /\ ServingInv
       /\ fault \in {"none", "handle not found"}
       /\ fault = "none" => CountInv

-----------------------------------------------------------------------------
(* What OnResourceReady leaves of the observers. *)
LEMMA RemainingObservers ==
    ASSUME NEW S, NEW obs \in Seq(S), NEW waiting, Distinct(obs)
    PROVE  /\ Remaining(obs, waiting) \in Seq(S) /\ Distinct(Remaining(obs, waiting))
           /\ \A d \in Released(obs, waiting) : Contains(obs, d) /\ ~Contains(waiting, d)
           /\ \A d : Contains(Remaining(obs, waiting), d)
                     => Contains(obs, d) /\ d \notin Released(obs, waiting)
<1> DEFINE I == ReadyPrefix(obs, waiting)
           n == Cardinality(I)
           r == Remaining(obs, waiting)
<1>1. Len(obs) \in Nat /\ DOMAIN obs = 1..Len(obs)
  BY LenProperties
<1>2. IsFiniteSet(I) /\ n \in Nat
  <2>1. I \in SUBSET (1..Len(obs)) /\ IsFiniteSet(1..Len(obs))
    BY <1>1, FS_Interval DEF ReadyPrefix
  <2> QED BY <2>1, FS_Subset, FS_CardinalityType
<1>3. ASSUME NEW i \in I PROVE i <= n
  <2>1. i \in Nat /\ i > 0 /\ 1..i \in SUBSET I
    BY <1>1 DEF ReadyPrefix
  <2>2. Cardinality(1..i) = i
    BY <2>1, FS_Interval
  <2> QED BY <1>2, <2>1, <2>2, FS_Subset
<1>4. /\ r \in Seq(S)
      /\ Len(r) = IF n + 1 <= Len(obs) THEN Len(obs) - n ELSE 0
      /\ \A k \in 1..Len(r) : r[k] = obs[n + k]
  <2> HIDE DEF n
  <2> QED BY SMTT(30), <1>1, <1>2, SubSeqProperties DEF Remaining, n
<1> HIDE DEF r, n, I
<1>5. \A k \in 1..Len(r) : n + k \in 1..Len(obs) /\ r[k] = obs[n + k]
  <2>1. ASSUME NEW k \in 1..Len(r) PROVE n + k \in 1..Len(obs)
    <3>1. CASE n + 1 <= Len(obs)
      BY <1>1, <1>2, <1>4, <2>1, <3>1
    <3>2. CASE ~(n + 1 <= Len(obs))
      BY <1>1, <1>2, <1>4, <2>1, <3>2
    <3> QED BY <3>1, <3>2
  <2> QED BY <1>4, <2>1
<1>6. Distinct(r)
  <2> SUFFICES ASSUME NEW i \in 1..Len(r), NEW j \in 1..Len(r), r[i] = r[j] PROVE i = j
    BY DEF Distinct
  <2>1. n + i \in 1..Len(obs) /\ n + j \in 1..Len(obs) /\ obs[n + i] = obs[n + j]
    BY <1>5
  <2>2. n + i = n + j
    BY <2>1 DEF Distinct
  <2> QED BY <1>2, <1>4, <2>2
<1>7. ASSUME NEW d \in Released(obs, waiting) PROVE Contains(obs, d) /\ ~Contains(waiting, d)
  <2>1. PICK i \in I : d = obs[i]
    BY DEF Released, I
  <2>2. i \in 1..Len(obs) /\ ~Contains(waiting, obs[i])
    BY <1>1 DEF ReadyPrefix, I
  <2> QED BY <2>1, <2>2 DEF Contains
<1>8. ASSUME NEW d, Contains(r, d)
      PROVE  Contains(obs, d) /\ d \notin Released(obs, waiting)
  <2>1. PICK k \in 1..Len(r) : r[k] = d
    BY <1>8 DEF Contains
  <2>2. n + k \in 1..Len(obs) /\ obs[n + k] = d /\ n + k > n
    BY <1>2, <1>4, <1>5, <2>1
  <2>3. n + k \notin I
    BY <1>2, <1>3, <2>2
  <2>4. ASSUME NEW i \in I PROVE obs[i] # d
    BY <1>1, <2>2, <2>3, <2>4 DEF Distinct, ReadyPrefix, I
  <2> QED BY <2>2, <2>4 DEF Contains, Released, I
<1> QED BY <1>4, <1>6, <1>7, <1>8 DEF r

-----------------------------------------------------------------------------
(* The invariant holds when nothing has been connected. *)
LEMMA InitInv == Init => Inv
<1> SUFFICES ASSUME Init PROVE Inv OBVIOUS
<1> USE DEF Init
<1>1. TypeOK
  <2>1. available \in 0..MaxSessions /\ offered \in Seq(Session) /\ table \in Seq(Session)
    BY SessionsAssumption
  <2>2. /\ pending \in [Session -> Nat] /\ threads \in [Session -> Seq(Client)]
        /\ observers \in [Session -> Seq(Client)]
    OBVIOUS
  <2>3. /\ pc \in [Client -> {"run", "slotwait", "spin", "asleep"}]
        /\ target \in [Client -> Session \cup {None}]
        /\ request \in [Client -> {"none", "sent", "read", "answered"}]
    OBVIOUS
  <2>4. /\ slotWaiters \subseteq Client /\ handles \cup moved \cup accepted \subseteq Session
        /\ portless \subseteq accepted
    OBVIOUS
  <2>5. /\ server \in {"receive", "asleep", "woken", "accept", "serve", "close"}
        /\ woken \in Session \cup {Port, None} /\ serving \in Client \cup {None}
    OBVIOUS
  <2>6. fault = "none"
    OBVIOUS
  <2> HIDE DEF Init
  <2> QED BY <2>1, <2>2, <2>3, <2>4, <2>5, <2>6 DEF TypeOK
<1>2. PortInv /\ SlotsConserved
  BY FS_EmptySet, SessionsAssumption DEF PortInv, SlotsConserved, Distinct, Contains
<1>3. ServerInv /\ SessionWakeups /\ ServingInv
  BY SessionsAssumption DEF ServerInv, SessionWakeups, ServingInv
<1>4. StatesInv /\ ListsInv
  BY SessionsAssumption DEF StatesInv, ListsInv, Pends, Sleeps, Distinct, Contains
<1>5. CountInv
  <2> SUFFICES ASSUME NEW s \in Session
               PROVE  /\ IsFiniteSet(Spinning(s))
                      /\ Len(threads[s]) = pending[s] + Cardinality(Spinning(s)) + Taken(s)
    BY DEF CountInv
  <2>1. Spinning(s) = {} /\ Taken(s) = 0
    BY SessionsAssumption DEF Spinning, Taken, Owed
  <2> QED BY <2>1, FS_EmptySet
<1>6. OfferInv
  BY DEF OfferInv, Contains
<1> QED BY <1>1, <1>2, <1>3, <1>4, <1>5, <1>6 DEF Inv

(* Waiting for a slot of the port. *)
LEMMA WaitForSlotStep == ASSUME Inv, NEW c \in Client, WaitForSlot(c) PROVE Inv'
<1> USE DEF WaitForSlot, Running
<1>1. TypeOK'
  BY DEF Inv, TypeOK, sessionVars, serverVars
<1>2. PortInv' /\ SlotsConserved'
  BY DEF Inv, PortInv, SlotsConserved, sessionVars, serverVars
<1>3. \A s : ClientAlive(s)' <=> ClientAlive(s)
  BY DEF Inv, TypeOK, ClientAlive, Using, sessionVars
<1>4. ServerInv' /\ SessionWakeups' /\ ServingInv'
  BY <1>3 DEF Inv, TypeOK, ServerInv, SessionWakeups, ServingInv, sessionVars, serverVars
<1>5. StatesInv' /\ ListsInv'
  <2>1. pc[c] = "run" /\ \A d \in Client : d # c => pc'[d] = pc[d]
    BY DEF Inv, TypeOK
  <2>2. pc'[c] \in {"run", "slotwait"} /\ \A d \in slotWaiters' : d = c => pc'[d] = "slotwait"
    BY DEF Inv, TypeOK, StatesInv
  <2>3. StatesInv'
    BY <2>1, <2>2 DEF Inv, TypeOK, StatesInv
  <2>4. \A d \in Client, s \in Session : (Pends(d, s)' <=> Pends(d, s)) /\ (Sleeps(d, s)' <=> Sleeps(d, s))
    BY <2>1, <2>2 DEF Pends, Sleeps
  <2>5. ListsInv'
    BY <2>4 DEF Inv, ListsInv, sessionVars
  <2> QED BY <2>3, <2>5
<1>6. CountInv'
  <2>1. \A s \in Session : Spinning(s)' = Spinning(s) /\ Taken(s)' = Taken(s)
    BY <1>3 DEF Inv, TypeOK, Spinning, Taken, Owed, sessionVars, serverVars
  <2> QED BY <2>1 DEF Inv, CountInv, sessionVars
<1>7. OfferInv'
  BY DEF Inv, OfferInv, sessionVars
<1> QED BY <1>1, <1>2, <1>4, <1>5, <1>6, <1>7 DEF Inv

(* The numbers of SlotsConserved. *)
LEMMA Numbers ==
    ASSUME Inv
    PROVE  /\ MaxSessions \in Nat /\ available \in Nat /\ available <= MaxSessions
           /\ offered \in Seq(Session) /\ Len(offered) \in Nat
           /\ IsFiniteSet(accepted \ portless) /\ Cardinality(accepted \ portless) \in Nat
           /\ available + Len(offered) + Cardinality(accepted \ portless) = MaxSessions
<1>1. available \in 0..MaxSessions /\ offered \in Seq(Session)
  BY DEF Inv, TypeOK
<1>2. IsFiniteSet(accepted \ portless)
  BY DEF Inv, PortInv
<1>3. MaxSessions \in Nat /\ Len(offered) \in Nat /\ Cardinality(accepted \ portless) \in Nat
  BY <1>1, <1>2, SessionsAssumption, LenProperties, FS_CardinalityType
<1>4. available + Len(offered) + Cardinality(accepted \ portless) = MaxSessions
  BY DEF Inv, SlotsConserved
<1> QED BY <1>1, <1>2, <1>3, <1>4

(* Steps that change nothing. *)
LEMMA Stutter == ASSUME Inv, UNCHANGED vars PROVE Inv'
<1> USE DEF vars, portVars, sessionVars, clientVars, serverVars
<1>1. \A s : ClientAlive(s)' <=> ClientAlive(s)
  BY DEF ClientAlive, Using
<1>2. TypeOK' /\ PortInv' /\ SlotsConserved'
  BY DEF Inv, TypeOK, PortInv, SlotsConserved
<1>3. ServerInv' /\ ServingInv' /\ StatesInv' /\ ListsInv'
  BY DEF Inv, ServerInv, ServingInv, StatesInv, ListsInv, Pends, Sleeps
<1>4. SessionWakeups'
  BY <1>1 DEF Inv, SessionWakeups
<1>5. CountInv => CountInv'
  BY <1>1 DEF CountInv, Spinning, Taken, Owed
<1>6. OfferInv'
  BY DEF Inv, OfferInv
<1> QED BY <1>2, <1>3, <1>4, <1>5, <1>6 DEF Inv

(* What Wake does: the server goes on, or nothing changes. *)
LEMMA WakeEffect ==
    ASSUME Inv, NEW x \in accepted \cup {Port}, Wake(x)
    PROVE  /\ server = "asleep" => server' = "woken" /\ woken' = x
           /\ server # "asleep" => server' = server /\ woken' = woken
           /\ Waits(x) <=> server = "asleep"
<1>1. server = "asleep" => x = Port \/ Contains(table, x)
  BY DEF Inv, PortInv
<1> QED BY <1>1 DEF Wake, Waits

(* A session with a request that has not been answered has a client. *)
LEMMA PendingAlive ==
    ASSUME Inv, NEW s \in Session, threads[s] # <<>>
    PROVE  \E d \in Client : Using(d, s)
<1>1. threads[s] \in Seq(Client)
  BY DEF Inv, TypeOK
<1>2. Head(threads[s]) \in Client /\ Contains(threads[s], Head(threads[s]))
  BY <1>1, ContainsTail
<1>3. Pends(Head(threads[s]), s)
  BY <1>2 DEF Inv, ListsInv
<1> QED BY <1>2, <1>3 DEF Pends, Using, Inv, StatesInv

(* A session that nobody uses has no threads and no commands. *)
LEMMA UnusedEmpty ==
    ASSUME Inv, fault = "none", NEW s \in Session, \A d \in Client : ~Using(d, s)
    PROVE  threads[s] = <<>> /\ pending[s] = 0 /\ Cardinality(Spinning(s)) = 0 /\ Taken(s) = 0
<1>1. threads[s] = <<>>
  BY PendingAlive
<1>2. /\ IsFiniteSet(Spinning(s)) /\ Len(threads[s]) = pending[s] + Cardinality(Spinning(s)) + Taken(s)
      /\ pending[s] \in Nat
  BY DEF Inv, TypeOK, CountInv
<1>3. Cardinality(Spinning(s)) \in Nat /\ Taken(s) \in {0, 1} /\ Len(threads[s]) = 0
  BY <1>1, <1>2, FS_CardinalityType DEF Taken
<1> QED BY <1>1, <1>2, <1>3

(* A new session is connected and offered to the server. *)
LEMMA ConnectStep == ASSUME Inv, NEW c \in Client, SVCConnectToPort(c) PROVE Inv'
<1>1. CASE available = 0 /\ UNCHANGED <<portVars, handles, serverVars>>
  <2>1. UNCHANGED vars
    BY <1>1 DEF SVCConnectToPort, vars, portVars, sessionVars, clientVars, serverVars
  <2> QED BY <2>1, Stutter
<1> SUFFICES ASSUME available > 0,
                    NEW s \in Unused, handles' = handles \cup {s},
                    offered' = Append(offered, s), available' = available - 1, Wake(Port),
                    UNCHANGED <<slotWaiters, table, serving, moved, accepted, portless, pending,
                                threads, observers, clientVars, fault>>
             PROVE  Inv'
  BY <1>1 DEF SVCConnectToPort
<1>0. /\ s \in Session /\ s \notin accepted /\ ~Contains(offered, s) /\ ~ClientAlive(s)
      /\ \A d \in Client : ~Using(d, s)
  BY DEF Unused, ClientAlive
<1>2. /\ server = "asleep" => server' = "woken" /\ woken' = Port
      /\ server # "asleep" => server' = server /\ woken' = woken
  BY WakeEffect
<1>3. /\ offered' \in Seq(Session) /\ Len(offered') = Len(offered) + 1 /\ Distinct(offered')
      /\ \A e : Contains(offered', e) <=> Contains(offered, e) \/ e = s
      /\ offered' # <<>>
  <2>1. s \in Session /\ offered \in Seq(Session) /\ Distinct(offered) /\ ~Contains(offered, s)
    BY <1>0 DEF Inv, TypeOK, PortInv
  <2> QED BY <2>1, ContainsAppend
<1>4. TypeOK'
  <2>1. available' \in 0..MaxSessions
    BY Numbers
  <2> QED BY <1>0, <1>2, <1>3, <2>1 DEF Inv, TypeOK, clientVars
<1>5. PortInv'
  BY <1>0, <1>2, <1>3 DEF Inv, TypeOK, PortInv, ClientAlive
<1>6. SlotsConserved'
  <2>1. (accepted \ portless)' = accepted \ portless
    OBVIOUS
  <2> QED BY <1>3, <2>1, Numbers DEF SlotsConserved
<1>7. \A t : ClientAlive(t)' <=> ClientAlive(t) \/ t = s
  BY DEF ClientAlive, Using, clientVars
<1>8. ServerInv'
  BY <1>2, <1>3 DEF Inv, ServerInv
<1>9. SessionWakeups'
  <2>1. server' # "asleep"
    BY <1>2
  <2>2. slotWaiters' = {}
    <3>1. available # 0
      BY Numbers
    <3> QED BY <3>1 DEF Inv, SessionWakeups
  <2> QED BY <2>1, <2>2 DEF SessionWakeups
<1>10. ServingInv'
  BY <1>2 DEF Inv, ServerInv, ServingInv, clientVars
<1>11. StatesInv' /\ ListsInv'
  BY DEF Inv, StatesInv, ListsInv, Pends, Sleeps, clientVars
<1>12. CountInv'
  <2>1. \A t \in Session : Spinning(t)' = Spinning(t)
    BY DEF Spinning, clientVars
  <2>2. ASSUME NEW t \in Session PROVE Taken(t)' = Taken(t)
    <3>1. t # s => (ClientAlive(t)' <=> ClientAlive(t))
      BY <1>7
    <3>2. Port # t
      BY SessionsAssumption
    <3>3. Owed(t)' <=> Owed(t)
      BY <1>2, <3>2 DEF Inv, ServerInv, Owed
    <3>4. ~Owed(s)
      BY <1>0, SessionsAssumption DEF Inv, ServerInv, Owed
    <3> QED BY <3>1, <3>3, <3>4 DEF Taken
  <2> QED BY <2>1, <2>2 DEF Inv, CountInv, SVCConnectToPort, Running
<1>13. OfferInv'
  <2>1. pending[s] = 0
    BY <1>0, UnusedEmpty DEF SVCConnectToPort, Running
  <2> QED BY <1>3, <2>1 DEF Inv, OfferInv
<1> QED BY <1>4, <1>5, <1>6, <1>8, <1>9, <1>10, <1>11, <1>12, <1>13 DEF Inv

(* What Announce does: one more command is pending, or taken by the server. *)
LEMMA AnnounceEffect ==
    ASSUME Inv, NEW s \in accepted, Announce(s), serving' = serving
    PROVE  /\ pending' \in [Session -> Nat] /\ s \in Session
           /\ server' # "asleep" /\ server' \in {server, "woken"} /\ woken' \in {woken, s}
           /\ server # "asleep" => server' = server /\ woken' = woken
           /\ server = "asleep" => server' = "woken" /\ woken' = s
           /\ \A t \in Session : t # s => pending'[t] = pending[t] /\ (Owed(t)' <=> Owed(t))
           /\ \/ pending'[s] = pending[s] + 1 /\ (Owed(s)' <=> Owed(s))
              \/ pending'[s] = pending[s] /\ Owed(s)' /\ ~Owed(s)
<1>1. s \in Session /\ pending \in [Session -> Nat]
  BY DEF Inv, TypeOK
<1>2. /\ server = "asleep" => server' = "woken" /\ woken' = s
      /\ server # "asleep" => server' = server /\ woken' = woken
      /\ Waits(s) <=> server = "asleep"
  BY WakeEffect DEF Announce
<1>3. pending' = IF server = "asleep" THEN pending ELSE [pending EXCEPT ![s] = @ + 1]
  BY <1>2 DEF Announce, CommandReady
<1>4. \A t \in Session : server = "asleep" => ~Owed(t) /\ (Owed(t)' <=> t = s)
  BY <1>2 DEF Owed
<1>5. \A t \in Session : server # "asleep" => (Owed(t)' <=> Owed(t))
  BY <1>2 DEF Owed
<1>6. CASE server = "asleep"
  BY <1>1, <1>2, <1>3, <1>4, <1>6
<1>7. CASE server # "asleep"
  BY <1>1, <1>2, <1>3, <1>5, <1>7
<1> QED BY <1>6, <1>7

(* A thread that runs has no request and is in no list. *)
LEMMA RunningIdle ==
    ASSUME Inv, NEW c \in Client, Running(c)
    PROVE  /\ fault = "none" /\ CountInv
           /\ pc[c] = "run" /\ request[c] = "none" /\ target[c] \notin Session /\ c # serving
           /\ c \notin slotWaiters
           /\ \A s \in Session : ~Contains(threads[s], c) /\ ~Contains(observers[s], c) /\ ~Using(c, s)
<1>1. fault = "none" /\ pc[c] = "run" /\ CountInv
  BY DEF Running, Inv
<1>2. request[c] = "none" /\ target[c] \notin Session /\ c \notin slotWaiters
  BY <1>1 DEF Inv, StatesInv
<1>3. c # serving
  BY <1>2 DEF Inv, ServingInv
<1>4. \A s \in Session : ~Contains(threads[s], c) /\ ~Contains(observers[s], c)
  BY <1>1, <1>2 DEF Inv, ListsInv, Pends, Sleeps
<1> QED BY <1>1, <1>2, <1>3, <1>4 DEF Using

(* A request is sent: the thread enters the list of the session. *)
LEMMA SendStep == ASSUME Inv, NEW c \in Client, SVCSendSyncRequest(c) PROVE Inv'
<1>1. PICK s \in handles :
        /\ threads' = [threads EXCEPT ![s] = Append(@, c)]
        /\ target' = [target EXCEPT ![c] = s]
        /\ \/ s \in accepted /\ Announce(s) /\ AwaitReply(c, s)
           \/ /\ s \notin accepted
              /\ pc' = [pc EXCEPT ![c] = "spin"]
              /\ UNCHANGED <<pending, observers, server, woken>>
  BY DEF SVCSendSyncRequest
<1>2. /\ request' = [request EXCEPT ![c] = "sent"]
      /\ UNCHANGED <<available, offered, slotWaiters, handles, moved, accepted, portless, table,
                     serving, fault>>
  BY DEF SVCSendSyncRequest, portVars
<1>3. /\ fault = "none" /\ CountInv
      /\ pc[c] = "run" /\ request[c] = "none" /\ target[c] \notin Session /\ c # serving
      /\ c \notin slotWaiters
      /\ \A t \in Session : ~Contains(threads[t], c) /\ ~Contains(observers[t], c) /\ ~Using(c, t)
  BY RunningIdle DEF SVCSendSyncRequest
<1>4. /\ s \in Session /\ threads \in [Session -> Seq(Client)] /\ observers \in [Session -> Seq(Client)]
      /\ pending \in [Session -> Nat] /\ DOMAIN pc = Client
      /\ pc \in [Client -> {"run", "slotwait", "spin", "asleep"}]
      /\ target \in [Client -> Session \cup {None}]
      /\ request \in [Client -> {"none", "sent", "read", "answered"}]
  BY DEF Inv, TypeOK
<1>5. /\ threads' \in [Session -> Seq(Client)] /\ Len(threads'[s]) = Len(threads[s]) + 1
      /\ \A t \in Session : t # s => threads'[t] = threads[t]
      /\ \A e : Contains(threads'[s], e) <=> Contains(threads[s], e) \/ e = c
      /\ Distinct(threads'[s])
      /\ threads[s] # <<>> => Head(threads'[s]) = Head(threads[s])
      /\ threads'[s] # <<>>
  <2>1. threads[s] \in Seq(Client) /\ Distinct(threads[s]) /\ threads'[s] = Append(threads[s], c)
    BY <1>1, <1>4 DEF Inv, ListsInv
  <2>2. threads' \in [Session -> Seq(Client)] /\ \A t \in Session : t # s => threads'[t] = threads[t]
    BY <1>1, <1>4
  <2> DEFINE q == threads[s]
  <2>3. /\ Len(Append(q, c)) = Len(q) + 1
        /\ \A e : Contains(Append(q, c), e) <=> Contains(q, e) \/ e = c
        /\ Distinct(q) /\ ~Contains(q, c) => Distinct(Append(q, c))
        /\ q # <<>> => Head(Append(q, c)) = Head(q)
        /\ Append(q, c) # <<>>
    BY <2>1, ContainsAppend
  <2> QED BY <1>3, <1>4, <2>1, <2>2, <2>3
<1>6. /\ pc' \in [Client -> {"run", "slotwait", "spin", "asleep"}]
      /\ pc'[c] = IF s \in accepted THEN "asleep" ELSE "spin"
      /\ target'[c] = s /\ request'[c] = "sent"
      /\ \A d \in Client : d # c => pc'[d] = pc[d] /\ target'[d] = target[d] /\ request'[d] = request[d]
  BY <1>1, <1>2, <1>4 DEF AwaitReply
<1>7. /\ observers' \in [Session -> Seq(Client)]
      /\ \A t \in Session : Distinct(observers'[t])
      /\ \A t \in Session, d \in Client : Contains(observers'[t], d)
             => Contains(observers[t], d) \/ (t = s /\ d = c /\ s \in accepted)
  <2>1. CASE s \in accepted
    <3>1. observers' = [observers EXCEPT ![s] = Append(@, c)]
      BY <1>1, <2>1 DEF AwaitReply
    <3>2. /\ observers[s] \in Seq(Client) /\ Distinct(observers[s])
          /\ observers'[s] = Append(observers[s], c)
      BY <1>4, <3>1 DEF Inv, ListsInv
    <3>3. Distinct(observers'[s]) /\ \A e : Contains(observers'[s], e) <=> Contains(observers[s], e) \/ e = c
      BY <1>3, <1>4, <3>2, ContainsAppend
    <3>4. /\ observers' \in [Session -> Seq(Client)]
          /\ \A t \in Session : t # s => observers'[t] = observers[t]
      BY <1>4, <3>1
    <3> QED BY <2>1, <3>3, <3>4 DEF Inv, ListsInv
  <2>2. CASE s \notin accepted
    BY <1>1, <1>4, <2>2 DEF Inv, ListsInv
  <2> QED BY <2>1, <2>2
<1>8. \A t \in Session : ClientAlive(t)' <=> ClientAlive(t)
  <2>1. \A d \in Client, t \in Session : t # s => (Using(d, t)' <=> Using(d, t))
    BY <1>3, <1>6 DEF Using
  <2> QED BY <1>1, <1>2, <2>1 DEF ClientAlive
<1>9. /\ pending' \in [Session -> Nat] /\ (s \in accepted => server' # "asleep")
      /\ server' \in {server, "woken"} /\ woken' \in {woken, s}
      /\ server # "asleep" => server' = server /\ woken' = woken
      /\ server' = "woken" /\ server # "woken" => woken' = s /\ s \in accepted /\ server = "asleep"
      /\ s \notin accepted => server' = server /\ woken' = woken /\ pending' = pending
      /\ \A t \in Session : t # s => pending'[t] = pending[t] /\ (Owed(t)' <=> Owed(t))
      /\ s \in accepted => \/ pending'[s] = pending[s] + 1 /\ (Owed(s)' <=> Owed(s))
                           \/ pending'[s] = pending[s] /\ Owed(s)' /\ ~Owed(s)
      /\ s \notin accepted => (Owed(s)' <=> Owed(s))
  <2>1. CASE s \in accepted
    BY <1>1, <1>2, <2>1, AnnounceEffect
  <2>2. CASE s \notin accepted
    BY <1>1, <1>2, <1>4, <2>2 DEF Owed
  <2> QED BY <2>1, <2>2
<1>10. TypeOK'
  <2>1. target' \in [Client -> Session \cup {None}] /\ request' \in [Client -> {"none", "sent", "read", "answered"}]
    BY <1>1, <1>2, <1>4
  <2>2. /\ available' \in 0..MaxSessions /\ offered' \in Seq(Session) /\ slotWaiters' \subseteq Client
        /\ handles' \cup moved' \cup accepted' \subseteq Session /\ portless' \subseteq accepted'
        /\ table' \in Seq(Session) /\ serving' \in Client \cup {None} /\ fault' = fault
    BY <1>2 DEF Inv, TypeOK
  <2>3. server' \in {"receive", "asleep", "woken", "accept", "serve", "close"}
    BY <1>9 DEF Inv, TypeOK
  <2>4. woken' \in Session \cup {Port, None}
    BY <1>4, <1>9 DEF Inv, TypeOK
  <2>5. fault' \in {"none", "handle not found", "no client to reply to", "no request to read",
                    "request read twice", "reply to another thread", "accept of no session"}
    BY <2>2 DEF Inv, TypeOK
  <2> QED BY <1>5, <1>6, <1>7, <1>9, <2>1, <2>2, <2>3, <2>4, <2>5 DEF TypeOK
<1>11. PortInv' /\ SlotsConserved'
  <2>1. server = "close" => server' = "close" /\ woken' = woken
    BY <1>9
  <2> QED BY <1>2, <2>1 DEF Inv, PortInv, SlotsConserved
<1>12. ServerInv'
  BY <1>2, <1>4, <1>9, SessionsAssumption DEF Inv, ServerInv
<1>13. SessionWakeups'
  BY <1>2, <1>4, <1>8, <1>9 DEF Inv, TypeOK, SessionWakeups
<1>14. StatesInv'
  <2>1. slotWaiters' \subseteq Client /\ slotWaiters' = slotWaiters
    BY <1>2 DEF Inv, TypeOK
  <2>2. pc'[c] \in {"spin", "asleep"}
    BY <1>6
  <2>3. \A d \in Client : pc'[d] \in {"spin", "asleep"} <=> request'[d] # "none"
    BY <1>6, <2>2 DEF Inv, StatesInv
  <2>4. \A d \in Client : target'[d] \in Session <=> request'[d] # "none"
    BY <1>4, <1>6 DEF Inv, StatesInv
  <2>5. \A d \in slotWaiters' : pc'[d] = "slotwait"
    BY <1>3, <1>6, <2>1 DEF Inv, StatesInv
  <2> QED BY <2>3, <2>4, <2>5 DEF StatesInv
<1>15. ListsInv'
  <2>1. \A t \in Session, d \in Client : Pends(d, t)' <=> Pends(d, t) \/ (d = c /\ t = s)
    BY <1>3, <1>6 DEF Pends
  <2>2. \A t \in Session, d \in Client : Sleeps(d, t) \/ (d = c /\ t = s /\ s \in accepted) => Sleeps(d, t)'
    BY <1>3, <1>6 DEF Sleeps
  <2>3. \A t \in Session, d \in Client : Contains(threads'[t], d) <=> Pends(d, t)'
    BY <1>5, <2>1 DEF Inv, ListsInv
  <2>4. \A t \in Session, d \in Client : Contains(observers'[t], d) => Sleeps(d, t)'
    BY <1>7, <2>2 DEF Inv, ListsInv
  <2> QED BY <1>5, <1>7, <2>3, <2>4 DEF Inv, ListsInv
<1>16. ServingInv'
  <2>1. ASSUME serving # None PROVE threads'[woken'] # <<>> /\ Head(threads'[woken']) = serving
    <3>1. woken' = woken /\ woken \in Session
      BY <1>9, <2>1 DEF Inv, TypeOK, ServerInv
    <3>2. threads[woken] # <<>> /\ Head(threads[woken]) = serving
      BY <2>1 DEF Inv, ServingInv
    <3> QED BY <1>5, <3>1, <3>2
  <2> QED BY <1>2, <1>3, <1>6, <2>1 DEF Inv, ServingInv
<1>17. CountInv'
  <2> SUFFICES ASSUME NEW t \in Session
               PROVE  /\ IsFiniteSet(Spinning(t)')
                      /\ Len(threads'[t]) = pending'[t] + Cardinality(Spinning(t)') + Taken(t)'
    BY DEF CountInv
  <2>1. /\ IsFiniteSet(Spinning(t)) /\ Len(threads[t]) = pending[t] + Cardinality(Spinning(t)) + Taken(t)
        /\ Cardinality(Spinning(t)) \in Nat /\ pending[t] \in Nat /\ Taken(t) \in {0, 1}
    BY <1>3, <1>4, FS_CardinalityType DEF CountInv, Taken
  <2>2. CASE t # s
    <3>1. Spinning(t)' = Spinning(t)
      BY <1>3, <1>6, <2>2 DEF Spinning
    <3>2. Taken(t)' = Taken(t)
      BY <1>8, <1>9, <2>2 DEF Taken
    <3> QED BY <1>5, <1>9, <2>1, <2>2, <3>1, <3>2
  <2>3. CASE t = s /\ s \in accepted
    <3>1. Spinning(t)' = Spinning(t)
      BY <1>3, <1>6, <2>3 DEF Spinning
    <3>2. ClientAlive(t) /\ ClientAlive(t)'
      BY <1>1, <1>2, <2>3 DEF ClientAlive
    <3>3. \/ pending'[t] = pending[t] + 1 /\ (Owed(t)' <=> Owed(t))
          \/ pending'[t] = pending[t] /\ Owed(t)' /\ ~Owed(t)
      <4>1. Owed(t)' <=> Owed(s)'
        BY <2>3 DEF Owed
      <4> QED BY <1>9, <2>3, <4>1
    <3>4. pending'[t] + Taken(t)' = pending[t] + Taken(t) + 1 /\ Taken(t)' \in {0, 1}
      BY <2>1, <3>2, <3>3 DEF Taken
    <3>5. Len(threads'[t]) = Len(threads[t]) + 1 /\ pending'[t] \in Nat
      BY <1>5, <1>9, <2>3
    <3>6. IsFiniteSet(Spinning(t)') /\ Cardinality(Spinning(t)') = Cardinality(Spinning(t))
      BY <2>1, <3>1
    <3>7. Taken(t) \in Nat /\ Taken(t)' \in Nat
      BY <2>1, <3>4
    <3>8. Len(threads[t]) + 1 = pending'[t] + Cardinality(Spinning(t)) + Taken(t)'
      BY SMTT(30), <2>1, <3>4, <3>5, <3>7
    <3> QED BY <3>5, <3>6, <3>8
  <2>4. CASE t = s /\ s \notin accepted
    <3>1. Spinning(t)' = Spinning(t) \cup {c} /\ c \notin Spinning(t)
      BY <1>3, <1>6, <2>4 DEF Spinning
    <3>2. Taken(t)' = Taken(t)
      BY <1>8, <1>9, <2>4 DEF Taken
    <3>3. IsFiniteSet(Spinning(t)') /\ Cardinality(Spinning(t)') = Cardinality(Spinning(t)) + 1
      BY <2>1, <3>1, FS_AddElement
    <3> QED BY SMTT(30), <1>5, <1>9, <2>1, <2>4, <3>2, <3>3
  <2> QED BY <2>2, <2>3, <2>4
<1>18. OfferInv'
  <2>1. \A t \in Session : Contains(offered, t) => pending'[t] = pending[t]
    BY <1>9 DEF Inv, PortInv
  <2> QED BY <1>2, <2>1 DEF Inv, OfferInv
<1> QED BY <1>2, <1>10, <1>11, <1>12, <1>13, <1>14, <1>15, <1>16, <1>17, <1>18 DEF Inv

(* The continuation of a request whose session had not been accepted. *)
LEMMA ContinueStep == ASSUME Inv, NEW c \in Client, SendSyncRequestContinuation(c) PROVE Inv'
<1>0. PICK s : s = target[c]
  OBVIOUS
<1>1. /\ fault = "none" /\ pc[c] = "spin" /\ s \in accepted /\ Announce(s)
      /\ UNCHANGED <<available, offered, slotWaiters, handles, moved, accepted, portless, threads,
                     table, serving>>
  BY <1>0 DEF SendSyncRequestContinuation, portVars
<1>2. \/ /\ s \notin handles /\ fault' = "handle not found"
         /\ UNCHANGED <<observers, pc, target, request>>
      \/ /\ s \in handles /\ Contains(threads[s], c) /\ AwaitReply(c, s)
         /\ UNCHANGED <<target, request, fault>>
      \/ /\ s \in handles /\ ~Contains(threads[s], c)
         /\ pc' = [pc EXCEPT ![c] = "run"]
         /\ target' = [target EXCEPT ![c] = None]
         /\ request' = [request EXCEPT ![c] = "none"]
         /\ UNCHANGED <<observers, fault>>
  BY <1>0 DEF SendSyncRequestContinuation, clientVars
<1>3. /\ s \in Session /\ threads \in [Session -> Seq(Client)] /\ observers \in [Session -> Seq(Client)]
      /\ pending \in [Session -> Nat] /\ slotWaiters \subseteq Client
      /\ pc \in [Client -> {"run", "slotwait", "spin", "asleep"}]
      /\ target \in [Client -> Session \cup {None}]
      /\ request \in [Client -> {"none", "sent", "read", "answered"}]
  BY <1>1 DEF Inv, TypeOK
<1>4. /\ pending' \in [Session -> Nat]
      /\ server' # "asleep" /\ server' \in {server, "woken"} /\ woken' \in {woken, s}
      /\ server # "asleep" => server' = server /\ woken' = woken
      /\ server = "asleep" => server' = "woken" /\ woken' = s
      /\ \A t \in Session : t # s => pending'[t] = pending[t] /\ (Owed(t)' <=> Owed(t))
      /\ \/ pending'[s] = pending[s] + 1 /\ (Owed(s)' <=> Owed(s))
         \/ pending'[s] = pending[s] /\ Owed(s)' /\ ~Owed(s)
  BY <1>1, AnnounceEffect
<1>5. /\ None \notin Session /\ Port \notin Session /\ None # s /\ Port # s
  BY <1>3, SessionsAssumption
<1>6. \A t \in Session : ~Contains(observers[t], c)
  BY <1>1 DEF Inv, ListsInv, Sleeps
<1>7. /\ pc' \in [Client -> {"run", "slotwait", "spin", "asleep"}]
      /\ target' \in [Client -> Session \cup {None}]
      /\ request' \in [Client -> {"none", "sent", "read", "answered"}]
      /\ fault' \in {"none", "handle not found"}
      /\ \A d \in Client : d # c => pc'[d] = pc[d] /\ target'[d] = target[d] /\ request'[d] = request[d]
      /\ \/ pc'[c] = "spin" /\ target'[c] = s /\ request'[c] = request[c] /\ fault' # "none"
         \/ pc'[c] = "asleep" /\ target'[c] = s /\ request'[c] = request[c] /\ s \in handles
         \/ /\ pc'[c] = "run" /\ target'[c] = None /\ request'[c] = "none" /\ s \in handles
            /\ ~Contains(threads[s], c)
  BY <1>0, <1>1, <1>2, <1>3 DEF AwaitReply
<1>8. /\ observers' \in [Session -> Seq(Client)]
      /\ \A t \in Session : Distinct(observers'[t])
      /\ \A t \in Session, d \in Client : Contains(observers'[t], d)
             => Contains(observers[t], d) \/ (t = s /\ d = c /\ pc'[c] = "asleep")
  <2>1. CASE UNCHANGED observers
    BY <1>3, <2>1 DEF Inv, ListsInv
  <2>2. CASE observers' = [observers EXCEPT ![s] = Append(@, c)] /\ pc'[c] = "asleep"
    <3>1. /\ observers[s] \in Seq(Client) /\ Distinct(observers[s])
          /\ observers'[s] = Append(observers[s], c)
      BY <1>3, <2>2 DEF Inv, ListsInv
    <3>2. Distinct(observers'[s]) /\ \A e : Contains(observers'[s], e) <=> Contains(observers[s], e) \/ e = c
      BY <1>3, <1>6, <3>1, ContainsAppend
    <3>3. /\ observers' \in [Session -> Seq(Client)]
          /\ \A t \in Session : t # s => observers'[t] = observers[t]
      BY <1>3, <2>2
    <3> QED BY <2>2, <3>2, <3>3 DEF Inv, ListsInv
  <2>3. AwaitReply(c, s) => pc'[c] = "asleep"
    BY <1>3 DEF AwaitReply
  <2> QED BY <1>2, <2>1, <2>2, <2>3 DEF AwaitReply
<1>9. \A t \in Session : ClientAlive(t)' <=> ClientAlive(t)
  <2>1. \A d \in Client, t \in Session : t # s => (Using(d, t)' <=> Using(d, t))
    BY <1>0, <1>1, <1>5, <1>7 DEF Using
  <2>2. \A d \in Client, t \in Session : d # c => (Using(d, t)' <=> Using(d, t))
    BY <1>7 DEF Using
  <2>3. Using(c, s) /\ (Using(c, s)' \/ s \in handles)
    BY <1>0, <1>1, <1>7 DEF Using
  <2>4. ASSUME NEW t \in Session, t = s PROVE ClientAlive(t)' /\ ClientAlive(t)
    BY <1>0, <1>1, <1>7, <2>4 DEF ClientAlive, Using
  <2> QED BY <1>1, <2>1, <2>4 DEF ClientAlive
<1>10. TypeOK'
  BY <1>1, <1>3, <1>4, <1>7, <1>8 DEF Inv, TypeOK
<1>11. PortInv' /\ SlotsConserved'
  <2>1. server = "close" => server' = "close" /\ woken' = woken
    BY <1>4
  <2> QED BY <1>1, <2>1 DEF Inv, PortInv, SlotsConserved
<1>12. ServerInv'
  BY <1>1, <1>4, <1>5 DEF Inv, ServerInv
<1>13. SessionWakeups'
  BY <1>1, <1>4 DEF Inv, SessionWakeups
<1>14. StatesInv'
  <2>1. request[c] # "none" /\ c \notin slotWaiters
    BY <1>1 DEF Inv, StatesInv
  <2>2. \A d \in Client : pc'[d] \in {"spin", "asleep"} <=> request'[d] # "none"
    BY <1>7, <2>1 DEF Inv, StatesInv
  <2>3. \A d \in Client : target'[d] \in Session <=> request'[d] # "none"
    <3>1. \A d \in Client : d # c => (target'[d] \in Session <=> request'[d] # "none")
      BY <1>7 DEF Inv, StatesInv
    <3>2. target'[c] \in Session <=> request'[c] # "none"
      BY <1>3, <1>5, <1>7, <2>1
    <3> QED BY <3>1, <3>2
  <2>4. \A d \in slotWaiters' : pc'[d] = "slotwait"
    BY <1>1, <1>3, <1>7, <2>1 DEF Inv, StatesInv
  <2> QED BY <2>2, <2>3, <2>4 DEF StatesInv
<1>15. ListsInv'
  <2>1. \A t \in Session, d \in Client : Pends(d, t)' <=> Pends(d, t)
    <3>1. \A t \in Session, d \in Client : d # c => (Pends(d, t)' <=> Pends(d, t))
      BY <1>7 DEF Pends
    <3>2. ASSUME NEW t \in Session PROVE Pends(c, t)' <=> Pends(c, t)
      <4>1. Contains(threads[s], c) <=> Pends(c, s)
        BY <1>3 DEF Inv, ListsInv
      <4> QED BY <1>0, <1>5, <1>7, <4>1 DEF Pends
    <3> QED BY <3>1, <3>2
  <2>2. ASSUME NEW t \in Session, NEW d \in Client, Contains(observers[t], d) PROVE Sleeps(d, t)'
    <3>1. d # c /\ Sleeps(d, t)
      BY <1>6, <2>2 DEF Inv, ListsInv
    <3> QED BY <1>7, <3>1 DEF Sleeps
  <2>3. pc'[c] = "asleep" => Sleeps(c, s)'
    BY <1>7 DEF Sleeps
  <2> QED BY <1>1, <1>8, <2>1, <2>2, <2>3 DEF Inv, ListsInv
<1>16. ServingInv'
  <2>1. serving # None => woken' = woken
    BY <1>4 DEF Inv, ServerInv
  <2>2. request'[c] = "read" <=> request[c] = "read"
    BY <1>0, <1>3, <1>7 DEF Inv, ListsInv, Pends
  <2> QED BY <1>1, <1>7, <2>1, <2>2 DEF Inv, ServingInv
<1>17. fault' = "none" => CountInv'
  <2> SUFFICES ASSUME fault' = "none", NEW t \in Session
               PROVE  /\ IsFiniteSet(Spinning(t)')
                      /\ Len(threads'[t]) = pending'[t] + Cardinality(Spinning(t)') + Taken(t)'
    BY DEF CountInv
  <2>1. /\ IsFiniteSet(Spinning(t)) /\ Len(threads[t]) = pending[t] + Cardinality(Spinning(t)) + Taken(t)
        /\ Cardinality(Spinning(t)) \in Nat /\ pending[t] \in Nat /\ Taken(t) \in {0, 1}
    BY <1>1, <1>3, FS_CardinalityType DEF Inv, CountInv, Taken
  <2>2. CASE t # s
    <3>1. Spinning(t)' = Spinning(t)
      BY <1>0, <1>5, <1>7, <2>2 DEF Spinning
    <3>2. Taken(t)' = Taken(t)
      BY <1>4, <1>9, <2>2 DEF Taken
    <3> QED BY <1>1, <1>4, <2>1, <2>2, <3>1, <3>2
  <2>3. CASE t = s
    <3>1. Spinning(t)' = Spinning(t) \ {c} /\ c \in Spinning(t)
      BY <1>0, <1>1, <1>7, <2>3 DEF Spinning
    <3>2. ClientAlive(t) /\ ClientAlive(t)'
      <4>1. Using(c, t)
        BY <1>0, <1>1, <2>3 DEF Using
      <4> QED BY <1>9, <4>1 DEF ClientAlive
    <3>3. \/ pending'[t] = pending[t] + 1 /\ (Owed(t)' <=> Owed(t))
          \/ pending'[t] = pending[t] /\ Owed(t)' /\ ~Owed(t)
      <4>1. Owed(t)' <=> Owed(s)'
        BY <2>3 DEF Owed
      <4> QED BY <1>4, <2>3, <4>1
    <3>4. pending'[t] + Taken(t)' = pending[t] + Taken(t) + 1 /\ Taken(t)' \in {0, 1}
      BY <2>1, <3>2, <3>3 DEF Taken
    <3>5. IsFiniteSet(Spinning(t)') /\ Cardinality(Spinning(t)') = Cardinality(Spinning(t)) - 1
      BY <2>1, <3>1, FS_RemoveElement
    <3>6. pending'[t] \in Nat /\ Taken(t) \in Nat /\ Taken(t)' \in Nat
      BY <1>4, <2>1, <3>4
    <3>7. Len(threads[t]) = pending'[t] + (Cardinality(Spinning(t)) - 1) + Taken(t)'
      <4> HIDE DEF Spinning
      <4>1. PICK k \in Nat : k = Cardinality(Spinning(t))
        BY <2>1
      <4>2. PICK a \in Nat : a = Taken(t)
        BY <3>6
      <4>3. PICK b \in Nat : b = Taken(t)'
        BY <3>6
      <4>4. PICK p \in Nat, q \in Nat : p = pending[t] /\ q = pending'[t]
        BY <2>1, <3>6
      <4>5. Len(threads[t]) = p + k + a /\ q + b = p + a + 1
        BY <2>1, <3>4, <4>1, <4>2, <4>3, <4>4
      <4>6. p + k + a = q + (k - 1) + b
        BY <4>5
      <4> QED BY <4>1, <4>3, <4>4, <4>5, <4>6
    <3> QED BY <1>1, <3>5, <3>7
  <2> QED BY <2>2, <2>3
<1>18. OfferInv'
  <2>1. \A t \in Session : Contains(offered, t) => t # s
    BY <1>1 DEF Inv, PortInv
  <2> QED BY <1>1, <1>4, <2>1 DEF Inv, OfferInv
<1> QED BY <1>7, <1>10, <1>11, <1>12, <1>13, <1>14, <1>15, <1>16, <1>17, <1>18 DEF Inv

(* A client closes its handle of a session. *)
LEMMA CloseClientStep == ASSUME Inv, NEW c \in Client, CloseClientSession(c) PROVE Inv'
<1>1. PICK s \in handles :
        /\ handles' = handles \ {s}
        /\ IF (\E d \in Client : Using(d, s)) \/ s \notin accepted
           THEN UNCHANGED <<server, woken>>
           ELSE Wake(s)
  BY DEF CloseClientSession
<1>2. /\ fault = "none"
      /\ UNCHANGED <<available, offered, slotWaiters, moved, accepted, portless, pending, threads,
                     observers, pc, target, request, table, serving, fault>>
  BY DEF CloseClientSession, Running, portVars, clientVars
<1>3. s \in Session /\ s \notin moved /\ Port # s
  BY <1>1, SessionsAssumption DEF Inv, TypeOK, PortInv
<1>4. /\ server # "asleep" => server' = server /\ woken' = woken
      /\ \/ server' = server /\ woken' = woken
         \/ server = "asleep" /\ server' = "woken" /\ woken' = s /\ s \in accepted
      /\ (\E d \in Client : Using(d, s)) \/ s \notin accepted \/ server' # "asleep"
      /\ (\E d \in Client : Using(d, s)) => server' = server
  <2>1. CASE (\E d \in Client : Using(d, s)) \/ s \notin accepted
    BY <1>1, <2>1
  <2>2. CASE ~(\E d \in Client : Using(d, s)) /\ s \in accepted
    BY <1>1, <2>2, WakeEffect
  <2> QED BY <2>1, <2>2
<1>5. /\ \A t \in Session : t # s => (ClientAlive(t)' <=> ClientAlive(t))
      /\ ClientAlive(s)
      /\ \A t \in Session : t = s => (ClientAlive(t)' <=> \E d \in Client : Using(d, s))
  BY <1>1, <1>2, <1>3 DEF ClientAlive, Using
<1>6. TypeOK'
  BY <1>1, <1>2, <1>3, <1>4 DEF Inv, TypeOK
<1>7. PortInv' /\ SlotsConserved'
  BY <1>1, <1>2, <1>4 DEF Inv, PortInv, SlotsConserved
<1>8. ServerInv'
  BY <1>2, <1>3, <1>4 DEF Inv, ServerInv
<1>9. SessionWakeups'
  <2>1. ASSUME server' = "asleep", NEW t \in accepted PROVE ClientAlive(t)'
    <3>1. server = "asleep" /\ t \in Session /\ ClientAlive(t)
      BY <1>4, <2>1 DEF Inv, TypeOK, SessionWakeups
    <3> QED BY <1>4, <1>5, <2>1, <3>1
  <2> QED BY <1>2, <1>4, <2>1 DEF Inv, SessionWakeups
<1>10. StatesInv' /\ ListsInv'
  BY <1>2 DEF Inv, StatesInv, ListsInv, Pends, Sleeps
<1>11. ServingInv'
  BY <1>2, <1>4 DEF Inv, ServerInv, ServingInv
<1>12. CountInv'
  <2>1. \A t \in Session : Spinning(t)' = Spinning(t)
    BY <1>2 DEF Spinning
  <2>2. ASSUME NEW t \in Session PROVE Taken(t)' = Taken(t)
    <3>1. CASE t # s
      <4>1. Owed(t)' <=> Owed(t)
        BY <1>2, <1>4, <3>1 DEF Inv, ServerInv, Owed
      <4> QED BY <1>5, <3>1, <4>1 DEF Taken
    <3>2. CASE t = s /\ \E d \in Client : Using(d, s)
      <4>1. Owed(t)' <=> Owed(t)
        BY <1>2, <1>4, <3>2 DEF Owed
      <4> QED BY <1>5, <3>2, <4>1 DEF Taken
    <3>3. CASE t = s /\ ~\E d \in Client : Using(d, s)
      <4>1. threads[t] = <<>>
        BY <3>3, PendingAlive
      <4>2. Taken(t) = 0
        BY <1>2, <4>1, FS_CardinalityType DEF Inv, TypeOK, CountInv, Taken
      <4>3. ~ClientAlive(t)'
        BY <1>5, <3>3
      <4> QED BY <4>2, <4>3 DEF Taken
    <3> QED BY <3>1, <3>2, <3>3
  <2> QED BY <1>2, <2>1, <2>2 DEF Inv, CountInv
<1>13. OfferInv'
  BY <1>2 DEF Inv, OfferInv
<1> QED BY <1>2, <1>6, <1>7, <1>8, <1>9, <1>10, <1>11, <1>12, <1>13 DEF Inv

-----------------------------------------------------------------------------
(* What Receive does when the server waits at the top of its loop: it goes  *)
(* to sleep if nothing is ready, otherwise it is woken by the port or by a  *)
(* session of its table, whose command it takes if there is a client.       *)
LEMMA ReceiveEffect ==
    ASSUME Inv, server # "close", NEW live \in SUBSET Session, Receive(live)
    PROVE  /\ pending' \in [Session -> Nat] /\ server' \in {"asleep", "woken"}
           /\ woken' \in Session \cup {Port, None}
           /\ server' = "asleep" =>
                /\ offered = <<>>
                /\ \A s \in accepted : s \in live /\ pending'[s] = 0
           /\ server' = "woken" => woken' \in accepted \cup {Port}
           /\ server' = "woken" /\ woken' = Port => offered # <<>>
           /\ \A t \in Session :
                \/ server' = "woken" /\ woken' = t /\ t \in live /\ pending[t] = pending'[t] + 1
                \/ ~(server' = "woken" /\ woken' = t /\ t \in live) /\ pending'[t] = pending[t]
<1> DEFINE all == <<Port>> \o table
           ready == {i \in DOMAIN all : Acquirable(all[i], live)}
<1>1. /\ table \in Seq(Session) /\ pending \in [Session -> Nat] /\ accepted \subseteq Session
      /\ woken \in Session \cup {Port, None}
  BY DEF Inv, TypeOK
<1>2. Port \notin Session
  BY SessionsAssumption
<1>3. /\ Len(table) \in Nat /\ DOMAIN all = 1..(Len(table) + 1) /\ all[1] = Port
      /\ \A i \in 1..Len(table) : all[i + 1] = table[i]
  <2>1. <<Port>> \in Seq({Port}) /\ Len(<<Port>>) = 1 /\ <<Port>>[1] = Port
    OBVIOUS
  <2>2. <<Port>> \in Seq({Port} \cup Session) /\ table \in Seq({Port} \cup Session)
    BY <1>1
  <2>3. /\ all \in Seq({Port} \cup Session) /\ Len(all) = Len(<<Port>>) + Len(table)
        /\ \A i \in 1..(Len(<<Port>>) + Len(table)) :
              all[i] = IF i <= Len(<<Port>>) THEN <<Port>>[i] ELSE table[i - Len(<<Port>>)]
    BY <2>2, ConcatProperties
  <2>4. Len(table) \in Nat /\ DOMAIN all = 1..Len(all)
    BY <1>1, <2>3, LenProperties
  <2> HIDE DEF all
  <2>5. Len(all) = Len(table) + 1 /\ all[1] = Port
    BY <2>1, <2>3, <2>4
  <2>6. ASSUME NEW i \in 1..Len(table) PROVE all[i + 1] = table[i]
    <3>1. i + 1 \in 1..(Len(<<Port>>) + Len(table)) /\ ~(i + 1 <= Len(<<Port>>)) /\ (i + 1) - 1 = i
      BY <2>1, <2>4
    <3> QED BY <2>1, <2>3, <3>1
  <2> QED BY <2>4, <2>5, <2>6
<1>4. \A i \in 1..Len(table) : table[i] \in Session
  BY <1>1, ElementOfSeq
<1> HIDE DEF all
<1>5. CASE ready = {}
  <2>1. server' = "asleep" /\ woken' = woken /\ pending' = pending
    BY <1>5 DEF Receive, all
  <2>2. ~Acquirable(Port, live)
    <3>1. 1 \in DOMAIN all /\ all[1] = Port
      BY <1>3
    <3> QED BY <1>5, <3>1
  <2>3. ASSUME NEW s \in accepted PROVE s \in live /\ pending[s] = 0
    <3>1. s \in Session /\ Contains(table, s)
      BY <1>1 DEF Inv, PortInv
    <3>2. PICK i \in 1..Len(table) : table[i] = s
      BY <3>1 DEF Contains
    <3>3. i + 1 \in DOMAIN all /\ all[i + 1] = s
      BY <1>3, <3>2
    <3>4. ~Acquirable(s, live) /\ s # Port
      BY <1>2, <1>5, <3>1, <3>3
    <3> QED BY <1>1, <3>1, <3>4 DEF Acquirable
  <2> QED BY <1>1, <2>1, <2>2, <2>3 DEF Acquirable
<1>6. CASE ready # {}
  <2>1. PICK i : i = CHOOSE k \in ready : \A j \in ready : k <= j
    OBVIOUS
  <2>2. i \in ready
    <3>1. ready \in SUBSET Nat
      BY <1>3
    <3> HIDE DEF ready
    <3> QED BY <1>6, <2>1, <3>1, LeastIndex
  <2>3. PICK h : h = all[i]
    OBVIOUS
  <2>4. /\ server' = "woken" /\ woken' = h
        /\ pending' = IF h \in live THEN [pending EXCEPT ![h] = @ - 1] ELSE pending
    BY <1>6, <2>1, <2>3 DEF Receive, all
  <2>5. Acquirable(h, live) /\ (h = Port \/ (h \in Session /\ Contains(table, h)))
    <3>1. i \in 1..(Len(table) + 1) /\ Acquirable(h, live)
      BY <1>3, <2>2, <2>3
    <3>2. CASE i = 1
      BY <1>3, <2>3, <3>1, <3>2
    <3>3. CASE i # 1
      <4>1. i - 1 \in 1..Len(table) /\ (i - 1) + 1 = i
        BY <1>3, <3>1, <3>3
      <4>2. h = table[i - 1]
        BY <1>3, <2>3, <4>1
      <4> QED BY <1>4, <3>1, <4>1, <4>2 DEF Contains
    <3> QED BY <3>2, <3>3
  <2>6. CASE h = Port
    BY <1>1, <1>2, <2>4, <2>5, <2>6 DEF Acquirable
  <2>7. CASE h \in Session /\ Contains(table, h)
    <3>1. h \in accepted /\ h # Port
      BY <1>2, <2>7 DEF Inv, PortInv
    <3>2. h \in live => pending[h] > 0
      BY <2>5, <3>1 DEF Acquirable
    <3>3. pending' \in [Session -> Nat]
      BY <1>1, <2>4, <2>7, <3>2
    <3>4. \A t \in Session : IF t = h /\ h \in live THEN pending[t] = pending'[t] + 1
                                                    ELSE pending'[t] = pending[t]
      BY <1>1, <2>4, <2>7
    <3> QED BY <2>4, <2>7, <3>1, <3>3, <3>4
  <2> QED BY <2>5, <2>6, <2>7
<1> QED BY <1>5, <1>6

(* The server waits without having anything to answer. *)
LEMMA ReceiveOnlyStep == ASSUME Inv, ReceiveOnly PROVE Inv'
<1>1. /\ fault = "none" /\ server = "receive" /\ serving = None
      /\ UNCHANGED <<available, offered, slotWaiters, handles, moved, accepted, portless, threads,
                     observers, pc, target, request, table, serving, fault>>
  BY DEF ReceiveOnly, portVars, clientVars
<1>2. PICK live : live = {s \in Session : ClientAlive(s)}
  OBVIOUS
<1>3. live \in SUBSET Session /\ Receive(live)
  BY <1>2 DEF ReceiveOnly
<1>4. /\ pending' \in [Session -> Nat] /\ server' \in {"asleep", "woken"}
      /\ woken' \in Session \cup {Port, None}
      /\ server' = "asleep" =>
           /\ offered = <<>>
           /\ \A s \in accepted : s \in live /\ pending'[s] = 0
      /\ server' = "woken" => woken' \in accepted \cup {Port}
      /\ server' = "woken" /\ woken' = Port => offered # <<>>
      /\ \A t \in Session :
           \/ server' = "woken" /\ woken' = t /\ t \in live /\ pending[t] = pending'[t] + 1
           \/ ~(server' = "woken" /\ woken' = t /\ t \in live) /\ pending'[t] = pending[t]
  BY <1>1, <1>3, ReceiveEffect
<1>5. \A t \in Session : (ClientAlive(t)' <=> t \in live) /\ (ClientAlive(t) <=> t \in live)
  BY <1>1, <1>2 DEF ClientAlive, Using
<1>6. TypeOK'
  BY <1>1, <1>4 DEF Inv, TypeOK
<1>7. PortInv' /\ SlotsConserved'
  BY <1>1 DEF Inv, PortInv, SlotsConserved
<1>8. OfferInv'
  <2>1. ASSUME NEW t \in Session, pending[t] = 0 PROVE pending'[t] = 0
    BY <1>4, <2>1
  <2> QED BY <1>1, <2>1 DEF Inv, OfferInv
<1>9. ServerInv'
  BY <1>1, <1>4 DEF Inv, ServerInv
<1>10. SessionWakeups'
  <2>1. \A s \in accepted : s \in Session
    BY DEF Inv, TypeOK
  <2> QED BY <1>1, <1>4, <1>5, <2>1 DEF Inv, SessionWakeups
<1>11. StatesInv' /\ ListsInv'
  BY <1>1 DEF Inv, StatesInv, ListsInv, Pends, Sleeps
<1>12. ServingInv'
  BY <1>1 DEF Inv, ServingInv
<1>13. CountInv'
  <2> SUFFICES ASSUME NEW t \in Session
               PROVE  /\ IsFiniteSet(Spinning(t)')
                      /\ Len(threads'[t]) = pending'[t] + Cardinality(Spinning(t)') + Taken(t)'
    BY DEF CountInv
  <2>1. Spinning(t)' = Spinning(t)
    BY <1>1 DEF Spinning
  <2>2. /\ IsFiniteSet(Spinning(t)) /\ Cardinality(Spinning(t)) \in Nat /\ pending[t] \in Nat
        /\ Len(threads[t]) = pending[t] + Cardinality(Spinning(t)) + Taken(t)
    BY <1>1, FS_CardinalityType DEF Inv, TypeOK, CountInv
  <2>3. Taken(t) = 0
    BY <1>1 DEF Taken, Owed
  <2>4. Taken(t)' = IF server' = "woken" /\ woken' = t /\ t \in live THEN 1 ELSE 0
    BY <1>4, <1>5 DEF Taken, Owed
  <2>5. pending'[t] + Taken(t)' = pending[t] /\ pending'[t] \in Nat /\ Taken(t)' \in Nat
    BY <1>4, <2>2, <2>4
  <2>6. PICK p \in Nat, a \in Nat, k \in Nat :
            p = pending'[t] /\ a = Taken(t)' /\ k = Cardinality(Spinning(t))
    BY <2>2, <2>5
  <2>7. Len(threads[t]) = p + k + a
    BY <2>2, <2>3, <2>5, <2>6
  <2> QED BY <1>1, <2>1, <2>2, <2>6, <2>7
<1> QED BY <1>1, <1>6, <1>7, <1>8, <1>9, <1>10, <1>11, <1>12, <1>13 DEF Inv

(* The server answers the request it has read, and waits again.  It answers *)
(* the first thread of the session that woke it, which is the one whose     *)
(* request it read; the threads that are released had their answer.         *)
LEMMA ReplyStep == ASSUME Inv, ReplyAndReceive PROVE Inv'
<1>1. /\ fault = "none" /\ server = "receive" /\ serving # None
  BY DEF ReplyAndReceive
<1>2. PICK s : s = woken
  OBVIOUS
<1>3. /\ threads[s] # <<>> /\ Head(threads[s]) = serving /\ s \in accepted /\ s \in Session
  BY <1>1, <1>2 DEF Inv, TypeOK, ServerInv, ServingInv
<1>4. ClientAlive(s)
  BY <1>3, PendingAlive DEF ClientAlive
<1>5. PICK c, left, free : /\ c = Head(threads[s]) /\ left = RemoveFirst(threads[s], c)
                           /\ free = Released(observers[s], left)
  OBVIOUS
<1>6. /\ threads' = [threads EXCEPT ![s] = left]
      /\ observers' = [observers EXCEPT ![s] = Remaining(@, left)]
      /\ pc' = [d \in Client |-> IF d \in free THEN "run" ELSE pc[d]]
      /\ target' = [d \in Client |-> IF d \in free THEN None ELSE target[d]]
      /\ request' = [d \in Client |-> IF d \in free THEN "none"
                                      ELSE IF d = c THEN "answered" ELSE request[d]]
      /\ fault' = "none" /\ serving' = None /\ handles' = handles \cup moved /\ moved' = {}
      /\ Receive(handles' \cup {h \in Session : \E d \in Client \ free : Using(d, h)})
      /\ UNCHANGED <<available, offered, slotWaiters, accepted, portless, table>>
  BY <1>1, <1>2, <1>3, <1>4, <1>5 DEF ReplyAndReceive, ReplyTarget, portVars
<1>7. /\ threads \in [Session -> Seq(Client)] /\ observers \in [Session -> Seq(Client)]
      /\ pending \in [Session -> Nat] /\ slotWaiters \subseteq Client
      /\ pc \in [Client -> {"run", "slotwait", "spin", "asleep"}]
      /\ target \in [Client -> Session \cup {None}]
      /\ request \in [Client -> {"none", "sent", "read", "answered"}]
      /\ handles \subseteq Session /\ moved \subseteq Session /\ accepted \subseteq Session
  BY DEF Inv, TypeOK
<1>8. None \notin Session /\ None \notin Client /\ Port \notin Session
  BY SessionsAssumption
<1>9. /\ c \in Client /\ c = serving /\ left \in Seq(Client) /\ Len(left) = Len(threads[s]) - 1
      /\ Distinct(left) /\ \A d : Contains(left, d) <=> Contains(threads[s], d) /\ d # c
  <2>1. threads[s] \in Seq(Client) /\ Distinct(threads[s])
    BY <1>3, <1>7 DEF Inv, ListsInv
  <2>2. left = Tail(threads[s])
    BY <1>3, <1>5, <2>1, RemoveHead
  <2> DEFINE q == threads[s]
  <2>3. /\ Head(q) \in Client /\ Tail(q) \in Seq(Client) /\ Len(Tail(q)) = Len(q) - 1
        /\ Distinct(Tail(q)) /\ ~Contains(Tail(q), Head(q))
        /\ \A e : Contains(Tail(q), e) => Contains(q, e)
        /\ \A e : Contains(q, e) /\ e # Head(q) => Contains(Tail(q), e)
    BY <1>3, <2>1, ContainsTail
  <2> QED BY <1>3, <1>5, <2>2, <2>3
<1>10. /\ threads' \in [Session -> Seq(Client)] /\ threads'[s] = left
       /\ \A t \in Session : t # s => threads'[t] = threads[t]
       /\ \A t \in Session : Distinct(threads'[t])
  BY <1>3, <1>6, <1>7, <1>9 DEF Inv, ListsInv
<1>11. /\ \A d \in free : Contains(observers[s], d) /\ ~Contains(left, d)
       /\ observers' \in [Session -> Seq(Client)]
       /\ \A t \in Session : Distinct(observers'[t])
       /\ \A d : Contains(observers'[s], d) => Contains(observers[s], d) /\ d \notin free
       /\ \A t \in Session : t # s => observers'[t] = observers[t]
  <2>1. observers[s] \in Seq(Client) /\ Distinct(observers[s]) /\ \A t \in Session : Distinct(observers[t])
    BY <1>3, <1>7 DEF Inv, ListsInv
  <2> DEFINE r == Remaining(observers[s], left)
  <2>2. /\ r \in Seq(Client) /\ Distinct(r)
        /\ \A d \in free : Contains(observers[s], d) /\ ~Contains(left, d)
        /\ \A d : Contains(r, d) => Contains(observers[s], d) /\ d \notin free
    BY <1>5, <2>1, RemainingObservers
  <2> HIDE DEF r
  <2>3. observers' = [observers EXCEPT ![s] = r]
    BY <1>6 DEF r
  <2>4. /\ observers' \in [Session -> Seq(Client)] /\ observers'[s] = r
        /\ \A t \in Session : t # s => observers'[t] = observers[t]
    BY <1>3, <1>7, <2>2, <2>3
  <2> QED BY <2>1, <2>2, <2>4
<1>12. \A d \in Client : d \in free => target[d] = s /\ pc[d] = "asleep" /\ request[d] # "none"
  <2>1. \A d \in Client : d \in free => Sleeps(d, s)
    BY <1>3, <1>11 DEF Inv, ListsInv
  <2> QED BY <2>1 DEF Sleeps, Inv, StatesInv
<1>13. /\ pc' \in [Client -> {"run", "slotwait", "spin", "asleep"}]
       /\ target' \in [Client -> Session \cup {None}]
       /\ request' \in [Client -> {"none", "sent", "read", "answered"}]
       /\ \A d \in Client : d \in free => pc'[d] = "run" /\ target'[d] = None /\ request'[d] = "none"
       /\ \A d \in Client : d \notin free => pc'[d] = pc[d] /\ target'[d] = target[d]
       /\ \A d \in Client : d \notin free /\ d # c => request'[d] = request[d]
       /\ c \notin free => request'[c] = "answered"
  BY <1>6, <1>7, <1>9
<1>14. PICK live : live = handles' \cup {h \in Session : \E d \in Client \ free : Using(d, h)}
  OBVIOUS
<1>15. live \in SUBSET Session /\ Receive(live)
  BY <1>6, <1>7, <1>14
<1>16. /\ pending' \in [Session -> Nat] /\ server' \in {"asleep", "woken"}
       /\ woken' \in Session \cup {Port, None}
       /\ server' = "asleep" =>
            /\ offered = <<>>
            /\ \A t \in accepted : t \in live /\ pending'[t] = 0
       /\ server' = "woken" => woken' \in accepted \cup {Port}
       /\ server' = "woken" /\ woken' = Port => offered # <<>>
       /\ \A t \in Session :
            \/ server' = "woken" /\ woken' = t /\ t \in live /\ pending[t] = pending'[t] + 1
            \/ ~(server' = "woken" /\ woken' = t /\ t \in live) /\ pending'[t] = pending[t]
  BY <1>1, <1>15, ReceiveEffect
<1>17. \A t \in Session : ClientAlive(t)' <=> t \in live
  <2>1. \A t \in Session, d \in Client : Using(d, t)' <=> Using(d, t) /\ d \notin free
    BY <1>8, <1>13 DEF Using
  <2> QED BY <1>6, <1>14, <2>1 DEF ClientAlive
<1>18. TypeOK'
  BY <1>6, <1>7, <1>10, <1>11, <1>13, <1>16 DEF Inv, TypeOK
<1>19. PortInv' /\ SlotsConserved'
  BY <1>1, <1>6 DEF Inv, PortInv, SlotsConserved
<1>20. OfferInv'
  <2>1. ASSUME NEW t \in Session, pending[t] = 0 PROVE pending'[t] = 0
    BY <1>16, <2>1
  <2> QED BY <1>6, <2>1 DEF Inv, OfferInv
<1>21. ServerInv'
  BY <1>6, <1>16 DEF ServerInv
<1>22. SessionWakeups'
  BY <1>6, <1>7, <1>16, <1>17 DEF Inv, SessionWakeups
<1>23. StatesInv'
  <2>1. request[c] # "none"
    BY <1>1, <1>9 DEF Inv, ServingInv
  <2>2. \A d \in Client : pc'[d] \in {"spin", "asleep"} <=> request'[d] # "none"
    BY <1>13, <2>1 DEF Inv, StatesInv
  <2>3. \A d \in Client : target'[d] \in Session <=> request'[d] # "none"
    BY <1>8, <1>13, <2>1 DEF Inv, StatesInv
  <2>4. \A d \in slotWaiters' : pc'[d] = "slotwait"
    BY <1>6, <1>7, <1>12, <1>13 DEF Inv, StatesInv
  <2> QED BY <2>2, <2>3, <2>4 DEF StatesInv
<1>24. ListsInv'
  <2>1. ASSUME NEW t \in Session, NEW d \in Client PROVE Contains(threads'[t], d) <=> Pends(d, t)'
    <3>1. Contains(threads[t], d) <=> Pends(d, t)
      BY DEF Inv, ListsInv
    <3>2. Contains(threads[s], c)
      <4>1. threads[s] \in Seq(Client)
        BY <1>3, <1>7
      <4> QED BY <1>3, <1>5, <4>1, ContainsTail
    <3>3. target[c] = s
      BY <1>3, <1>9, <3>2 DEF Inv, ListsInv, Pends
    <3>4. CASE d \in free
      <4>1. ~Pends(d, t)'
        BY <1>8, <1>13, <3>4 DEF Pends
      <4>2. ~Contains(threads'[t], d)
        BY <1>10, <1>11, <1>12, <3>1, <3>4 DEF Pends
      <4> QED BY <4>1, <4>2
    <3>5. CASE d \notin free /\ d # c
      <4>1. Pends(d, t)' <=> Pends(d, t)
        BY <1>13, <3>5 DEF Pends
      <4>2. Contains(threads'[t], d) <=> Contains(threads[t], d)
        BY <1>9, <1>10, <3>5
      <4> QED BY <3>1, <4>1, <4>2
    <3>6. CASE d \notin free /\ d = c
      <4>1. ~Pends(d, t)'
        BY <1>13, <3>6 DEF Pends
      <4>2. ~Contains(threads'[t], d)
        BY <1>9, <1>10, <3>1, <3>3, <3>6 DEF Pends
      <4> QED BY <4>1, <4>2
    <3> QED BY <3>4, <3>5, <3>6
  <2>2. ASSUME NEW t \in Session, NEW d \in Client, Contains(observers'[t], d) PROVE Sleeps(d, t)'
    <3>1. Contains(observers[t], d) /\ Sleeps(d, t)
      BY <1>11, <2>2 DEF Inv, ListsInv
    <3>2. d \notin free
      BY <1>11, <1>12, <2>2, <3>1 DEF Sleeps
    <3> QED BY <1>13, <3>1, <3>2 DEF Sleeps
  <2> QED BY <1>10, <1>11, <2>1, <2>2 DEF ListsInv
<1>25. ServingInv'
  <2>1. ASSUME NEW d \in Client PROVE request'[d] # "read"
    <3>1. d # c => request[d] # "read"
      BY <1>9 DEF Inv, ServingInv
    <3> QED BY <1>13, <3>1
  <2> QED BY <1>6, <1>8, <2>1 DEF ServingInv
<1>26. CountInv'
  <2> SUFFICES ASSUME NEW t \in Session
               PROVE  /\ IsFiniteSet(Spinning(t)')
                      /\ Len(threads'[t]) = pending'[t] + Cardinality(Spinning(t)') + Taken(t)'
    BY DEF CountInv
  <2>1. Spinning(t)' = Spinning(t)
    BY <1>12, <1>13 DEF Spinning
  <2>2. /\ IsFiniteSet(Spinning(t)) /\ Cardinality(Spinning(t)) \in Nat /\ pending[t] \in Nat
        /\ Len(threads[t]) = pending[t] + Cardinality(Spinning(t)) + Taken(t)
    BY <1>1, FS_CardinalityType DEF Inv, TypeOK, CountInv
  <2>3. Taken(t) = IF t = s THEN 1 ELSE 0
    BY <1>1, <1>2, <1>4 DEF Taken, Owed
  <2>4. Taken(t)' = IF server' = "woken" /\ woken' = t /\ t \in live THEN 1 ELSE 0
    BY <1>16, <1>17 DEF Taken, Owed
  <2>5. pending'[t] + Taken(t)' = pending[t] /\ pending'[t] \in Nat /\ Taken(t)' \in Nat
    BY <1>16, <2>2, <2>4
  <2>6. PICK p \in Nat, a \in Nat, k \in Nat :
            p = pending'[t] /\ a = Taken(t)' /\ k = Cardinality(Spinning(t))
    BY <2>2, <2>5
  <2>7. Len(threads[t]) = p + a + k + Taken(t)
    BY <2>2, <2>5, <2>6
  <2>8. Len(threads'[t]) = p + k + a
    <3>1. CASE t = s
      BY <1>9, <1>10, <2>3, <2>7, <3>1
    <3>2. CASE t # s
      BY <1>10, <2>3, <2>7, <3>2
    <3> QED BY <3>1, <3>2
  <2> QED BY <2>1, <2>2, <2>6, <2>8
<1> QED BY <1>6, <1>18, <1>19, <1>20, <1>21, <1>22, <1>23, <1>24, <1>25, <1>26 DEF Inv

(* The server goes on with what it was woken by.  A session with a client    *)
(* has a thread whose request has not been read.                             *)
LEMMA WokenStep == ASSUME Inv, Woken PROVE Inv'
<1>1. /\ fault = "none" /\ server = "woken"
      /\ UNCHANGED <<available, offered, slotWaiters, handles, moved, accepted, portless, pending,
                     threads, observers, pc, target, table, woken>>
  BY DEF Woken, portVars, sessionVars
<1>2. serving = None /\ moved = {} /\ woken \in accepted \cup {Port}
  BY <1>1 DEF Inv, ServerInv
<1>3. /\ threads \in [Session -> Seq(Client)] /\ accepted \subseteq Session
      /\ request \in [Client -> {"none", "sent", "read", "answered"}]
      /\ None \notin Client /\ Port \notin Session
  BY SessionsAssumption DEF Inv, TypeOK
<1>4. /\ fault' = "none" /\ server' \in {"accept", "receive", "close", "serve"}
      /\ server' = "accept" => woken = Port
      /\ server' \in {"receive", "close"} => woken \in accepted /\ ~ClientAlive(woken)
      /\ server' # "serve" => request' = request /\ serving' = None
      /\ server' = "serve" =>
           /\ woken \in accepted /\ ClientAlive(woken) /\ threads[woken] # <<>>
           /\ serving' = Head(threads[woken]) /\ serving' \in Client
           /\ request[serving'] = "sent"
           /\ request' = [request EXCEPT ![serving'] = "read"]
  <2>1. CASE woken = Port /\ server' = "accept" /\ UNCHANGED <<request, serving, fault>>
    BY <1>1, <1>2, <2>1
  <2>2. CASE /\ woken # Port /\ ~ClientAlive(woken) /\ server' \in {"receive", "close"}
             /\ UNCHANGED <<request, serving, fault>>
    BY <1>1, <1>2, <2>2
  <2>3. CASE woken # Port /\ ClientAlive(woken) /\ server' = "serve"
    <3>1. PICK s : s = woken
      OBVIOUS
    <3>2. s \in Session /\ s \in accepted
      BY <1>2, <1>3, <2>3, <3>1
    <3>3. Taken(s) = 1
      BY <1>1, <2>3, <3>1 DEF Taken, Owed
    <3>4. threads[s] # <<>>
      <4>1. /\ Len(threads[s]) = pending[s] + Cardinality(Spinning(s)) + Taken(s)
            /\ IsFiniteSet(Spinning(s)) /\ pending[s] \in Nat
        BY <1>1, <3>2 DEF Inv, TypeOK, CountInv
      <4>2. Cardinality(Spinning(s)) \in Nat
        BY <4>1, FS_CardinalityType
      <4>3. Len(threads[s]) # 0
        BY <3>3, <4>1, <4>2
      <4> QED BY <4>3
    <3>5. PICK c : c = Head(threads[s])
      OBVIOUS
    <3>6. c \in Client /\ Contains(threads[s], c)
      <4>1. threads[s] \in Seq(Client)
        BY <1>3, <3>2
      <4> QED BY <3>4, <3>5, <4>1, ContainsTail
    <3>7. request[c] = "sent"
      <4>1. request[c] \in {"sent", "read"}
        BY <3>2, <3>6 DEF Inv, ListsInv, Pends
      <4>2. request[c] # "read"
        BY <1>2, <1>3, <3>6 DEF Inv, ServingInv
      <4> QED BY <4>1, <4>2
    <3>8. serving' = c /\ fault' = fault /\ request' = [request EXCEPT ![c] = "read"]
      BY <2>3, <3>1, <3>4, <3>5, <3>7 DEF Woken
    <3> QED BY <1>1, <2>3, <3>1, <3>2, <3>4, <3>5, <3>6, <3>7, <3>8
  <2> QED BY <1>1, <2>1, <2>2, <2>3 DEF Woken
<1>5. /\ request' \in [Client -> {"none", "sent", "read", "answered"}]
      /\ \A d \in Client : request'[d] = IF server' = "serve" /\ d = serving' THEN "read"
                                                                             ELSE request[d]
      /\ serving' \in Client \cup {None}
  BY <1>3, <1>4
<1>6. \A t \in Session : ClientAlive(t)' <=> ClientAlive(t)
  BY <1>1 DEF ClientAlive, Using
<1>7. TypeOK'
  <2>1. server' \in {"receive", "asleep", "woken", "accept", "serve", "close"}
    BY <1>4
  <2> QED BY <1>1, <1>4, <1>5, <2>1 DEF Inv, TypeOK
<1>8. PortInv' /\ OfferInv' /\ SlotsConserved'
  BY <1>1 DEF Inv, PortInv, OfferInv, SlotsConserved
<1>9. ServerInv'
  <2>1. woken = Port => offered # <<>>
    BY <1>1 DEF Inv, ServerInv
  <2>2. serving' # None <=> server' = "serve"
    BY <1>3, <1>4
  <2> QED BY <1>1, <1>2, <1>4, <2>1, <2>2 DEF ServerInv
<1>10. SessionWakeups'
  BY <1>1, <1>4 DEF Inv, SessionWakeups
<1>11. StatesInv'
  <2>1. \A d \in Client : request'[d] # "none" <=> request[d] # "none"
    BY <1>4, <1>5
  <2> QED BY <1>1, <2>1 DEF Inv, StatesInv
<1>12. ListsInv'
  <2>1. \A d \in Client, t \in Session : Pends(d, t)' <=> Pends(d, t)
    BY <1>1, <1>4, <1>5 DEF Pends
  <2>2. \A d \in Client, t \in Session : Sleeps(d, t)' <=> Sleeps(d, t)
    BY <1>1 DEF Sleeps
  <2> QED BY <1>1, <2>1, <2>2 DEF Inv, ListsInv
<1>13. ServingInv'
  <2>1. \A d \in Client : request[d] # "read"
    BY <1>2, <1>3 DEF Inv, ServingInv
  <2> QED BY <1>1, <1>3, <1>4, <1>5, <2>1 DEF ServingInv
<1>14. CountInv'
  <2>1. ASSUME NEW t \in Session PROVE Spinning(t)' = Spinning(t) /\ Taken(t)' = Taken(t)
    <3>1. Spinning(t)' = Spinning(t)
      BY <1>1 DEF Spinning
    <3>2. CASE woken # t
      <4>1. ~Owed(t) /\ ~Owed(t)'
        BY <1>1, <3>2 DEF Owed
      <4> QED BY <3>1, <4>1 DEF Taken
    <3>3. CASE woken = t /\ ~ClientAlive(t)
      <4>1. ~ClientAlive(t)'
        BY <1>6, <3>3
      <4> QED BY <3>1, <3>3, <4>1 DEF Taken
    <3>4. CASE woken = t /\ ClientAlive(t)
      <4>1. server' = "serve"
        BY <1>3, <1>4, <3>4
      <4> QED BY <1>1, <1>6, <3>1, <3>4, <4>1 DEF Taken, Owed
    <3> QED BY <3>1, <3>2, <3>3, <3>4
  <2> QED BY <1>1, <2>1 DEF Inv, CountInv
<1> QED BY <1>4, <1>7, <1>8, <1>9, <1>10, <1>11, <1>12, <1>13, <1>14 DEF Inv

(* The server accepts the first session on offer: there is one. *)
LEMMA AcceptStep == ASSUME Inv, SVCAcceptSession PROVE Inv'
<1>1. fault = "none" /\ server = "accept" /\ woken = Port /\ offered # <<>> /\ serving = None
  BY DEF SVCAcceptSession, Inv, ServerInv
<1>2. PICK s : s = Head(offered)
  OBVIOUS
<1>3. /\ offered' = Tail(offered) /\ accepted' = accepted \cup {s}
      /\ pending' = [pending EXCEPT ![s] = 0]
      /\ \/ server' = "close" /\ woken' = s /\ table' = table
         \/ server' = "receive" /\ woken' = Port /\ table' = Append(table, s)
      /\ UNCHANGED <<available, slotWaiters, handles, moved, portless, threads, observers,
                     pc, target, request, serving, fault>>
  BY <1>1, <1>2 DEF SVCAcceptSession, clientVars
<1>4. /\ s \in Session /\ Contains(offered, s) /\ offered' \in Seq(Session)
      /\ Len(offered') = Len(offered) - 1 /\ Distinct(offered') /\ ~Contains(offered', s)
      /\ \A e : Contains(offered', e) => Contains(offered, e)
  BY <1>1, <1>2, <1>3, ContainsTail DEF Inv, TypeOK, PortInv
<1>5. s \notin accepted /\ ~Contains(table, s) /\ pending[s] = 0
  BY <1>4 DEF Inv, PortInv, OfferInv
<1>6. /\ table' \in Seq(Session) /\ Distinct(table')
      /\ \A e : Contains(table', e) => Contains(table, e) \/ e = s
      /\ \A e : Contains(table, e) => Contains(table', e)
      /\ Contains(table', s) \/ (server' = "close" /\ woken' = s)
  <2>1. table \in Seq(Session) /\ Distinct(table)
    BY DEF Inv, TypeOK, PortInv
  <2>2. CASE server' = "close" /\ woken' = s /\ table' = table
    BY <2>1, <2>2
  <2>3. CASE table' = Append(table, s)
    <3>1. /\ Append(table, s) \in Seq(Session)
          /\ \A e : Contains(Append(table, s), e) <=> Contains(table, e) \/ e = s
          /\ Distinct(Append(table, s))
      BY <1>4, <1>5, <2>1, ContainsAppend
    <3> QED BY <2>3, <3>1
  <2> QED BY <1>3, <2>2, <2>3
<1>7. pending' = pending /\ pending \in [Session -> Nat]
  BY <1>3, <1>4, <1>5 DEF Inv, TypeOK
<1>8. \A t \in Session : ClientAlive(t)' <=> ClientAlive(t)
  BY <1>3 DEF ClientAlive, Using
<1>9. TypeOK'
  <2>1. handles \cup moved \cup accepted' \subseteq Session /\ portless \subseteq accepted'
    BY <1>3, <1>4 DEF Inv, TypeOK
  <2>2. woken' \in Session \cup {Port, None} /\ server' \in {"receive", "close"}
    BY <1>3, <1>4
  <2> QED BY <1>3, <1>4, <1>6, <1>7, <2>1, <2>2 DEF Inv, TypeOK
<1>10. (accepted \ portless)' = (accepted \ portless) \cup {s} /\ s \notin accepted \ portless
  BY <1>3, <1>5 DEF Inv, TypeOK
<1>11. /\ IsFiniteSet((accepted \ portless)')
       /\ Cardinality((accepted \ portless)') = Cardinality(accepted \ portless) + 1
  <2>1. PICK A : A = accepted \ portless
    OBVIOUS
  <2>2. IsFiniteSet(A) /\ s \notin A
    BY <1>10, <2>1, Numbers
  <2>3. IsFiniteSet(A \cup {s}) /\ Cardinality(A \cup {s}) = Cardinality(A) + 1
    BY <2>2, FS_AddElement
  <2> QED BY <1>10, <2>1, <2>3
<1>12. PortInv'
  <2>1. ASSUME NEW t \in Session, Contains(offered', t) PROVE t \notin accepted'
    BY <1>3, <1>4, <2>1 DEF Inv, PortInv
  <2>2. ASSUME NEW t \in Session, Contains(table', t) PROVE t \in accepted'
    BY <1>3, <1>6, <2>2 DEF Inv, PortInv
  <2>3. ASSUME NEW t \in accepted' PROVE Contains(table', t) \/ (server' = "close" /\ woken' = t)
    BY <1>1, <1>3, <1>6 DEF Inv, PortInv
  <2>4. \A t \in handles' : t \notin moved'
    BY <1>3 DEF Inv, PortInv
  <2> QED BY <1>4, <1>6, <1>11, <2>1, <2>2, <2>3, <2>4 DEF PortInv
<1>13. SlotsConserved'
  BY <1>3, <1>4, <1>11, Numbers DEF SlotsConserved
<1>14. OfferInv'
  BY <1>4, <1>7 DEF Inv, OfferInv
<1>15. ServerInv'
  <2>1. moved' = {} /\ serving' = None
    BY <1>1, <1>3 DEF Inv, ServerInv
  <2>2. server' \in {"close", "receive"} /\ (server' = "close" => woken' \in accepted')
    BY <1>3
  <2> QED BY <2>1, <2>2 DEF ServerInv
<1>16. SessionWakeups'
  BY <1>3 DEF Inv, SessionWakeups
<1>17. StatesInv' /\ ListsInv' /\ ServingInv'
  BY <1>1, <1>3 DEF Inv, StatesInv, ListsInv, ServingInv, Pends, Sleeps
<1>18. CountInv'
  <2>1. ASSUME NEW t \in Session PROVE Spinning(t)' = Spinning(t) /\ Taken(t)' = Taken(t)
    BY <1>1, <1>3 DEF Spinning, Taken, Owed
  <2> QED BY <1>1, <1>3, <1>7, <2>1 DEF Inv, CountInv
<1> QED BY <1>1, <1>3, <1>9, <1>12, <1>13, <1>14, <1>15, <1>16, <1>17, <1>18 DEF Inv

(* The server handles a request, and may make a session to hand out with    *)
(* the answer.                                                              *)
LEMMA ServeStep == ASSUME Inv, Serve PROVE Inv'
<1>1. /\ fault = "none" /\ server = "serve" /\ server' = "receive" /\ serving # None
      /\ woken \in accepted /\ moved = {}
      /\ UNCHANGED <<available, offered, slotWaiters, handles, threads, observers, pc, target, request,
                     woken, serving, fault>>
  BY DEF Serve, Inv, ServerInv, portVars, clientVars
<1>2. \A t \in Session : Spinning(t)' = Spinning(t)
  BY <1>1 DEF Spinning
<1>3. \A t \in Session : Owed(t)' <=> Owed(t)
  BY <1>1 DEF Owed
<1>4. StatesInv' /\ ListsInv' /\ ServingInv'
  BY <1>1 DEF Inv, StatesInv, ListsInv, ServingInv, Pends, Sleeps
<1>5. CASE UNCHANGED <<moved, accepted, portless, pending, table>>
  <2>1. \A t \in Session : ClientAlive(t)' <=> ClientAlive(t)
    BY <1>1, <1>5 DEF ClientAlive, Using
  <2>2. TypeOK'
    BY <1>1, <1>5 DEF Inv, TypeOK
  <2>3. PortInv' /\ OfferInv' /\ SlotsConserved'
    BY <1>1, <1>5 DEF Inv, PortInv, OfferInv, SlotsConserved
  <2>4. ServerInv' /\ SessionWakeups'
    BY <1>1, <1>5 DEF Inv, ServerInv, SessionWakeups
  <2>5. CountInv'
    <3>1. \A t \in Session : Taken(t)' = Taken(t)
      BY <1>3, <2>1 DEF Taken
    <3> QED BY <1>1, <1>2, <1>5, <3>1 DEF Inv, CountInv
  <2> QED BY <1>1, <1>4, <2>2, <2>3, <2>4, <2>5 DEF Inv
<1>6. CASE \E s \in Unused : /\ accepted' = accepted \cup {s}
                             /\ portless' = portless \cup {s}
                             /\ moved' = {s}
                             /\ pending' = [pending EXCEPT ![s] = 0]
                             /\ table' = Append(table, s)
  <2>1. PICK s \in Unused : /\ accepted' = accepted \cup {s}
                            /\ portless' = portless \cup {s}
                            /\ moved' = {s}
                            /\ pending' = [pending EXCEPT ![s] = 0]
                            /\ table' = Append(table, s)
    BY <1>6
  <2>2. /\ s \in Session /\ s \notin accepted /\ ~Contains(offered, s) /\ s \notin handles
        /\ ~Contains(table, s) /\ \A d \in Client : ~Using(d, s)
    BY DEF Unused, ClientAlive, Inv, PortInv
  <2>3. pending[s] = 0 /\ Taken(s) = 0
    BY <1>1, <2>2, UnusedEmpty
  <2>4. pending' = pending /\ pending \in [Session -> Nat]
    BY <2>1, <2>2, <2>3 DEF Inv, TypeOK
  <2>5. /\ table' \in Seq(Session) /\ Distinct(table')
        /\ \A e : Contains(table', e) <=> Contains(table, e) \/ e = s
    <3>1. table \in Seq(Session) /\ Distinct(table)
      BY DEF Inv, TypeOK, PortInv
    <3> QED BY <2>1, <2>2, <3>1, ContainsAppend
  <2>6. \A t \in Session : ClientAlive(t)' <=> ClientAlive(t) \/ t = s
    BY <1>1, <2>1 DEF ClientAlive, Using
  <2>7. (accepted \ portless)' = accepted \ portless
    BY <2>1, <2>2
  <2>8. TypeOK'
    <3>1. /\ handles \cup moved' \cup accepted' \subseteq Session /\ portless' \subseteq accepted'
      BY <2>1, <2>2 DEF Inv, TypeOK
    <3> QED BY <1>1, <2>4, <2>5, <3>1 DEF Inv, TypeOK
  <2>9. PortInv'
    <3>1. ASSUME NEW t \in Session, Contains(offered', t) PROVE t \notin accepted'
      BY <1>1, <2>1, <2>2, <3>1 DEF Inv, PortInv
    <3>2. ASSUME NEW t \in Session, Contains(table', t) PROVE t \in accepted'
      BY <2>1, <2>5, <3>2 DEF Inv, PortInv
    <3>3. ASSUME NEW t \in accepted' PROVE Contains(table', t)
      BY <1>1, <2>1, <2>5 DEF Inv, PortInv
    <3>4. \A t \in handles' : t \notin moved'
      BY <1>1, <2>1, <2>2
    <3>5. Distinct(offered') /\ IsFiniteSet((accepted \ portless)')
      BY <1>1, <2>7 DEF Inv, PortInv
    <3> QED BY <2>5, <3>1, <3>2, <3>3, <3>4, <3>5 DEF PortInv
  <2>10. SlotsConserved'
    BY <1>1, <2>7, Numbers DEF SlotsConserved
  <2>11. OfferInv'
    BY <1>1, <2>4 DEF Inv, OfferInv
  <2>12. ServerInv'
    BY <1>1, <2>1 DEF ServerInv
  <2>13. SessionWakeups'
    BY <1>1 DEF Inv, SessionWakeups
  <2>14. CountInv'
    <3>1. ASSUME NEW t \in Session PROVE Taken(t)' = Taken(t)
      <4>1. t = s => ~Owed(t)
        BY <1>1, <2>2 DEF Owed
      <4> QED BY <1>3, <2>6, <4>1 DEF Taken
    <3> QED BY <1>1, <1>2, <2>4, <3>1 DEF Inv, CountInv
  <2> QED BY <1>1, <1>4, <2>8, <2>9, <2>10, <2>11, <2>12, <2>13, <2>14 DEF Inv
<1> QED BY <1>5, <1>6 DEF Serve

(* The server closes the session that woke it, which frees its slot. *)
LEMMA CloseServerStep == ASSUME Inv, CloseServerSession PROVE Inv'
<1>1. /\ fault = "none" /\ server = "close" /\ server' = "receive" /\ serving = None /\ moved = {}
      /\ woken \in accepted
      /\ UNCHANGED <<offered, handles, moved, pending, threads, observers, target, request, woken,
                     serving, fault>>
  BY DEF CloseServerSession, Inv, ServerInv
<1>2. PICK s : s = woken
  OBVIOUS
<1>3. /\ accepted' = accepted \ {s} /\ portless' = portless \ {s}
      /\ table' = RemoveFirst(table, s)
      /\ available' = IF s \in portless THEN available ELSE available + 1
      /\ slotWaiters' = IF s \in portless THEN slotWaiters ELSE {}
      /\ pc' = [c \in Client |-> IF c \in slotWaiters \ slotWaiters' THEN "run" ELSE pc[c]]
  BY <1>2 DEF CloseServerSession, SlotsAfterClose, SlotWaitersAfterClose
<1>4. s \in Session /\ s \in accepted /\ portless \subseteq accepted
  BY <1>1, <1>2 DEF Inv, TypeOK
<1>5. /\ table' \in Seq(Session) /\ Distinct(table')
      /\ \A e : Contains(table', e) <=> Contains(table, e) /\ e # s
  <2>1. table \in Seq(Session) /\ Distinct(table)
    BY DEF Inv, TypeOK, PortInv
  <2> QED BY <1>3, <2>1, RemoveOne
<1>6. /\ \A d \in Client : pc'[d] = pc[d] \/ (pc[d] = "slotwait" /\ pc'[d] = "run")
      /\ pc' \in [Client -> {"run", "slotwait", "spin", "asleep"}]
      /\ \A d \in slotWaiters' : pc'[d] = "slotwait"
  <2>1. /\ pc \in [Client -> {"run", "slotwait", "spin", "asleep"}] /\ slotWaiters \subseteq Client
        /\ \A d \in slotWaiters : pc[d] = "slotwait"
    BY DEF Inv, TypeOK, StatesInv
  <2> QED BY <1>3, <2>1
<1>7. \A t \in Session : ClientAlive(t)' <=> ClientAlive(t)
  <2>1. \A t \in Session, d \in Client : Using(d, t)' <=> Using(d, t)
    BY <1>1, <1>6 DEF Using
  <2> QED BY <1>1, <2>1 DEF ClientAlive
<1>8. /\ IsFiniteSet((accepted \ portless)')
      /\ available' \in 0..MaxSessions
      /\ available' + Len(offered') + Cardinality((accepted \ portless)') = MaxSessions
  <2>1. PICK A : A = accepted \ portless
    OBVIOUS
  <2>2. /\ IsFiniteSet(A) /\ Cardinality(A) \in Nat /\ MaxSessions \in Nat /\ available \in Nat
        /\ available <= MaxSessions
        /\ Len(offered) \in Nat /\ available + Len(offered) + Cardinality(A) = MaxSessions
    BY <2>1, Numbers
  <2>3. CASE s \in portless
    <3>1. (accepted \ portless)' = A
      BY <1>3, <2>1, <2>3
    <3>2. available' = available /\ available \in 0..MaxSessions
      BY <1>3, <2>2, <2>3
    <3>3. available + Len(offered) + Cardinality(A) = MaxSessions
      BY <2>2
    <3> QED BY <1>1, <2>2, <3>1, <3>2, <3>3
  <2>4. CASE s \notin portless
    <3>1. (accepted \ portless)' = A \ {s} /\ s \in A
      BY <1>3, <1>4, <2>1, <2>4
    <3>2. /\ IsFiniteSet(A \ {s}) /\ Cardinality(A \ {s}) = Cardinality(A) - 1
          /\ Cardinality(A \ {s}) \in Nat
      BY <2>2, <3>1, FS_RemoveElement, FS_CardinalityType
    <3>3. available + 1 \in 0..MaxSessions
      BY <2>2, <3>2
    <3>4. (available + 1) + Len(offered) + Cardinality(A \ {s}) = MaxSessions
      BY <2>2, <3>2
    <3> QED BY <1>1, <1>3, <2>4, <3>1, <3>2, <3>3, <3>4
  <2> QED BY <2>3, <2>4
<1>9. TypeOK'
  <2>1. /\ handles \cup moved \cup accepted' \subseteq Session /\ portless' \subseteq accepted'
        /\ slotWaiters' \subseteq Client
    BY <1>3, <1>4 DEF Inv, TypeOK
  <2> QED BY <1>1, <1>5, <1>6, <1>8, <2>1 DEF Inv, TypeOK
<1>10. PortInv'
  <2>1. ASSUME NEW t \in Session, Contains(offered', t) PROVE t \notin accepted'
    BY <1>1, <1>3, <2>1 DEF Inv, PortInv
  <2>2. ASSUME NEW t \in Session, Contains(table', t) PROVE t \in accepted'
    BY <1>3, <1>5, <2>2 DEF Inv, PortInv
  <2>3. ASSUME NEW t \in accepted' PROVE Contains(table', t)
    BY <1>2, <1>3, <1>5 DEF Inv, PortInv
  <2>4. Distinct(offered') /\ \A t \in handles' : t \notin moved'
    BY <1>1 DEF Inv, PortInv
  <2> QED BY <1>5, <1>8, <2>1, <2>2, <2>3, <2>4 DEF PortInv
<1>11. SlotsConserved'
  BY <1>8 DEF SlotsConserved
<1>12. OfferInv'
  BY <1>1 DEF Inv, OfferInv
<1>13. ServerInv'
  BY <1>1 DEF ServerInv
<1>14. SessionWakeups'
  BY <1>1, <1>3 DEF Inv, SessionWakeups
<1>15. StatesInv'
  <2>1. \A d \in Client : pc'[d] \in {"spin", "asleep"} <=> pc[d] \in {"spin", "asleep"}
    BY <1>6
  <2> QED BY <1>1, <1>6, <2>1 DEF Inv, StatesInv
<1>16. ListsInv'
  <2>1. \A d \in Client, t \in Session : Pends(d, t)' <=> Pends(d, t)
    BY <1>1 DEF Pends
  <2>2. \A d \in Client, t \in Session : Sleeps(d, t)' <=> Sleeps(d, t)
    BY <1>1, <1>6 DEF Sleeps
  <2> QED BY <1>1, <2>1, <2>2 DEF Inv, ListsInv
<1>17. ServingInv'
  BY <1>1 DEF Inv, ServingInv
<1>18. CountInv'
  <2>1. \A t \in Session : Spinning(t)' = Spinning(t)
    BY <1>1, <1>6 DEF Spinning
  <2>2. \A t \in Session : Taken(t)' = 0 /\ Taken(t) = 0
    BY <1>1 DEF Taken, Owed
  <2> QED BY <1>1, <2>1, <2>2 DEF Inv, CountInv
<1> QED BY <1>1, <1>9, <1>10, <1>11, <1>12, <1>13, <1>14, <1>15, <1>16, <1>17, <1>18 DEF Inv

-----------------------------------------------------------------------------
(* Every step of a client thread or of the server preserves the invariant. *)
LEMMA NextInv == ASSUME Inv, [Next]_vars PROVE Inv'
<1>1. CASE ServerStep
  BY <1>1, ReceiveOnlyStep, ReplyStep, WokenStep, AcceptStep, ServeStep, CloseServerStep
     DEF ServerStep
<1>2. ASSUME NEW c \in Client,
             \/ SVCConnectToPort(c) \/ WaitForSlot(c) \/ SVCSendSyncRequest(c)
             \/ SendSyncRequestContinuation(c) \/ CloseClientSession(c)
      PROVE  Inv'
  BY <1>2, ConnectStep, WaitForSlotStep, SendStep, ContinueStep, CloseClientStep
<1>3. CASE Halted
  BY <1>3, Stutter DEF Halted
<1>4. CASE UNCHANGED vars
  BY <1>4, Stutter
<1> QED BY <1>1, <1>2, <1>3, <1>4 DEF Next

(* The invariant holds in every state that the system reaches. *)
LEMMA Invariance == Spec => []Inv
<1> QED BY InitInv, NextInv, PTL DEF Spec

(* Port, session, client and server state keep their types; in particular   *)
(* ServerPort::available_sessions stays between zero and max_sessions, and   *)
(* ServerSession::ipc_commands_pending never becomes negative.               *)
THEOREM TypeCorrect == Spec => []TypeOK
<1>1. Inv => TypeOK
  BY DEF Inv
<1> QED BY <1>1, Invariance, PTL

(* Connecting, accepting, making sessions without a port and closing neither *)
(* lose nor create a slot of the port, whatever its max_sessions and however *)
(* many clients there are.                                                   *)
THEOREM SlotsHold == Spec => []SlotsConserved
<1>1. Inv => SlotsConserved
  BY DEF Inv
<1> QED BY <1>1, Invariance, PTL

(* The server does not sleep in SVCReplyAndReceive while there is a session  *)
(* to accept, a command to read or a session to close, and no thread sleeps  *)
(* on the client port while a slot is free.                                  *)
THEOREM WakeupsHold == Spec => []SessionWakeups
<1>1. Inv => SessionWakeups
  BY DEF Inv
<1> QED BY <1>1, Invariance, PTL

(* The commands that are announced are the requests that are there, so that  *)
(* every request is read once, every answer goes to the thread whose request *)
(* was read, and no assertion on the server's path fails.                    *)
THEOREM ExchangeHolds == Spec => []ExchangeOK
<1>1. Inv => ExchangeOK
  <2> SUFFICES ASSUME Inv PROVE ExchangeOK OBVIOUS
  <2>1. ASSUME fault = "none", NEW s \in Session, ClientAlive(s)
        PROVE  Len(threads[s]) =
                 pending[s] + Cardinality({c \in Client : pc[c] = "spin" /\ target[c] = s})
                   + (IF woken = s /\ server \in {"woken", "serve", "receive"}
                          /\ (server = "receive" => serving # None) THEN 1 ELSE 0)
    <3>1. Len(threads[s]) = pending[s] + Cardinality(Spinning(s)) + Taken(s)
      BY <2>1 DEF Inv, CountInv
    <3>2. Taken(s) = IF Owed(s) THEN 1 ELSE 0
      BY <2>1 DEF Taken
    <3> QED BY <3>1, <3>2 DEF Spinning, Owed
  <2>2. CommandsMatch
    BY <2>1 DEF CommandsMatch
  <2> QED BY <2>2 DEF Inv, ExchangeOK
<1> QED BY <1>1, Invariance, PTL

=============================================================================
