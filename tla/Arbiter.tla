------------------------------- MODULE Arbiter -------------------------------
(***************************************************************************)
(* Address arbitration (os.cpp: SVCArbitrateAddress, SVCCreateThread,      *)
(* RegisterToScheduler, Reschedule), the call from which programs build    *)
(* their own locks: a thread sleeps while a word of its memory is too      *)
(* small, and another thread that has changed the word signals its         *)
(* address.  The programs are those for which the call is made: they open  *)
(* and close a gate, or put and take tokens.  The thread at the front of   *)
(* ready_queue runs and may be preempted after each of its steps; a call   *)
(* is one step, as nothing else runs in the dispatcher.  The arbiter that  *)
(* a program passes is not looked up by the call and therefore left out.   *)
(***************************************************************************)
EXTENDS Integers, Sequences, FiniteSets, SequencesExt, Lists

CONSTANTS Threads,    \* the threads of all processes
          Priority,   \* the priority of every thread, the lowest value comes first
          Layouts,    \* the systems considered: main, the main threads of the processes in their
                      \* order; home, the process of every thread; word, for every process the
                      \* address of its word and its use, "gate" or "tokens"
          MaxTokens   \* bound on the value of a word, from zero in both directions

\* Whatever the program and the kernel do, nothing else is asked of the systems: there are
\* finitely many threads, and a main thread has a process.
ArbiterAssumption ==
  /\ IsFiniteSet(Threads)
  /\ \A l \in Layouts : /\ l.main \in Seq(Threads)
                        /\ \A i \in DOMAIN l.main : l.home[l.main[i]] \in DOMAIN l.word
\* Where threads share tokens, no thread of another process has its word at the same address.
TokensApart ==
  \A l \in Layouts : \A t, u \in Threads :
    LET p == l.home[t]
        q == l.home[u]
    IN {p, q} \subseteq DOMAIN l.word /\ p # q /\ l.word[p].use = "tokens" => l.word[p].addr # l.word[q].addr

VARIABLE arb
\* layout           the system
\* word[p]          the word of process p
\* entries[t]       how often OS::threads holds t; ready: OS::ready_queue
\* status, pc       of each thread; pc is where its program is:
\*                  "top", "signal" (it changed the word and signals next), "try" (it wants to
\*                  pass or take), "call" (it saw that it cannot)
\* fault            SVCBreak was called

Procs == DOMAIN arb.layout.word
Home(t) == arb.layout.home[t]

ArbInit == \E l \in Layouts :
  LET main(t) == t \in ToSet(l.main)
  IN arb = [layout |-> l, word |-> [p \in DOMAIN l.word |-> 0], ready |-> l.main,
            entries |-> [t \in Threads |-> IF main(t) THEN 1 ELSE 0],
            status |-> [t \in Threads |-> IF main(t) THEN "Ready" ELSE "Uncreated"],
            pc |-> [t \in Threads |-> "top"], fault |-> FALSE]

Use(t) == arb.layout.word[Home(t)].use
WordOf(t) == arb.word[Home(t)]
Addr(t) == arb.layout.word[Home(t)].addr

\* The front of the queue is taken off when it cannot run; else it runs.
Running(t) == ~arb.fault /\ arb.ready # <<>> /\ Head(arb.ready) = t /\ arb.status[t] = "Ready"
Rotated(queue) == IF queue = <<>> THEN <<>> ELSE Append(Tail(queue), Head(queue))

\* OS::Reschedule also ends the time slice of a thread that makes no call of its own.
Preempt(t) == Running(t) /\ Len(arb.ready) > 1 /\ arb' = [arb EXCEPT !.ready = Rotated(@)]

(***************************************************************************)
(* The programs.                                                           *)
(***************************************************************************)
Store(t, value, next) ==
  arb' = [arb EXCEPT !.word[Home(t)] = value, !.pc[t] = next]

Open(t) == Running(t) /\ arb.pc[t] = "top" /\ Use(t) = "gate" /\ Store(t, 1, "signal")
Close(t) == Running(t) /\ arb.pc[t] = "top" /\ Use(t) = "gate" /\ WordOf(t) = 1 /\ Store(t, 0, "top")
Put(t) == /\ Running(t) /\ arb.pc[t] = "top" /\ Use(t) = "tokens" /\ WordOf(t) < MaxTokens
          /\ Store(t, WordOf(t) + 1, "signal")
Want(t) == Running(t) /\ arb.pc[t] = "top" /\ Store(t, WordOf(t), "try")
Try(t) ==
  /\ Running(t) /\ arb.pc[t] = "try"
  /\ \/ WordOf(t) < 1 /\ Store(t, WordOf(t), "call")
     \/ WordOf(t) >= 1 /\ Store(t, IF Use(t) = "tokens" THEN WordOf(t) - 1 ELSE WordOf(t), "top")

(***************************************************************************)
(* The system calls.                                                       *)
(***************************************************************************)
\* A new thread is entered once by RegisterToScheduler and once more by the call itself.
SVCCreateThread(t) ==
  /\ Running(t) /\ arb.pc[t] = "top"
  /\ \E new \in Threads :
       /\ arb.status[new] = "Uncreated" /\ Home(new) = Home(t)
       /\ arb' = [arb EXCEPT !.status[new] = "Ready", !.entries[new] = 2,
                             !.ready = Rotated(Append(@, new))]

\* TriggerThreadDestruction removes one entry of the thread; the other finds it stopped
SVCExitThread(t) ==
  /\ Running(t) /\ arb.pc[t] = "top"
  /\ arb' = [arb EXCEPT !.status[t] = "Stopped", !.entries[t] = @ - 1,
                        !.ready = Rotated(Erased(@, t))]

\* the address alone decides: a thread of another process that waits at the same virtual
\* address is woken as well
WaitingForArbitration(t, u) == arb.status[u] = "WaitingForArbitration" /\ Addr(u) = Addr(t)

\* Up to count entries of the list are woken, some of them for the same thread, which is
\* then queued as often.  The comparator prefers large priority values.
Signal(t, count) ==
  LET waiting == {u \in Threads : WaitingForArbitration(t, u)}
      entry == {e \in waiting \X (1 .. 2) : e[2] <= arb.entries[e[1]]}
      size == Cardinality(entry)
      number == IF count < 0 \/ count > size THEN size ELSE count
  IN \E first \in SUBSET entry :
       /\ Cardinality(first) = number
       /\ \A e \in first : \A f \in entry \ first : Priority[e[1]] >= Priority[f[1]]
       /\ \E woken \in SetToSeqs(first) :
            arb' = [arb EXCEPT !.status = [u \in Threads |-> IF \E e \in first : e[1] = u THEN "Ready" ELSE @[u]],
                               !.ready = Rotated(@ \o [i \in DOMAIN woken |-> woken[i][1]]),
                               !.pc[t] = "top"]
SignalGate(t) == Running(t) /\ arb.pc[t] = "signal" /\ Use(t) = "gate" /\ Signal(t, -1)
SignalToken(t) == Running(t) /\ arb.pc[t] = "signal" /\ Use(t) = "tokens" /\ Signal(t, 1)

SmallerOrEqual(word, value) == word <= value     \* mutant: a word that suffices puts to sleep
Smaller(word, value) == word < value             \* both are taken as signed

\* Acquire, and DecrementAndAcquire for a gate; the other two types, which have a timeout,
\* end in SVCBreak after the same change of the word.  Both Reschedule calls take effect.
Acquire(t, decrement, timeout) ==
  /\ Running(t) /\ arb.pc[t] = "call"
  /\ decrement => Use(t) = "gate" /\ WordOf(t) > -MaxTokens
  /\ IF ~Smaller(WordOf(t), 1)
     THEN arb' = [arb EXCEPT !.pc[t] = "try", !.ready = Rotated(@)]
     ELSE /\ arb' = [arb EXCEPT !.word[Home(t)] = IF decrement THEN @ - 1 ELSE @,
                                !.pc[t] = IF timeout THEN @ ELSE "try",
                                !.fault = timeout,
                                !.status[t] = IF timeout THEN @ ELSE "WaitingForArbitration",
                                !.ready = IF timeout THEN @ ELSE Rotated(Rotated(Erased(@, t)))]

ArbNext == \E t \in Threads :
          \/ Preempt(t) \/ Open(t) \/ Close(t) \/ Put(t) \/ Want(t) \/ Try(t)
          \/ SVCCreateThread(t) \/ SVCExitThread(t) \/ SignalGate(t) \/ SignalToken(t)
          \/ \E decrement, timeout \in BOOLEAN : Acquire(t, decrement, timeout)
ArbSpec == ArbInit /\ [][ArbNext]_arb

(***************************************************************************)
(* Properties.                                                             *)
(***************************************************************************)
ArbTypeOK == arb \in [layout : Layouts, word : [Procs -> Int], ready : Seq(Threads), entries : [Threads -> Nat],
                   status : [Threads -> {"Uncreated", "Ready", "WaitingForArbitration", "Stopped"}],
                   pc : [Threads -> {"top", "signal", "try", "call"}], fault : BOOLEAN]

Of(p) == {t \in Threads : Home(t) = p}
Asleep(p) == {t \in Of(p) : arb.status[t] = "WaitingForArbitration"}
At(p, pcs) == {t \in Of(p) : arb.status[t] = "Ready" /\ arb.pc[t] \in pcs}

\* Nobody waits at an open gate, unless the signal of the thread that opened it is still to
\* come: the comparison and going to sleep are one step, and a signal for all finds every
\* thread in the list, whatever else waits at that address.
GatesOpen == \A p \in Procs : arb.layout.word[p].use = "gate" /\ arb.word[p] >= 1 /\ Asleep(p) # {}
                                => At(p, {"signal"}) # {}

\* As long as there are tokens and threads that wait for one, enough signals are under way
\* or enough threads awake to take them: a signal for one wakes one, although threads that
\* were created are in the list twice.
TokensReach == \A p \in Procs : arb.layout.word[p].use = "tokens" =>
  LET n == Cardinality(Asleep(p))
  IN Cardinality(At(p, {"signal", "try", "call"})) >= IF arb.word[p] < n THEN arb.word[p] ELSE n

\* A thread that is ready can be dispatched, one that is not is in no queue, and a signal
\* can find every thread that waits.
QueuesRight == \A t \in Threads :
  /\ arb.status[t] = "Ready" <=> t \in ToSet(arb.ready)
  /\ arb.status[t] = "WaitingForArbitration" => arb.entries[t] > 0

\* No thread sleeps at a gate that is open or beside tokens that nobody will take, although
\* threads are listed twice and addresses of different processes coincide (SVCArbitrateAddress).
WaitersServed == GatesOpen /\ TokensReach /\ QueuesRight
=============================================================================
