------------------------------- MODULE Kernel -------------------------------
(***************************************************************************)
(* The thread scheduler and the synchronisation objects of the emulated    *)
(* operating system (source/os.cpp, source/os.hpp).                        *)
(*                                                                         *)
(* The dispatcher (OS::EnterExecutionLoop) resumes the thread at the front *)
(* of ready_queue, lets it run up to its next system call, elapses the     *)
(* emulated time, and then performs the system call.  Nothing else runs    *)
(* while it does: the variable todo holds what is left to be done of the   *)
(* current dispatcher iteration, as a stack of the pending loop iterations *)
(* and calls.  A step of the model is one iteration of one of those loops, *)
(* so that OnResourceReady, WaitSynchronizationN and ElapseTime are        *)
(* modelled call by call, in the order in which the code makes them.       *)
(*                                                                         *)
(* Time is counted in units of one Reschedule (500 ns) and relative to     *)
(* the present: a timeout is the number of units left until it is due.     *)
(***************************************************************************)
EXTENDS Integers, Sequences, FiniteSets, SequencesExt, Lists

CONSTANTS
    Thread,        \* the threads of the emulated process
    Main,          \* the threads that exist initially, in their queue order
    MutexSeq,      \* the mutexes, in the order of their handles
    Semaphore,     \* the semaphores
    Event,         \* the events
    TimerSeq,      \* the timers, in the order of active_timers
    ResetType,     \* the reset type of every event and timer
    MaxAvailable,  \* max_available of every semaphore
    VBlankSeq,     \* the events bound to the vertical blank interrupts
    Requests,      \* the handle lists that programs wait on
    WaitModes,     \* the values of wait_for_all that programs use
    Timeouts,      \* the timeouts of the waits of programs
    SleepTimes,    \* the durations of SVCSleepThread that programs use
    Closable,      \* the objects whose handle programs may close
    CanExit,       \* the threads that may call SVCExitThread
    IdleTicks,     \* the time that an idle dispatcher iteration takes
    SystemTicks,   \* the time that SVCGetSystemTick takes
    MaxLock,       \* bound: the recursion depth of mutexes
    MaxWaiting     \* bound: the length of waiting_queue

Mutex  == Range(MutexSeq)
Timer  == Range(TimerSeq)
Object == Mutex \cup Semaphore \cup Event \cup Timer \cup Thread

Never == -1     \* a timeout_at of -1; the "timeout" of an inactive timer
None  == "none" \* no thread, no object

ASSUME KernelAssumption ==
    /\ Main \in Seq(Thread) /\ IsInjective(Main)
    /\ Timeouts \subseteq Nat \cup {Never} /\ SleepTimes \subseteq Nat
    /\ IdleTicks \in Nat \ {0} /\ SystemTicks \in Nat \ {0}
    /\ MaxAvailable \in Nat /\ MaxLock \in Nat /\ MaxWaiting \in Nat
    /\ ResetType \in [Event \cup Timer -> {"OneShot", "Sticky", "Pulse"}]
    /\ \A e \in Event : ResetType[e] # "Pulse"
    /\ MutexSeq \in Seq(Mutex) /\ TimerSeq \in Seq(Timer) /\ VBlankSeq \in Seq(Event)
    /\ \A r \in Requests : r \in Seq(Object)
    /\ WaitModes \subseteq BOOLEAN
    /\ None \notin Object
    /\ Mutex \cap (Semaphore \cup Event \cup Timer \cup Thread) = {}
    /\ Semaphore \cap (Event \cup Timer \cup Thread) = {}
    /\ Event \cap (Timer \cup Thread) = {} /\ Timer \cap Thread = {}

VARIABLES
    status, waitList, waitForAll, timeoutAt, result, \* fields of Thread
    observers,                       \* ObserverSubject::observers
    owner, lockCount,                \* fields of Mutex
    available,                       \* Semaphore::available_count
    signalled,                       \* Event::signalled
    timerAt, period,                 \* fields of Timer
    readyQueue, waitingQueue,        \* fields of OS
    open,                            \* the objects in the handle table
    listed,                          \* Process::threads
    exited,                          \* the threads whose coroutine has ended
    running,                         \* next_thread of the dispatcher
    todo,                            \* the rest of the dispatcher iteration
    fault                            \* the failed assertion or exception

threadVars == <<status, waitList, waitForAll, timeoutAt, result>>
objectVars == <<owner, lockCount, available, signalled, timerAt, period>>
queueVars  == <<readyQueue, waitingQueue>>
vars == <<threadVars, observers, objectVars, queueVars, open, listed, exited,
          running, todo, fault>>

(* How often x is in the list s. *)
Occurrences(s, x) == Cardinality({i \in DOMAIN s : s[i] = x})

-----------------------------------------------------------------------------
(* The pending work.  obj is the object or thread concerned, at is a loop  *)
(* index or a duration.                                                    *)

Ops == {"notify", "try", "drop", "wakeFront", "wakeBack", "elapse", "timers",
        "interrupt", "expire", "rotate", "exitMutexes", "exit", "leave"}
Task(op, obj, at) == [op |-> op, obj |-> obj, at |-> at]

(* OS::Reschedule: 500 ns elapse, then the queue is rotated. *)
Reschedule(t) == << Task("elapse", None, 1), Task("rotate", t, 0) >>

Doing(op)  == fault = "none" /\ todo # <<>> /\ Head(todo).op = op
Obj        == Head(todo).obj
At         == Head(todo).at
Done       == todo' = Tail(todo)
Before(ts) == todo' = ts \o todo        \* make these calls, then go on
Then(ts)   == todo' = ts \o Tail(todo)  \* this is done, make these calls
Fail(what) == /\ fault' = what
              /\ UNCHANGED <<threadVars, observers, objectVars, queueVars,
                             open, listed, exited, running, todo>>

(* A Thread object lives while its process lists it or a handle names it;  *)
(* the dispatcher's own reference keeps the running thread alive.          *)
Alive(t) == t \in listed \cup open \cup {running}

-----------------------------------------------------------------------------
(* The synchronisation objects.                                            *)

(* TryAcquireImpl of Mutex, Semaphore, Event, Timer and Thread: whether    *)
(* thread t acquires object o ...                                          *)
CanAcquire(t, o) ==
    \/ o \in Mutex /\ (lockCount[o] = 0 \/ owner[o] = t)
    \/ o \in Semaphore /\ available[o] > 0
    \/ o \in Event /\ signalled[o]
    \/ o \in Timer /\ timerAt[o] = 0
    \/ o \in Thread /\ status[o] = "Stopped"

(* ... Mutex::TryAcquireImpl throws on a lock held by a destroyed thread   *)
OwnerDestroyed(o) == o \in Mutex /\ lockCount[o] > 0 /\ ~Alive(owner[o])

(* ... and what acquiring it changes.                                      *)
Acquire(t, o) ==
    /\ owner'     = IF o \in Mutex THEN [owner EXCEPT ![o] = t] ELSE owner
    /\ lockCount' = IF o \in Mutex THEN [lockCount EXCEPT ![o] = @ + 1]
                                   ELSE lockCount
    /\ available' = IF o \in Semaphore THEN [available EXCEPT ![o] = @ - 1]
                                       ELSE available
    /\ signalled' = IF o \in Event /\ ResetType[o] = "OneShot"
                    THEN [signalled EXCEPT ![o] = FALSE] ELSE signalled
    /\ timerAt'   = IF o \in Timer
                    THEN [timerAt EXCEPT ![o] =
                            CASE ResetType[o] = "OneShot" -> Never
                              [] ResetType[o] = "Sticky"  -> @
                              [] ResetType[o] = "Pulse"   -> period[o]]
                    ELSE timerAt
    /\ UNCHANGED period

(* Mutex::Release: unlocked when the owner has released all its locks. *)
Release(m) ==
    /\ lockCount' = [lockCount EXCEPT ![m] = @ - 1]
    /\ owner' = IF lockCount[m] = 1 THEN [owner EXCEPT ![m] = None] ELSE owner
    /\ UNCHANGED <<available, signalled, timerAt, period>>

(* Wrong variants: Unregister forgets the thread, or removes too much. *)
UnregisterNothing(o, t) == observers
UnregisterAll(o, t) == [observers EXCEPT ![o] = Remove(@, t)]

(* ObserverSubject::Unregister removes the first entry of the thread. *)
Unregister(o, t) == [observers EXCEPT ![o] = RemoveFirst(@, t)]

(* Wrong variant: the difference of two times is used unchecked. *)
ElapsedPastDue(left, d) == IF left = Never THEN Never ELSE left - d

(* What is left of a timeout after d units. *)
Elapsed(left, d) == IF left = Never THEN Never
                    ELSE IF left > d THEN left - d ELSE 0

-----------------------------------------------------------------------------
(* OS::OnResourceReady: one iteration of its loop over the observers.  The *)
(* thread at the front acquires the resource (ObserverSubject::TryAcquire, *)
(* which unregisters it) and is told (Thread::OnResourceAcquired), until   *)
(* an acquisition fails.                                                   *)
NotifyDone(o) ==
    \/ observers[o] = <<>>
    \/ /\ observers[o] # <<>>
       /\ status[Head(observers[o])] = "Sleeping"
       /\ ~OwnerDestroyed(o)
       /\ ~CanAcquire(Head(observers[o]), o)

NotifyStop ==
    /\ Doing("notify") /\ NotifyDone(Obj) /\ Done
    /\ UNCHANGED <<threadVars, observers, objectVars, queueVars, open,
                   listed, exited, running, fault>>

NotifyNext ==
    /\ Doing("notify") /\ ~NotifyDone(Obj)
    /\ LET o == Obj
           t == Head(observers[o])
           left == RemoveFirst(waitList[t], o)
       IN  /\ fault' = IF status[t] # "Sleeping" THEN "observer not sleeping"
                       ELSE IF OwnerDestroyed(o) THEN "mutex owner destroyed"
                       ELSE IF ~Contains(waitList[t], o) THEN "resource not waited for"
                       ELSE fault
           /\ Acquire(t, o)
           /\ observers' = Unregister(o, t)
           /\ waitList' = [waitList EXCEPT ![t] = left]
           /\ \/ ~waitForAll[t] /\ Before(<<Task("drop", t, 0),
                                            Task("wakeFront", t, 0)>>)
              \/ waitForAll[t] /\ left = <<>>
                               /\ Before(<<Task("wakeFront", t, 0)>>)
              \/ waitForAll[t] /\ left # <<>> /\ UNCHANGED todo
    /\ UNCHANGED <<status, waitForAll, timeoutAt, result, queueVars, open,
                   listed, exited, running>>

(* "for (sync_object : wait_list) sync_object->Unregister(thread);         *)
(*  wait_list.clear();", one Unregister per step.                          *)
Drop ==
    /\ Doing("drop")
    /\ LET t == Obj
       IN  \/ /\ waitList[t] = <<>> /\ Done
              /\ UNCHANGED <<waitList, observers, fault>>
           \/ /\ waitList[t] # <<>>
              /\ fault' = IF Contains(observers[Head(waitList[t])], t) THEN fault
                          ELSE "observer not registered"
              /\ observers' = Unregister(Head(waitList[t]), t)
              /\ waitList' = [waitList EXCEPT ![t] = Tail(@)]
              /\ UNCHANGED todo
    /\ UNCHANGED <<status, waitForAll, timeoutAt, result, objectVars,
                   queueVars, open, listed, exited, running>>

(* The thread becomes Ready: OnResourceAcquired puts it at the front of    *)
(* the queue, an expired timeout at the back.                              *)
Wake ==
    /\ \/ /\ Doing("wakeFront")
          /\ readyQueue' = <<Obj>> \o readyQueue
       \/ /\ Doing("wakeBack")
          /\ readyQueue' = Append(readyQueue, Obj)
    /\ status' = [status EXCEPT ![Obj] = "Ready"]
    /\ Done
    /\ UNCHANGED <<waitList, waitForAll, timeoutAt, result, observers,
                   objectVars, waitingQueue, open, listed, exited, running, fault>>

-----------------------------------------------------------------------------
(* OS::ElapseTime: time advances, expired timers wake their observers, a   *)
(* vertical blank may have begun (the frame rate is not modelled: it may   *)
(* begin whenever time advances), and timeouts that are due wake theirs.   *)
Elapse ==
    /\ Doing("elapse")
    /\ timerAt'   = [k \in Timer |-> Elapsed(timerAt[k], At)]
    /\ timeoutAt' = [t \in Thread |-> Elapsed(timeoutAt[t], At)]
    /\ \E vblank \in {FALSE} \cup {b \in BOOLEAN : b /\ At > 0 /\ VBlankSeq # <<>>} :
         Then(IF vblank
              THEN <<Task("timers", None, 1), Task("interrupt", None, 1), Task("expire", None, 1)>>
              ELSE <<Task("timers", None, 1), Task("expire", None, 1)>>)
    /\ UNCHANGED <<status, waitList, waitForAll, result, observers, owner,
                   lockCount, available, signalled, period, queueVars, open,
                   listed, exited, running, fault>>

Timers ==
    /\ Doing("timers")
    /\ \/ At > Len(TimerSeq) /\ Done
       \/ /\ At <= Len(TimerSeq)
          /\ Then((IF timerAt[TimerSeq[At]] = 0
                   THEN <<Task("notify", TimerSeq[At], 0)>> ELSE <<>>)
                  \o <<Task("timers", None, At + 1)>>)
    /\ UNCHANGED <<threadVars, observers, objectVars, queueVars, open,
                   listed, exited, running, fault>>

(* OS::NotifyInterrupt, for the events bound to the interrupt. *)
Interrupt ==
    /\ Doing("interrupt")
    /\ \/ At > Len(VBlankSeq) /\ Done /\ UNCHANGED signalled
       \/ /\ At <= Len(VBlankSeq)
          /\ signalled' = [signalled EXCEPT ![VBlankSeq[At]] = TRUE]
          /\ Then(<<Task("notify", VBlankSeq[At], 0),
                    Task("interrupt", None, At + 1)>>)
    /\ UNCHANGED <<threadVars, observers, owner, lockCount, available,
                   timerAt, period, queueVars, open, listed, exited, running, fault>>

(* Wrong variant: the thread stays registered with what it waited for. *)
OnTimeoutKeepWaiting(t) == <<Task("wakeBack", t, 0)>>

OnTimeout(t) == (IF status[t] = "Sleeping" THEN <<Task("drop", t, 0)>> ELSE <<>>)
                \o <<Task("wakeBack", t, 0)>>

(* The loop over waiting_queue.  Whatever the state of a thread whose      *)
(* timeout is due, it becomes Ready; one that sleeps stops waiting.        *)
Expire ==
    /\ Doing("expire")
    /\ \/ /\ At > Len(waitingQueue) /\ Done
          /\ UNCHANGED <<waitingQueue, result>>
       \/ /\ At <= Len(waitingQueue) /\ ~Alive(waitingQueue[At])
          /\ waitingQueue' = RemoveAt(waitingQueue, At)
          /\ UNCHANGED <<todo, result>>
       \/ /\ At <= Len(waitingQueue) /\ Alive(waitingQueue[At])
          /\ timeoutAt[waitingQueue[At]] = 0
          /\ LET t == waitingQueue[At]
             IN  /\ result' = IF status[t] = "Sleeping"
                              THEN [result EXCEPT ![t] = "timeout"] ELSE result
                 /\ Before(OnTimeout(t))
          /\ waitingQueue' = RemoveAt(waitingQueue, At)
       \/ /\ At <= Len(waitingQueue) /\ Alive(waitingQueue[At])
          /\ timeoutAt[waitingQueue[At]] # 0
          /\ Then(<<Task("expire", None, At + 1)>>)
          /\ UNCHANGED <<waitingQueue, result>>
    /\ UNCHANGED <<status, waitList, waitForAll, timeoutAt, observers,
                   objectVars, readyQueue, open, listed, exited, running, fault>>

(* Wrong variant: the front thread is dropped instead of moved. *)
RotatedAway(queue) == IF queue = <<>> THEN <<>> ELSE Tail(queue)

Rotated(queue) == IF queue = <<>> THEN <<>>
                  ELSE Append(Tail(queue), Head(queue))

(* The rest of OS::Reschedule: "Move thread to the end of the queue" moves *)
(* the front element, whichever it is.                                     *)
Rotate ==
    /\ Doing("rotate")
    /\ readyQueue' = Rotated(readyQueue)
    /\ Done
    /\ UNCHANGED <<threadVars, observers, objectVars, waitingQueue, open,
                   listed, exited, running, fault>>

-----------------------------------------------------------------------------
(* OS::EnterExecutionLoop.                                                 *)

(* Without a thread to run, time elapses. *)
Idle ==
    /\ fault = "none" /\ running = None /\ todo = <<>> /\ readyQueue = <<>>
    /\ todo' = <<Task("elapse", None, IdleTicks)>>
    /\ UNCHANGED <<threadVars, observers, objectVars, queueVars, open,
                   listed, exited, running, fault>>

(* The front thread runs up to its next system call, which may take long   *)
(* enough for time to advance (d = 1) before the call is performed.  An    *)
(* expired reference, a thread that waits and one that has ended already   *)
(* are errors; a thread that is not Ready leaves the queue instead.        *)
Dispatch(d) ==
    /\ fault = "none" /\ running = None /\ todo = <<>> /\ readyQueue # <<>>
    /\ LET t == Head(readyQueue)
           ready == status[t] = "Ready"
       IN  /\ fault' = IF ~Alive(t) THEN "expired thread in ready queue"
                       ELSE IF waitList[t] # <<>> THEN "waiting thread in ready queue"
                       ELSE IF ready /\ t \in exited THEN "ended thread resumed"
                       ELSE fault
           /\ running' = IF ready THEN t ELSE None
           /\ todo' = IF ready THEN <<Task("elapse", None, d)>> ELSE <<>>
           /\ readyQueue' = IF ready THEN readyQueue ELSE Tail(readyQueue)
    /\ UNCHANGED <<threadVars, observers, objectVars, waitingQueue, open,
                   listed, exited>>

(* After the system call; OS::TriggerThreadDestruction if it ended the     *)
(* thread.                                                                 *)
Leave ==
    /\ Doing("leave")
    /\ listed' = IF status[Obj] = "Stopped" THEN listed \ {Obj} ELSE listed
    /\ running' = None
    /\ Done
    /\ UNCHANGED <<threadVars, observers, objectVars, queueVars, open,
                   exited, fault>>

-----------------------------------------------------------------------------
(* The system calls of the running thread t.                               *)

InSVC(t) == fault = "none" /\ running = t /\ todo = <<>>
Return(t, tasks) == todo' = tasks \o <<Task("leave", t, 0)>>

SVCCreateThread(t) ==
    /\ InSVC(t)
    /\ \E new \in {u \in Thread : status[u] = "Uncreated"} :
         /\ status' = [status EXCEPT ![new] = "Ready"]
         /\ readyQueue' = Append(readyQueue, new)
         /\ listed' = listed \cup {new}
         /\ open' = open \cup {new}
    /\ Return(t, Reschedule(t))
    /\ UNCHANGED <<waitList, waitForAll, timeoutAt, result, observers,
                   objectVars, waitingQueue, exited, running, fault>>

(* Wrong variant: the thread keeps its mutexes. *)
SVCExitThreadKeepMutexes(t) ==
    /\ InSVC(t) /\ t \in CanExit
    /\ Return(t, <<Task("drop", t, 0), Task("exit", t, 0),
                   Task("notify", t, 0)>> \o Reschedule(t))
    /\ UNCHANGED <<threadVars, observers, objectVars, queueVars, open,
                   listed, exited, running, fault>>

(* SVCExitThread: OS::ExitThread, then Reschedule. *)
SVCExitThread(t) ==
    /\ InSVC(t) /\ t \in CanExit
    /\ Return(t, <<Task("exitMutexes", t, 1), Task("drop", t, 0),
                   Task("exit", t, 0), Task("notify", t, 0)>> \o Reschedule(t))
    /\ UNCHANGED <<threadVars, observers, objectVars, queueVars, open,
                   listed, exited, running, fault>>

(* The owned mutexes in the handle table are released, once each. *)
ExitMutexes ==
    /\ Doing("exitMutexes")
    /\ \/ /\ At > Len(MutexSeq) /\ Done
          /\ UNCHANGED <<objectVars, fault>>
       \/ /\ At <= Len(MutexSeq)
          /\ LET m == MutexSeq[At]
                 owned == m \in open /\ lockCount[m] > 0 /\ owner[m] = Obj
             IN  \/ /\ ~owned /\ Then(<<Task("exitMutexes", Obj, At + 1)>>)
                    /\ UNCHANGED <<objectVars, fault>>
                 \/ /\ owned /\ lockCount[m] > 1
                    /\ fault' = "recursive mutex release on thread exit"
                    /\ UNCHANGED <<objectVars, todo>>
                 \/ /\ owned /\ lockCount[m] = 1
                    /\ Release(m)
                    /\ Then(<<Task("notify", m, 0),
                              Task("exitMutexes", Obj, At + 1)>>)
                    /\ UNCHANGED fault
    /\ UNCHANGED <<threadVars, observers, queueVars, open, listed, exited,
                   running>>

ExitThread ==
    /\ Doing("exit")
    /\ status' = [status EXCEPT ![Obj] = "Stopped"]
    /\ exited' = exited \cup {Obj}
    /\ readyQueue' = Erased(readyQueue, Obj)
    /\ Done
    /\ UNCHANGED <<waitList, waitForAll, timeoutAt, result, observers,
                   objectVars, waitingQueue, open, listed, running, fault>>

(* Wrong variant: the thread yields, but stays ready to run. *)
SVCSleepThreadYield(t) ==
    /\ InSVC(t) /\ Len(waitingQueue) < MaxWaiting
    /\ \E d \in SleepTimes : timeoutAt' = [timeoutAt EXCEPT ![t] = d]
    /\ waitingQueue' = Append(waitingQueue, t)
    /\ Return(t, <<>>)
    /\ UNCHANGED <<status, waitList, waitForAll, result, observers, objectVars,
                   readyQueue, open, listed, exited, running, fault>>

SVCSleepThread(t) ==
    /\ InSVC(t) /\ Len(waitingQueue) < MaxWaiting
    /\ \E d \in SleepTimes : timeoutAt' = [timeoutAt EXCEPT ![t] = d]
    /\ status' = [status EXCEPT ![t] = "WaitingForTimeout"]
    /\ readyQueue' = Erased(readyQueue, t)
    /\ waitingQueue' = Append(waitingQueue, t)
    /\ Return(t, <<>>)
    /\ UNCHANGED <<waitList, waitForAll, result, observers, objectVars, open,
                   listed, exited, running, fault>>

(* SVCWaitSynchronizationN (and SVCWaitSynchronization): register with all *)
(* objects, then try to acquire each of them.                              *)
SVCWaitSynchronizationN(t) ==
    /\ InSVC(t)
    /\ \E objects \in {r \in Requests : Range(r) \subseteq open},
         all \in WaitModes, timeout \in Timeouts :
         /\ timeout # Never => Len(waitingQueue) < MaxWaiting
         /\ \A m \in Range(objects) \cap Mutex : lockCount[m] < MaxLock
         /\ timeoutAt' = [timeoutAt EXCEPT ![t] = timeout]
         /\ result' = [result EXCEPT ![t] = "ok"]
         /\ waitForAll' = [waitForAll EXCEPT ![t] = all]
         /\ fault' = IF waitList[t] = <<>> THEN fault ELSE "wait list not empty"
         /\ waitList' = [waitList EXCEPT ![t] = objects]
         /\ observers' = [o \in Object |->
                observers[o] \o [i \in 1..Occurrences(objects, o) |-> t]]
    /\ Return(t, <<Task("try", t, 1)>>)
    /\ UNCHANGED <<status, objectVars, queueVars, open, listed, exited, running>>

(* One iteration of the loop over wait_list that tries to acquire. *)
Try ==
    /\ Doing("try") /\ At <= Len(waitList[Obj])
    /\ LET t == Obj
           o == waitList[t][At]
       IN  /\ fault' = IF OwnerDestroyed(o) THEN "mutex owner destroyed" ELSE fault
           /\ \/ /\ ~CanAcquire(t, o)
                 /\ Then(<<Task("try", t, At + 1)>>)
                 /\ UNCHANGED <<waitList, observers, objectVars>>
              \/ /\ CanAcquire(t, o)
                 /\ Acquire(t, o)
                 /\ observers' = Unregister(o, t)
                 /\ waitList' = [waitList EXCEPT ![t] = RemoveAt(@, At)]
                 /\ IF waitForAll[t] THEN UNCHANGED todo
                                     ELSE Then(<<Task("drop", t, 0)>>)
    /\ UNCHANGED <<status, waitForAll, timeoutAt, result, queueVars, open,
                   listed, exited, running>>

(* Wrong variant: the timeout is not respected. *)
AwaitForever(t) == waitingQueue

Await(t) == IF timeoutAt[t] = Never THEN waitingQueue
            ELSE Append(waitingQueue, t)

(* After the loop: sleep if there is something left to wait for. *)
TryDone ==
    /\ Doing("try") /\ At > Len(waitList[Obj])
    /\ \/ /\ waitList[Obj] = <<>> /\ Done
          /\ UNCHANGED <<status, queueVars>>
       \/ /\ waitList[Obj] # <<>>
          /\ status' = [status EXCEPT ![Obj] = "Sleeping"]
          /\ readyQueue' = Erased(readyQueue, Obj)
          /\ waitingQueue' = Await(Obj)
          /\ Then(Reschedule(Obj))
    /\ UNCHANGED <<waitList, waitForAll, timeoutAt, result, observers,
                   objectVars, open, listed, exited, running, fault>>

(* Wrong variant: the observers of the mutex are not told. *)
OnReleaseQuiet(m) == <<>>

OnRelease(m) == IF lockCount[m] = 1 THEN <<Task("notify", m, 0)>> ELSE <<>>

SVCReleaseMutex(t) ==
    /\ InSVC(t)
    /\ \E m \in Mutex \cap open :
         \/ /\ ~(lockCount[m] > 0 /\ owner[m] = t)
            /\ Fail("mutex not owned by the current thread")
         \/ /\ lockCount[m] > 0 /\ owner[m] = t
            /\ Release(m)
            /\ Return(t, OnRelease(m) \o Reschedule(t))
            /\ UNCHANGED <<threadVars, observers, queueVars, open, listed,
                           exited, running, fault>>

(* Wrong variant: the observers of the semaphore are not told. *)
SVCReleaseSemaphoreQuiet(t) ==
    /\ InSVC(t)
    /\ \E x \in Semaphore \cap open, times \in 0..MaxAvailable :
         available' = IF available[x] > MaxAvailable - times THEN available
                      ELSE [available EXCEPT ![x] = @ + times]
    /\ Return(t, Reschedule(t))
    /\ UNCHANGED <<threadVars, observers, owner, lockCount, signalled, timerAt,
                   period, queueVars, open, listed, exited, running, fault>>

SVCReleaseSemaphore(t) ==
    /\ InSVC(t)
    /\ \E s \in Semaphore \cap open, times \in 0..MaxAvailable :
         /\ available' = IF available[s] > MaxAvailable - times THEN available
                         ELSE [available EXCEPT ![s] = @ + times]
         /\ Return(t, <<Task("notify", s, 0)>> \o Reschedule(t))
    /\ UNCHANGED <<threadVars, observers, owner, lockCount, signalled, timerAt,
                   period, queueVars, open, listed, exited, running, fault>>

(* Wrong variant: the observers of the event are not told. *)
SVCSignalEventQuiet(t) ==
    /\ InSVC(t)
    /\ \E x \in Event \cap open : signalled' = [signalled EXCEPT ![x] = TRUE]
    /\ Return(t, Reschedule(t))
    /\ UNCHANGED <<threadVars, observers, owner, lockCount, available, timerAt,
                   period, queueVars, open, listed, exited, running, fault>>

SVCSignalEvent(t) ==
    /\ InSVC(t)
    /\ \E e \in Event \cap open :
         /\ signalled' = [signalled EXCEPT ![e] = TRUE]
         /\ Return(t, <<Task("notify", e, 0)>> \o Reschedule(t))
    /\ UNCHANGED <<threadVars, observers, owner, lockCount, available, timerAt,
                   period, queueVars, open, listed, exited, running, fault>>

SVCClearEvent(t) ==
    /\ InSVC(t)
    /\ \E e \in Event \cap open : signalled' = [signalled EXCEPT ![e] = FALSE]
    /\ Return(t, Reschedule(t))
    /\ UNCHANGED <<threadVars, observers, owner, lockCount, available, timerAt,
                   period, queueVars, open, listed, exited, running, fault>>

SVCSetTimer(t) ==
    /\ InSVC(t)
    /\ \E k \in Timer \cap open, initial, again \in SleepTimes :
         /\ timerAt' = [timerAt EXCEPT ![k] = initial]
         /\ period' = [period EXCEPT ![k] = again]
         /\ Return(t, (IF initial = 0 THEN <<Task("notify", k, 0)>> ELSE <<>>)
                      \o Reschedule(t))
    /\ UNCHANGED <<threadVars, observers, owner, lockCount, available,
                   signalled, queueVars, open, listed, exited, running, fault>>

(* SVCCloseHandle: closing a handle to a mutex releases one of the locks   *)
(* that the caller holds on it.                                            *)
SVCCloseHandle(t) ==
    /\ InSVC(t)
    /\ \E o \in Closable \cap open :
         /\ open' = open \ {o}
         /\ IF o \in Mutex /\ lockCount[o] > 0 /\ owner[o] = t
            THEN Release(o) /\ Return(t, <<Task("notify", o, 0)>> \o Reschedule(t))
            ELSE UNCHANGED objectVars /\ Return(t, Reschedule(t))
    /\ UNCHANGED <<threadVars, observers, queueVars, listed, exited, running,
                   fault>>

(* The one call that advances the time without an ElapseTime. *)
SVCGetSystemTick(t) ==
    /\ InSVC(t)
    /\ timerAt'   = [k \in Timer |-> Elapsed(timerAt[k], SystemTicks)]
    /\ timeoutAt' = [u \in Thread |-> Elapsed(timeoutAt[u], SystemTicks)]
    /\ Return(t, <<>>)
    /\ UNCHANGED <<status, waitList, waitForAll, result, observers, owner,
                   lockCount, available, signalled, period, queueVars, open,
                   listed, exited, running, fault>>

-----------------------------------------------------------------------------
Init ==
    /\ status = [t \in Thread |-> IF t \in Range(Main) THEN "Ready" ELSE "Uncreated"]
    /\ waitList = [t \in Thread |-> <<>>]
    /\ waitForAll = [t \in Thread |-> FALSE]
    /\ timeoutAt = [t \in Thread |-> Never]
    /\ result = [t \in Thread |-> "ok"]
    /\ observers = [o \in Object |-> <<>>]
    /\ owner = [m \in Mutex |-> None]
    /\ lockCount = [m \in Mutex |-> 0]
    /\ available = [s \in Semaphore |-> 0]
    /\ signalled = [e \in Event |-> FALSE]
    /\ timerAt = [k \in Timer |-> Never]
    /\ period = [k \in Timer |-> 0]
    /\ readyQueue = Main
    /\ waitingQueue = <<>>
    /\ open = (Object \ Thread) \cup Range(Main)
    /\ listed = Range(Main)
    /\ exited = {}
    /\ running = None
    /\ todo = <<>>
    /\ fault = "none"

(* What the dispatcher does by itself ... *)
KernelStep ==
    \/ NotifyStop \/ NotifyNext \/ Drop \/ Wake
    \/ Elapse \/ Timers \/ Interrupt \/ Expire \/ Rotate
    \/ Try \/ TryDone \/ ExitMutexes \/ ExitThread \/ Leave
    \/ Idle

(* ... and the system calls that the programs choose. *)
SystemCall(t) ==
    \/ SVCCreateThread(t) \/ SVCExitThread(t) \/ SVCSleepThread(t)
    \/ SVCWaitSynchronizationN(t) \/ SVCReleaseMutex(t)
    \/ SVCReleaseSemaphore(t) \/ SVCSignalEvent(t) \/ SVCClearEvent(t)
    \/ SVCSetTimer(t) \/ SVCCloseHandle(t) \/ SVCGetSystemTick(t)

(* An exception or a failed assertion ends the emulation. *)
Halted == fault # "none" /\ UNCHANGED vars

Next ==
    \/ KernelStep
    \/ \E d \in {0, 1} : Dispatch(d)
    \/ \E t \in Thread : SystemCall(t)
    \/ Halted

Spec == Init /\ [][Next]_vars

-----------------------------------------------------------------------------
(* Properties.                                                             *)

Status == {"Uncreated", "Ready", "Sleeping", "WaitingForTimeout", "Stopped"}

(* The assertions and internal preconditions of the scheduler, and what a   *)
(* program can bring about.                                                *)
Bookkeeping == {"observer not sleeping", "resource not waited for",
                "observer not registered", "wait list not empty",
                "waiting thread in ready queue"}
Assertions == Bookkeeping \cup {"mutex owner destroyed", "expired thread in ready queue",
                                "ended thread resumed"}
Errors == {"mutex not owned by the current thread", "recursive mutex release on thread exit"}

(* Type correctness: every field of the thread, object and scheduler state *)
(* has the type that os.hpp declares for it.                               *)
TypeOK ==
    /\ status \in [Thread -> Status]
    /\ waitList \in [Thread -> Seq(Object)]
    /\ waitForAll \in [Thread -> BOOLEAN]
    /\ timeoutAt \in [Thread -> Nat \cup {Never}]
    /\ result \in [Thread -> {"ok", "timeout"}]
    /\ observers \in [Object -> Seq(Thread)]
    /\ owner \in [Mutex -> Thread \cup {None}]
    /\ lockCount \in [Mutex -> Nat]
    /\ available \in [Semaphore -> 0..MaxAvailable]
    /\ signalled \in [Event -> BOOLEAN]
    /\ timerAt \in [Timer -> Nat \cup {Never}]
    /\ period \in [Timer -> Nat]
    /\ readyQueue \in Seq(Thread) /\ waitingQueue \in Seq(Thread)
    /\ open \subseteq Object /\ listed \subseteq Thread /\ exited \subseteq Thread
    /\ running \in Thread \cup {None}
    /\ todo \in Seq([op : Ops, obj : Object \cup {None}, at : Nat])
    /\ fault \in {"none"} \cup Assertions \cup Errors

(* None of the assertions and internal preconditions that guard the        *)
(* scheduler's bookkeeping fails, whatever the programs do: an observer    *)
(* is always a sleeping thread (OnResourceReady), it waits for what it     *)
(* observes (OnResourceAcquired, Unregister), a wait starts with an empty  *)
(* wait list, and the dispatcher finds no waiting, expired or ended thread *)
(* in the ready queue.                                                     *)
AssertionsHold ==
    fault \notin Assertions

(* A thread is registered with an object exactly as often as the object is *)
(* in its wait list, although waits, acquisitions, timeouts and exits each *)
(* update the two lists on their own.                                      *)
RegistrationConsistent ==
    \A t \in Thread, o \in Object :
        Occurrences(observers[o], t) = Occurrences(waitList[t], o)

(* Between two dispatcher iterations a thread sleeps if and only if there  *)
(* is something left for it to wait for: no wake-up leaves a stale entry   *)
(* in a wait list and no sleeping thread is beyond all wake-ups.           *)
SleepersWait ==
    (todo = <<>> /\ fault = "none") =>
        \A t \in Thread : status[t] = "Sleeping" <=> waitList[t] # <<>>

(* The ready queue holds exactly the threads that are ready to run: the    *)
(* dispatcher can reach all of them, and it need not skip any other.       *)
ReadyQueued ==
    (todo = <<>> /\ fault = "none") =>
        \A t \in Thread : status[t] = "Ready" <=> Contains(readyQueue, t)

(* The four lists that waits, acquisitions, timeouts, exits and the        *)
(* dispatcher each update on their own (observers, wait_list, ready_queue  *)
(* and the status of the threads) agree.                                   *)
ListsConsistent == RegistrationConsistent /\ SleepersWait /\ ReadyQueued

(* No lost wake-up: between two dispatcher iterations no thread sleeps on  *)
(* an object that it could acquire.  Timers are left out: SVCGetSystemTick *)
(* lets them expire without telling anyone before the next ElapseTime.     *)
NoLostWakeup ==
    (todo = <<>> /\ fault = "none") =>
        \A o \in Object \ Timer : \A t \in Range(observers[o]) : ~CanAcquire(t, o)

(* A locked mutex has an owner that can still release it: exiting threads  *)
(* give up the mutexes in the handle table (OS::ExitThread).               *)
MutexOwnerLives ==
    (todo = <<>> /\ fault = "none") =>
        \A m \in Mutex \cap open :
            /\ lockCount[m] > 0 <=> owner[m] # None
            /\ lockCount[m] > 0 => owner[m] \notin exited

(* A thread that has exited stays that way until it is destroyed: "Stopped,*)
(* // thread exited and is waiting for its destruction" (Thread::Status).  *)
StoppedIsFinal ==
    [][\A t \in Thread : status[t] = "Stopped" => status'[t] = "Stopped"]_vars

(* The dispatcher never stops taking steps, and emulated code uses up      *)
(* cycles: among infinitely many system calls there are infinitely many    *)
(* before which the time advances.                                         *)
Fairness ==
    /\ WF_vars(KernelStep)
    /\ WF_vars(\E d \in {0, 1} : Dispatch(d))
    /\ WF_vars(\E t \in Thread : SystemCall(t))
    /\ SF_vars(Dispatch(1))
FairSpec == Spec /\ Fairness

(* A wait with a timeout and a SVCSleepThread come to an end.              *)
TimeoutsEnd ==
    \A t \in Thread :
        /\ (status[t] = "Sleeping" /\ timeoutAt[t] # Never)
              ~> (status[t] # "Sleeping" \/ fault # "none")
        /\ (status[t] = "WaitingForTimeout")
              ~> (status[t] # "WaitingForTimeout" \/ fault # "none")
=============================================================================
