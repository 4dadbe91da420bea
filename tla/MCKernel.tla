------------------------------ MODULE MCKernel ------------------------------
(* Instances of Kernel for TLC. *)
EXTENDS Kernel, TLC

CONSTANTS t1, t2, t3, mtx, sem, evt, tmr

NoSeq == <<>>
Main2 == <<t1, t2>>
Main3 == <<t1, t2, t3>>
SeqM  == <<mtx>>
SeqK  == <<tmr>>
SeqE  == <<evt>>
OneShot == [o \in Event \cup Timer |-> "OneShot"]
PulseTimer == [o \in Event \cup Timer |->
                 IF o \in Timer THEN "Pulse" ELSE "Sticky"]

Untimed == {Never}
Timed   == {Never, 3}
Timed1  == {Never, 1}

\* the same handle twice, a mutex and an event, the exit of a thread
MutexEventRequests == {<<mtx, mtx>>, <<mtx, evt>>, <<t2>>}
\* a mutex, and the exit of each thread
JoinRequests == {<<mtx>>} \cup {<<t>> : t \in Thread}
\* a semaphore, a timer, an interrupt event
TimerRequests == {<<sem>>, <<tmr>>, <<tmr, evt>>}
=============================================================================
