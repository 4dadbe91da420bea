------------------------------ MODULE Debugger ------------------------------
(***************************************************************************)
(* The handshake between the GDB stub, which runs on the network thread,   *)
(* and the interpreter loop on the emulation thread (interpreter.h:        *)
(* ProcessorController; interpreter.cpp: Interpreter::Run; gdb_stub.cpp).  *)
(* The two share three atomic flags and spin on them; every access to one  *)
(* is a step of its own.  Assertions are taken as in a release build: they *)
(* are recorded in failed and do not stop the program.                     *)
(***************************************************************************)
EXTENDS Naturals, FiniteSets

CONSTANTS Debuggee,         \* threads of the process the debugger attaches to
          Others,           \* threads of other processes
          Breakpoints,      \* whether the debuggee runs into breakpoints
          AttachOnStartup   \* whether Settings::AttachToProcessOnStartup names the debuggee:
                            \* a set of the values to consider

VARIABLES request_pause, paused, request_continue,
          thread_to_pause,  \* the threads ShouldPause matches
          core_running,     \* the stub's idea of the core
          debugged,         \* threads with debugger_attached set
          cur,              \* the thread the core runs
          core, stub,       \* program counters
          target,           \* the threads a vCont;s names
          gdb,              \* what GDB knows: "detached", "running" or "stopped"
          offer,            \* the AttachInfo: "none", "offered", "taken"
          lost,             \* a notification met no waiter
          failed            \* assertions that have failed

flags == <<request_pause, paused, request_continue>>
vars == <<flags, thread_to_pause, core_running, debugged, cur, core, stub, target, gdb,
          offer, lost, failed>>

Threads == Debuggee \union Others
Assert(label, p) == failed' = IF p THEN failed ELSE failed \union {label}

Init ==
  /\ request_pause = FALSE /\ paused = FALSE /\ request_continue = FALSE
  /\ thread_to_pause = Threads /\ core_running = FALSE /\ debugged = {}
  /\ \/ TRUE \in AttachOnStartup /\ cur \in Others /\ core = "svcrun"
     \/ FALSE \in AttachOnStartup /\ cur \in Threads /\ core = "run"
  /\ stub = "idle" /\ target = {} /\ gdb = "detached"
  /\ offer = "none" /\ lost = FALSE /\ failed = {}

(***************************************************************************)
(* The interpreter loop.                                                   *)
(***************************************************************************)
stubSide == <<request_pause, request_continue, thread_to_pause, core_running, debugged,
              stub, target, gdb, lost, failed>>
Core(from, to) == core = from /\ core' = to /\ UNCHANGED stubSide

\* a slice without a debugger, then TriggerPreemption
RunSlice(next) ==
  /\ Core("run", "run") /\ cur \notin debugged
  /\ cur' = next
  /\ UNCHANGED <<paused, offer>>

\* a breakpoint pauses the core by itself
RunIteration ==
  /\ Core("run", "should") /\ cur \in debugged
  /\ \/ UNCHANGED paused
     \/ Breakpoints /\ paused' = TRUE
  /\ UNCHANGED <<cur, offer>>

ShouldPause ==       \* the thread to pause is read after the flag
  \/ /\ Core("should", IF request_pause THEN "match" ELSE "check")
     /\ UNCHANGED <<paused, cur, offer>>
  \/ /\ Core("match", IF cur \in thread_to_pause THEN "pause" ELSE "check")
     /\ UNCHANGED <<paused, cur, offer>>

Pause == Core("pause", "ack") /\ paused' = TRUE /\ UNCHANGED <<cur, offer>>
Acknowledged == ~request_pause /\ Core("ack", "check") /\ UNCHANGED <<paused, cur, offer>>

Check == Core("check", IF paused THEN "held" ELSE "step") /\ UNCHANGED <<paused, cur, offer>>
Held == request_continue /\ Core("held", "unpause") /\ UNCHANGED <<paused, cur, offer>>
Unpause == Core("unpause", "noticed") /\ paused' = FALSE /\ UNCHANGED <<cur, offer>>
NoticedAtOnce == Core("noticed", "step") /\ UNCHANGED <<paused, cur, offer>>     \* mutant: no wait
Noticed == ~request_continue /\ Core("noticed", "step") /\ UNCHANGED <<paused, cur, offer>>

\* one instruction; a system call or the preemption may give the core away
Step(next) == Core("step", "run") /\ cur' = next /\ UNCHANGED <<paused, offer>>

\* SVCRun with the debugger enabled: the data is set and offered, then the thread
\* waits for a notification
SVCRun == core = "svcrun" /\ offer' = "offered" /\ Core("svcrun", "offer") /\ UNCHANGED <<paused, cur>>
AwaitProcessing == Core("offer", "await") /\ UNCHANGED <<paused, cur, offer>>

(***************************************************************************)
(* The stub.                                                               *)
(***************************************************************************)
coreSide == <<paused, cur, offer>>
Stub(from, to) == stub = from /\ stub' = to /\ UNCHANGED coreSide
Keep == UNCHANGED <<core, lost>>

\* vAttach
Attach ==
  \/ /\ gdb = "detached" /\ core # "svcrun" /\ Stub("idle", "attach1")
     /\ thread_to_pause' = Debuggee /\ gdb' = "running" /\ Keep
     /\ UNCHANGED <<request_pause, request_continue, core_running, debugged, target, failed>>
  \/ /\ Stub("attach1", "attach2") /\ request_pause' = TRUE /\ Keep
     /\ UNCHANGED <<request_continue, thread_to_pause, core_running, debugged, target, gdb, failed>>
  \/ /\ Stub("attach2", "attach3") /\ debugged' = Debuggee /\ Keep
     /\ UNCHANGED <<request_pause, request_continue, thread_to_pause, core_running, target, gdb, failed>>

TryAccess ==     \* consumes the offer and notifies whoever waits at that moment
  /\ stub = "attach3" /\ stub' = "attach4"
  /\ offer' = IF offer = "offered" THEN "taken" ELSE offer
  /\ core' = IF offer = "offered" /\ core = "await" THEN "run" ELSE core
  /\ lost' = (lost \/ (offer = "offered" /\ core # "await"))
  /\ UNCHANGED <<flags, thread_to_pause, core_running, debugged, cur, target, gdb, failed>>

Attached ==
  \/ /\ paused /\ Stub("attach4", "attach5") /\ Keep
     /\ UNCHANGED <<request_pause, request_continue, thread_to_pause, core_running, debugged,
                    target, gdb, failed>>
  \/ /\ Stub("attach5", "idle") /\ request_pause' = FALSE /\ gdb' = "stopped"
     /\ Assert("attach", paused) /\ Keep
     /\ UNCHANGED <<request_continue, thread_to_pause, core_running, debugged, target>>

\* SIGINT, which GDB sends while it takes the program to run.  When core_running is
\* not set the handler throws, and the network thread ends.
Interrupt ==
  /\ gdb = "running" /\ stub = "idle"
  /\ stub' = IF core_running THEN (IF paused THEN "pause5" ELSE "pause1") ELSE "threw"
  /\ UNCHANGED coreSide /\ Keep
  /\ UNCHANGED <<request_pause, request_continue, thread_to_pause, core_running, debugged,
                 target, gdb, failed>>

RequestPause ==
  \/ /\ Stub("pause1", "pause2") /\ thread_to_pause' = Threads
     /\ Assert("RequestPause", ~paused) /\ Keep
     /\ UNCHANGED <<request_pause, request_continue, core_running, debugged, target, gdb>>
  \/ /\ Stub("pause2", "pause3") /\ request_pause' = TRUE /\ Keep
     /\ UNCHANGED <<request_continue, thread_to_pause, core_running, debugged, target, gdb, failed>>
  \/ /\ paused /\ Stub("pause3", "pause4") /\ Keep
     /\ UNCHANGED <<request_pause, request_continue, thread_to_pause, core_running, debugged,
                    target, gdb, failed>>
  \/ /\ Stub("pause4", "pause5") /\ request_pause' = FALSE /\ Keep
     /\ UNCHANGED <<request_continue, thread_to_pause, core_running, debugged, target, gdb, failed>>
  \/ /\ Stub("pause5", "idle") /\ core_running' = FALSE /\ gdb' = "stopped"
     /\ Assert("RequestPause", paused) /\ Keep
     /\ UNCHANGED <<request_pause, request_continue, thread_to_pause, debugged, target>>

KeepRequestContinue(from, to) ==     \* mutant: the request is not taken back
  /\ Stub(from, to) /\ Keep
  /\ UNCHANGED <<request_continue, request_pause, thread_to_pause, core_running, debugged, target,
                 gdb, failed>>
ClearRequestContinue(from, to) ==
  /\ Stub(from, to) /\ request_continue' = FALSE /\ Keep
  /\ UNCHANGED <<request_pause, thread_to_pause, core_running, debugged, target, gdb, failed>>

RequestContinue ==
  \/ /\ gdb = "stopped" /\ Stub("idle", "continue1") /\ gdb' = "running"
     /\ request_continue' = TRUE
     /\ Assert("RequestContinue", paused) /\ Keep
     /\ UNCHANGED <<request_pause, thread_to_pause, core_running, debugged, target>>
  \/ /\ ~paused /\ Stub("continue1", "continue2") /\ Keep
     /\ UNCHANGED <<request_pause, request_continue, thread_to_pause, core_running, debugged,
                    target, gdb, failed>>
  \/ ClearRequestContinue("continue2", "continue3")
  \/ /\ Stub("continue3", "idle") /\ core_running' = TRUE
     /\ Assert("RequestContinue", ~paused) /\ Keep
     /\ UNCHANGED <<request_pause, request_continue, thread_to_pause, debugged, target, gdb>>

\* vCont;s for one thread or for any thread of the process
RequestStep ==
  \/ /\ gdb = "stopped" /\ Stub("idle", "step1") /\ gdb' = "running"
     /\ \E ts \in {{t} : t \in Debuggee} \union {Debuggee} : target' = ts /\ thread_to_pause' = ts
     /\ Assert("RequestStep", paused) /\ Keep
     /\ UNCHANGED <<request_pause, request_continue, core_running, debugged>>
  \/ /\ Stub("step1", "step2") /\ request_pause' = TRUE /\ Keep
     /\ UNCHANGED <<request_continue, thread_to_pause, core_running, debugged, target, gdb, failed>>
  \/ /\ Stub("step2", "step3") /\ request_continue' = TRUE /\ Keep
     /\ UNCHANGED <<request_pause, thread_to_pause, core_running, debugged, target, gdb, failed>>
  \/ /\ ~paused /\ Stub("step3", "step4") /\ Keep
     /\ UNCHANGED <<request_pause, request_continue, thread_to_pause, core_running, debugged,
                    target, gdb, failed>>
  \/ ClearRequestContinue("step4", "step5")
  \/ /\ paused /\ Stub("step5", "step6") /\ Keep
     /\ UNCHANGED <<request_pause, request_continue, thread_to_pause, core_running, debugged,
                    target, gdb, failed>>
  \/ /\ Stub("step6", "step7") /\ request_pause' = FALSE
     /\ Assert("RequestStep", paused) /\ Keep
     /\ UNCHANGED <<request_continue, thread_to_pause, core_running, debugged, target, gdb>>

StepDoneWide ==     \* mutant: the threads named by the step are mistaken for all threads
  /\ Stub("step7", "idle") /\ thread_to_pause' = Threads /\ target' = Threads
  /\ gdb' = IF cur \in target THEN "stopped" ELSE gdb
  /\ Keep /\ UNCHANGED <<request_pause, request_continue, core_running, debugged, failed>>

\* core_running is not set while the program is stopped, so the loop ends after one
\* round; a stop in another thread is not reported
StepDone ==
  /\ Stub("step7", "idle") /\ thread_to_pause' = Threads /\ target' = {}
  /\ gdb' = IF cur \in target THEN "stopped" ELSE gdb
  /\ Keep /\ UNCHANGED <<request_pause, request_continue, core_running, debugged, failed>>

CoreNext == \/ \E t \in Threads : RunSlice(t) \/ Step(t)
            \/ RunIteration \/ ShouldPause \/ Pause \/ Acknowledged \/ Check
            \/ Held \/ Unpause \/ Noticed \/ SVCRun \/ AwaitProcessing
StubWork == \/ (stub # "idle" /\ (Attach \/ RequestPause \/ RequestContinue \/ RequestStep))
            \/ TryAccess \/ Attached \/ StepDone
Command == stub = "idle"
           /\ (Attach \/ Interrupt \/ RequestContinue \/ RequestStep)

Next == CoreNext \/ StubWork \/ Command

\* both host threads run; the scheduler gives the core to every thread that stays ready
Fairness == /\ WF_vars(CoreNext) /\ WF_vars(StubWork)
            /\ \A t \in Threads : SF_vars(RunSlice(t)) /\ SF_vars(Step(t))
Spec == Init /\ [][Next]_vars /\ Fairness

(***************************************************************************)
(* Properties.                                                             *)
(***************************************************************************)
\* The flags, the thread sets of the controller and GDB's view have their types, and the
\* debugger only ever names threads of the process it is attached to.
TypeOK == /\ {request_pause, paused, request_continue, core_running, lost} \subseteq BOOLEAN
          /\ thread_to_pause \subseteq Threads /\ debugged \subseteq Threads
          /\ cur \in Threads /\ target \subseteq Debuggee
          /\ gdb \in {"detached", "running", "stopped"}
          /\ offer \in {"none", "offered", "taken"}

\* As long as GDB takes the program to be stopped, no thread executes an instruction: the
\* core waits in Run, whether a request, a step or a breakpoint stopped it, and the
\* registers and memory GDB reads do not change.
StoppedMeansHeld ==
  gdb = "stopped" => paused /\ core \in {"should", "match", "pause", "ack", "check", "held"}

\* A step that is requested before the core has seen request_pause taken back: the core waits
\* for that and RequestStep for the core to go on, for ever.
StepOvertakes == stub = "step3" /\ core = "ack"

\* Every command of GDB (attach, continue, step, interrupt) is over at some time, however soon
\* it follows on the one before, with two exceptions and no other: the notification of TryAccess
\* came before the emulation thread waited for it, or a step has overtaken the acknowledgement
\* of the stop before.
CommandsReturn == []<>(stub \in {"idle", "threw"} \/ lost \/ StepOvertakes)
=============================================================================
