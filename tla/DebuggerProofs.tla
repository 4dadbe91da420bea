--------------------------- MODULE DebuggerProofs ---------------------------
(***************************************************************************)
(* Proofs about Debugger, for any threads of the debugged and of the other *)
(* processes, with and without breakpoints, however soon a command follows *)
(* on the one before, and for both ways to attach.                         *)
(*                                                                         *)
(* The argument: request_continue is set exactly while the stub is between *)
(* two points of RequestContinue or RequestStep, and the core gives up     *)
(* paused only when it sees that flag.  Once paused is set, it therefore   *)
(* stays set until the stub asks for it, and after it was given up the     *)
(* core waits at "noticed" for the flag to be taken back, so that the stub *)
(* never mistakes a second pause for the end of the first.                 *)
(***************************************************************************)
EXTENDS Debugger, TLAPS

HeldPoints == {"should", "match", "pause", "ack", "check", "held"}
CorePoints == HeldPoints \union {"run", "unpause", "noticed", "step", "svcrun", "offer", "await"}
StubPoints == {"idle", "threw", "attach1", "attach2", "attach3", "attach4", "attach5",
               "pause1", "pause2", "pause3", "pause4", "pause5",
               "continue1", "continue2", "continue3",
               "step1", "step2", "step3", "step4", "step5", "step6", "step7"}

(* Where the core can be while paused is set, and where it must be set. *)
PausedPoints ==
    /\ core \in CorePoints
    /\ paused => core \in HeldPoints \union {"unpause"}
    /\ core \in {"ack", "held", "unpause"} => paused

(* What the stub may rely on at each of its points. *)
Handshake ==
    /\ stub \in StubPoints
    /\ request_continue <=> stub \in {"continue1", "continue2", "step3", "step4"}
    /\ core = "unpause" => stub \in {"continue1", "step3"}
    /\ stub \in {"continue1", "step3"} => paused \/ core = "noticed"
    /\ stub \in {"continue2", "step4"} => core = "noticed"
    /\ stub \in {"attach5", "pause4", "pause5", "step1", "step2", "step6", "step7"} => paused

(* GDB's view. *)
StoppedIdle == gdb = "stopped" => paused /\ stub = "idle"

(* The assertions of vAttach and of RequestStep never fail.  Those of RequestPause *)
(* and RequestContinue can: a breakpoint may pause the core between the stub's     *)
(* look at paused and the assertion.                                               *)
AssertionsOfStep == failed \subseteq {"RequestPause", "RequestContinue"}

(* The inductive invariant, which does not need the types. *)
Inv == PausedPoints /\ Handshake /\ StoppedIdle

-----------------------------------------------------------------------------
(* The invariant implies the property: a stub that is idle has not asked the *)
(* core to continue, so the core is not about to give up paused.             *)
LEMMA InvImpliesHeld == Inv => StoppedMeansHeld
BY DEF Inv, PausedPoints, Handshake, StoppedIdle, StoppedMeansHeld, HeldPoints

(* The invariant holds before the first instruction. *)
LEMMA InitInv == Init => Inv
BY DEF Init, Inv, PausedPoints, Handshake, StoppedIdle,
       Threads, HeldPoints, CorePoints, StubPoints

-----------------------------------------------------------------------------
(* Every step of the core keeps the invariant. *)
LEMMA CoreStep == Inv /\ CoreNext => Inv'
<1> SUFFICES ASSUME Inv, CoreNext PROVE Inv' OBVIOUS
<1> USE DEF Inv, PausedPoints, Handshake, StoppedIdle, HeldPoints,
            CorePoints, StubPoints, Core, stubSide
<1>1. ASSUME NEW t \in Threads, RunSlice(t) PROVE Inv'
  BY <1>1 DEF RunSlice
<1>2. ASSUME NEW t \in Threads, Step(t) PROVE Inv'
  BY <1>2 DEF Step
<1>3. CASE RunIteration
  BY <1>3 DEF RunIteration
<1>4. CASE ShouldPause
  BY <1>4 DEF ShouldPause
<1>5. CASE Pause
  BY <1>5 DEF Pause
<1>6. CASE Acknowledged
  BY <1>6 DEF Acknowledged
<1>7. CASE Check
  BY <1>7 DEF Check
<1>8. CASE Held
  BY <1>8 DEF Held
<1>9. CASE Unpause
  BY <1>9 DEF Unpause
<1>10. CASE Noticed
  BY <1>10 DEF Noticed
<1>11. CASE SVCRun
  BY <1>11 DEF SVCRun
<1>12. CASE AwaitProcessing
  BY <1>12 DEF AwaitProcessing
<1> QED BY <1>1, <1>2, <1>3, <1>4, <1>5, <1>6, <1>7, <1>8, <1>9, <1>10, <1>11, <1>12 DEF CoreNext

(* Every step of the stub keeps it: those of a command that is under way, and *)
(* the first step of a new one.                                                *)
LEMMA StubStep ==
    ASSUME Inv, \/ Attach \/ TryAccess \/ Attached \/ Interrupt
                \/ RequestPause \/ RequestContinue \/ RequestStep \/ StepDone
    PROVE  Inv'
<1> USE DEF Inv, PausedPoints, Handshake, StoppedIdle, HeldPoints,
            CorePoints, StubPoints, Stub, coreSide, Keep, Assert
<1>1. CASE Attach
  <2>1. CASE stub = "idle"
    BY <1>1, <2>1 DEF Attach, Threads
  <2>2. CASE stub = "attach1"
    BY <1>1, <2>2 DEF Attach, Threads
  <2>3. CASE stub = "attach2"
    BY <1>1, <2>3 DEF Attach, Threads
  <2> QED BY <1>1, <2>1, <2>2, <2>3 DEF Attach, Threads
<1>2. CASE TryAccess
  BY <1>2 DEF TryAccess, flags
<1>3. CASE Attached
  <2>1. CASE stub = "attach4"
    BY <1>3, <2>1 DEF Attached
  <2>2. CASE stub = "attach5"
    BY <1>3, <2>2 DEF Attached
  <2> QED BY <1>3, <2>1, <2>2 DEF Attached
<1>4. CASE Interrupt
  BY <1>4 DEF Interrupt
<1>5. CASE RequestPause
  <2>1. CASE stub = "pause1"
    BY <1>5, <2>1 DEF RequestPause, Threads
  <2>2. CASE stub = "pause2"
    BY <1>5, <2>2 DEF RequestPause, Threads
  <2>3. CASE stub = "pause3"
    BY <1>5, <2>3 DEF RequestPause, Threads
  <2>4. CASE stub = "pause4"
    BY <1>5, <2>4 DEF RequestPause, Threads
  <2>5. CASE stub = "pause5"
    BY <1>5, <2>5 DEF RequestPause, Threads
  <2> QED BY <1>5, <2>1, <2>2, <2>3, <2>4, <2>5 DEF RequestPause, Threads
<1>6. CASE RequestContinue
  <2>1. CASE stub = "idle"
    BY <1>6, <2>1 DEF RequestContinue, ClearRequestContinue
  <2>2. CASE stub = "continue1"
    BY <1>6, <2>2 DEF RequestContinue, ClearRequestContinue
  <2>3. CASE stub = "continue2"
    BY <1>6, <2>3 DEF RequestContinue, ClearRequestContinue
  <2>4. CASE stub = "continue3"
    BY <1>6, <2>4 DEF RequestContinue, ClearRequestContinue
  <2> QED BY <1>6, <2>1, <2>2, <2>3, <2>4 DEF RequestContinue, ClearRequestContinue
<1>7. CASE RequestStep
  <2>1. CASE stub = "idle"
    BY <1>7, <2>1 DEF RequestStep, ClearRequestContinue, Threads
  <2>2. CASE stub = "step1"
    BY <1>7, <2>2 DEF RequestStep, ClearRequestContinue, Threads
  <2>3. CASE stub = "step2"
    BY <1>7, <2>3 DEF RequestStep, ClearRequestContinue, Threads
  <2>4. CASE stub = "step3"
    BY <1>7, <2>4 DEF RequestStep, ClearRequestContinue, Threads
  <2>5. CASE stub = "step4"
    BY <1>7, <2>5 DEF RequestStep, ClearRequestContinue, Threads
  <2>6. CASE stub = "step5"
    BY <1>7, <2>6 DEF RequestStep, ClearRequestContinue, Threads
  <2>7. CASE stub = "step6"
    BY <1>7, <2>7 DEF RequestStep, ClearRequestContinue, Threads
  <2> QED BY <1>7, <2>1, <2>2, <2>3, <2>4, <2>5, <2>6, <2>7 DEF RequestStep, ClearRequestContinue, Threads
<1>8. CASE StepDone
  BY <1>8 DEF StepDone
<1> QED BY <1>1, <1>2, <1>3, <1>4, <1>5, <1>6, <1>7, <1>8

(* Every step of the composed system keeps it. *)
LEMMA NextInv == Inv /\ [Next]_vars => Inv'
<1>1. Inv /\ CoreNext => Inv'
  BY CoreStep
<1>2. Inv /\ (StubWork \/ Command) => Inv'
  BY StubStep DEF StubWork, Command
<1>3. Inv /\ UNCHANGED vars => Inv'
  BY DEF Inv, PausedPoints, Handshake, StoppedIdle, vars, flags
<1> QED BY <1>1, <1>2, <1>3 DEF Next

(* The invariant holds in every behaviour of the composed system. *)
LEMMA Invariance == Spec => []Inv
BY InitInv, NextInv, PTL DEF Spec

-----------------------------------------------------------------------------
(* Every step of either side keeps the types. *)
LEMMA TypeStep == TypeOK /\ [Next]_vars => TypeOK'
<1> SUFFICES ASSUME TypeOK, [Next]_vars PROVE TypeOK' OBVIOUS
<1> DEFINE Flags == /\ request_pause \in BOOLEAN /\ paused \in BOOLEAN
                    /\ request_continue \in BOOLEAN
                    /\ core_running \in BOOLEAN /\ lost \in BOOLEAN
           Sets == /\ thread_to_pause \subseteq Threads /\ debugged \subseteq Threads
                   /\ cur \in Threads /\ target \subseteq Debuggee
           Views == gdb \in {"detached", "running", "stopped"} /\ offer \in {"none", "offered", "taken"}
<1>0. Flags /\ Sets /\ Views
  BY DEF TypeOK
<1>1. CASE CoreNext
  <2> USE <1>0, <1>1 DEF CoreNext, Core, stubSide, RunSlice, Step, RunIteration, ShouldPause, Pause,
          Acknowledged, Check, Held, Unpause, Noticed, SVCRun, AwaitProcessing
  <2>1. Flags'
    OBVIOUS
  <2>2. Sets'
    OBVIOUS
  <2>3. Views'
    OBVIOUS
  <2> QED BY <2>1, <2>2, <2>3 DEF TypeOK
<1>2. CASE StubWork \/ Command
  <2> USE <1>0, <1>2 DEF StubWork, Command, Attach, TryAccess, Attached, Interrupt, RequestPause,
          RequestContinue, ClearRequestContinue, RequestStep, StepDone, Stub, coreSide, Keep, flags
  <2>1. Flags'
    OBVIOUS
  <2>2. Sets'
    BY DEF Threads
  <2>3. Views'
    OBVIOUS
  <2> QED BY <2>1, <2>2, <2>3 DEF TypeOK
<1>3. CASE UNCHANGED vars
  BY <1>3 DEF TypeOK, vars, flags
<1> QED BY <1>1, <1>2, <1>3 DEF Next

(* A step adds at most the assertions that a breakpoint can break. *)
LEMMA FailedStep ==
    Inv /\ [Next]_vars => failed' \in {failed, failed \union {"RequestPause"},
                                       failed \union {"RequestContinue"}}
<1> SUFFICES ASSUME Inv, [Next]_vars
             PROVE  failed' \in {failed, failed \union {"RequestPause"},
                                 failed \union {"RequestContinue"}}
  OBVIOUS
<1>1. stub \in {"idle", "attach5", "step6"} => (stub = "idle" /\ gdb # "stopped") \/ paused
  BY DEF Inv, Handshake, StoppedIdle
<1>2. CASE CoreNext \/ UNCHANGED vars
  BY <1>2 DEF CoreNext, Core, stubSide, RunSlice, Step, RunIteration, ShouldPause, Pause, vars,
          Acknowledged, Check, Held, Unpause, Noticed, SVCRun, AwaitProcessing
<1>3. CASE StubWork \/ Command
  BY <1>1, <1>3 DEF StubWork, Command, Attach, TryAccess, Attached, Interrupt, RequestPause, Assert,
          RequestContinue, ClearRequestContinue, RequestStep, StepDone, Stub
<1> QED BY <1>2, <1>3 DEF Next

(* The flags, thread sets and GDB's view always have their types; in particular a step *)
(* only ever names threads of the process the stub is attached to.                     *)
THEOREM TypeCorrect == Spec => []TypeOK
<1>1. Init => TypeOK
  BY DEF Init, TypeOK, Threads
<1> QED BY <1>1, TypeStep, PTL DEF Spec

(* While GDB takes the program to be stopped, the core is held in the loop of          *)
(* Interpreter::Run: in whatever order the network thread and the emulation thread     *)
(* read and write their three flags, and whatever stopped the program.                 *)
THEOREM StoppedHolds == Spec => []StoppedMeansHeld
BY InvImpliesHeld, Invariance, PTL

(* The assertions of vAttach and RequestStep on paused hold in every interleaving.     *)
THEOREM StepAssertionsHold == Spec => []AssertionsOfStep
<1>1. Init => AssertionsOfStep
  BY DEF Init, AssertionsOfStep
<1>2. Inv /\ AssertionsOfStep /\ [Next]_vars => AssertionsOfStep'
  BY FailedStep DEF AssertionsOfStep
<1> QED BY <1>1, <1>2, Invariance, PTL DEF Spec

(* A step taken while GDB takes the program to be stopped neither executes an          *)
(* instruction nor gives the core to another thread, and the program is not stopped    *)
(* any more once the core may leave the loop: the state GDB reads is that of the       *)
(* thread that stopped.                                                                *)
NothingRuns == gdb = "stopped" => /\ cur' = cur
                                  /\ core # "step" /\ core' \notin {"step", "unpause"}
                                  /\ gdb' \in {"stopped", "running"}

(* Nothing runs in any step taken while GDB believes in the stop. *)
THEOREM StoppedFrozen == Spec => [][NothingRuns]_vars
<1>1. Inv /\ [Next]_vars => [NothingRuns]_vars
  <2> SUFFICES ASSUME Inv, Next, gdb = "stopped" PROVE NothingRuns
    BY DEF NothingRuns
  <2>1. paused /\ stub = "idle" /\ ~request_continue /\ core \in HeldPoints
    BY DEF Inv, PausedPoints, Handshake, StoppedIdle, HeldPoints
  <2>2. CASE CoreNext
    BY <2>1, <2>2 DEF CoreNext, Core, stubSide, RunSlice, Step, RunIteration, ShouldPause, Pause,
          Acknowledged, Check, Held, Unpause, Noticed, SVCRun, AwaitProcessing, HeldPoints, NothingRuns
  <2>3. CASE StubWork
    BY <2>1, <2>3 DEF StubWork, Attach, TryAccess, Attached, StepDone, RequestPause, RequestContinue,
          RequestStep, ClearRequestContinue, Stub
  <2>4. CASE Command
    BY <2>1, <2>4 DEF Command, Attach, Interrupt, RequestContinue, RequestStep,
          ClearRequestContinue, Stub, coreSide, Keep, HeldPoints, NothingRuns
  <2> QED BY <2>2, <2>3, <2>4 DEF Next
<1> QED BY <1>1, Invariance, PTL DEF Spec

=============================================================================
