------------------------------- MODULE Shader -------------------------------
(***************************************************************************)
(* Vertex shaders: the interpreter (shader_interpreter.cpp), the analysis  *)
(* of the control flow (shader_analysis.cpp), the recompiler to micro code *)
(* with its handlers, and the translation to GLSL (shader_microcode.cpp).  *)
(*                                                                         *)
(* A program is a function from offsets to instructions.  The data is      *)
(* abstracted to the history of what was computed: an arithmetic           *)
(* instruction appends its offset and the loop register to trace, and a    *)
(* comparison has an outcome that the history determines.                  *)
(***************************************************************************)
EXTENDS Integers, Sequences, SequencesExt, FiniteSets, TLC

CONSTANTS Programs,     \* the programs: functions from 0 .. n - 1 to instructions
          Capacity,     \* of the call stacks: 16 in the code
          IntUniform    \* the integer uniform of loops: [x |-> , y |-> , z |-> ]

VARIABLES prog, bool, input,          \* program, boolean uniform, what comparisons depend on
          phase,                      \* what is done next
          blocks, dirty, targets, functions,      \* AnalyzedProgram
          code, script,                 \* MicroCode: ops and block_offsets; the GLSL functions
          int, mic, glsl              \* the states of the three engines

vars == <<prog, bool, input, phase, blocks, dirty, targets, functions, code, script, int, mic, glsl>>

None == -1                            \* 0xffffffff
NoCode == [ops |-> <<>>, offsets |-> <<>>]
Code(p) == DOMAIN p
Machine == [pc |-> 0, stack |-> <<>>, trace |-> <<>>, a2 |-> 0, cc |-> <<FALSE, FALSE, FALSE>>,
            next |-> <<0, 0>>, status |-> "runs"]

Arithmetic(m, o) == [m EXCEPT !.trace = Append(@, <<o, m.a2>>)]
Compare(m) == [m EXCEPT !.cc[1] = ((Len(m.trace) % 2 = 0) = input[1]), !.cc[2] = input[2]]

\* evaluate_condition, EvalCondition, WriteCondition
Condition(m, c) ==
  LET x == c.x = m.cc[1]
      y == c.y = m.cc[2]
  IN  CASE c.op = "Or" -> x \/ y [] c.op = "And" -> x /\ y [] c.op = "X" -> x [] c.op = "Y" -> y

Inverted(i) == i.num % 2 = 1
Taken(i) == bool = ~Inverted(i)

(***************************************************************************)
(* The interpreter: ProcessShaderCode, one pass through its loop.          *)
(***************************************************************************)
Call(m, to, num, return, repeat, inc) ==
  IF Len(m.stack) >= Capacity
  THEN [m EXCEPT !.status = "threw"]
  ELSE [m EXCEPT !.pc = to,
                 !.stack = Append(@, [final |-> to + num, return |-> return, repeat |-> repeat,
                                      inc |-> inc, begin |-> to])]

LeaveScopeKept(m) ==     \* mutant: the element stays on the stack
  [m EXCEPT !.pc = Last(m.stack).return]
LeaveScope(m) ==
  LET top == Last(m.stack)
      n == [m EXCEPT !.a2 = @ + top.inc]
  IN  IF top.repeat = 0
      THEN [n EXCEPT !.pc = top.return, !.stack = Front(@)]
      ELSE [n EXCEPT !.pc = top.begin, !.stack[Len(m.stack)].repeat = @ - 1]

Conditional(m, i, o, holds) ==
  LET after == i.dest + i.num
  IN  IF holds THEN Call(m, o + 1, i.dest - (o + 1), after, 0, 0)
               ELSE Call(m, i.dest, i.num, after, 0, 0)

Interpret(m) ==
  LET o == m.pc
      i == prog[o]
      n == [m EXCEPT !.pc = o + 1]
      Jump(holds) == IF holds THEN [m EXCEPT !.pc = i.dest] ELSE n
      Enter(holds) == IF holds THEN Call(m, i.dest, i.num, o + 1, 0, 0) ELSE n
  IN  CASE i.op = "ALU"   -> Arithmetic(n, o)
        [] i.op = "CMP"   -> Compare(n)
        [] i.op = "NOP"   -> n
        [] i.op = "END"   -> [n EXCEPT !.status = "done"]
        [] i.op = "JMPC"  -> Jump(Condition(m, i.cond))
        [] i.op = "JMPU"  -> Jump(Taken(i))
        [] i.op = "CALL"  -> Enter(TRUE)
        [] i.op = "CALLU" -> Enter(bool)
        [] i.op = "CALLC" -> Enter(Condition(m, i.cond))
        [] i.op = "IFU"   -> Conditional(m, i, o, bool)
        [] i.op = "IFC"   -> Conditional(m, i, o, Condition(m, i.cond))
        [] i.op = "LOOP"  -> Call([m EXCEPT !.a2 = IntUniform.y], o + 1, i.dest - o, i.dest + 1,
                                  IntUniform.x, IntUniform.z)

ProcessShaderCode(m) ==
  IF m.stack # <<>> /\ Last(m.stack).final = m.pc THEN LeaveScope(m)
  ELSE IF m.pc \notin Code(prog) THEN [m EXCEPT !.status = "outside"]
  ELSE Interpret(m)

(***************************************************************************)
(* The analysis.  A block is [len, preds, succs, post]; succs maps the     *)
(* offsets of successors to the reason, and post is <<>>, <<"pop">> or     *)
(* <<"to", target>>.  The state of the analysis of one block:              *)
(*   [bs, dirty, targets, functions, at, ends, threw].                     *)
(***************************************************************************)
NewBlock == [len |-> None, preds |-> {}, succs |-> <<>>, post |-> <<>>]

Insert(f, k, v) == IF k \in DOMAIN f THEN f ELSE [x \in DOMAIN f \union {k} |-> IF x = k THEN v ELSE f[x]]

Register(s, o) ==       \* blocks.insert and dirty_blocks.insert
  IF o \in DOMAIN s.bs THEN s
  ELSE [s EXCEPT !.bs = Insert(@, o, NewBlock), !.dirty = @ \union {o}]

AddSuccessorOnly(s, b, to, reason) ==      \* mutant: the target is not registered as a block
  [s EXCEPT !.bs[b].succs = Insert(@, to, reason)]
AddSuccessor(s, b, to, reason) ==
  LET r == Register(s, to)
  IN  [r EXCEPT !.bs[b].succs = Insert(@, to, reason), !.bs[to].preds = @ \union {b}]

AddReturnSite(s, site, target, conditional) ==
  LET r == Register(s, site)
      l == IF site \in DOMAIN s.bs THEN r ELSE [r EXCEPT !.bs[site].len = 1]
      p == [l EXCEPT !.bs[site].post = IF conditional THEN <<"to", target>> ELSE <<"pop">>,
                     !.bs[site].succs = IF conditional THEN Insert(@, target, "JumpTo") ELSE @]
      t == Register(p, target)
  IN  IF conditional THEN [t EXCEPT !.bs[target].preds = @ \union {site}] ELSE t

\* The search of add_call runs over the offsets in rising order with the comparison of a
\* falling one: it finds the first block, or none.
AddCall(s, entry, exit, at) ==
  LET os == SetToSortSeq(DOMAIN s.bs, <)
      found == os[Len(os) \div 2 + 1] < entry
      len == s.bs[os[1]].len
      c == Register(s, entry)
  IN  IF found /\ len # None /\ entry < os[1] + len
      THEN [s EXCEPT !.threw = TRUE]          \* "Need to implement block splitting"
      ELSE [c EXCEPT !.targets = Insert(@, entry, [target |-> at, exit |-> exit])]

\* one instruction of block b at offset s.at
AnalyzeInstruction(s, b) ==
  LET o == s.at
      i == prog[o]
      n == [s EXCEPT !.bs[b].len = @ + 1]
      e == [n EXCEPT !.ends = TRUE]
      after == i.dest + i.num
      If(r) == AddSuccessor(AddReturnSite(r, i.dest - 1, after, TRUE), b, o + 1, "BranchToIf")
      Else(r) == IF i.num # 0 THEN AddSuccessor(r, b, i.dest, "BranchToElse")
                              ELSE AddSuccessor(r, b, after, "JumpTo")
      Loop(r) == AddSuccessor(AddSuccessor(AddReturnSite(r, i.dest, o + 1, FALSE),
                                           b, o + 1, "JumpTo"), b, i.dest + 1, "ExitLoop")
  IN  CASE i.op \in {"ALU", "CMP", "NOP"} -> n
        [] i.op = "END"  -> [e EXCEPT !.functions = Append(@, [entry |-> 0, exit |-> o])]
        [] i.op = "JMPC" -> AddSuccessor(AddSuccessor(e, b, i.dest, "CondJumpTo"), b, o + 1, "Fallthrough")
        [] i.op = "JMPU" -> IF Taken(i) THEN AddSuccessor(e, b, i.dest, "JumpTo")
                                        ELSE AddSuccessor(e, b, o + 1, "Fallthrough")
        [] i.op \in {"CALL", "CALLU", "CALLC"} ->
             AddSuccessor(IF i.op # "CALLU" \/ bool
                          THEN AddCall(AddReturnSite(e, after - 1, o + 1, FALSE), i.dest, after - 1, o)
                          ELSE e,
                          b, o + 1, "Fallthrough")
        [] i.op = "IFC"  -> Else(If(e))
        [] i.op = "IFU"  -> IF bool THEN If(e) ELSE Else(e)
        [] i.op = "LOOP" -> LET l == Loop(e)
                            IN [l EXCEPT !.bs[i.dest].succs = Insert(@, i.dest + 1, "LoopEnd"),
                                         !.bs[i.dest + 1].preds = @ \union {i.dest}]

RECURSIVE Scan(_, _)
Scan(s, b) ==
  IF s.threw THEN s
  ELSE IF s.at \notin Code(prog) THEN [s EXCEPT !.threw = TRUE]
  ELSE IF s.at # b /\ s.at \in DOMAIN s.bs
       THEN LET r == AddSuccessor(s, b, s.at, "Fallthrough") IN [r EXCEPT !.bs[b].len = s.at - b]
  ELSE LET r == AnalyzeInstruction(s, b)
           n == [r EXCEPT !.at = @ + 1]
       IN  IF r.ends \/ r.bs[b].post # <<>> THEN [n EXCEPT !.bs[b].len = n.at - b] ELSE Scan(n, b)

Overlap(bs) == \E p, q \in DOMAIN bs : p < q /\ q < p + bs[p].len

(***************************************************************************)
(* MergeLinearBlockChains.  B is merged into its only predecessor A; the   *)
(* loop over the blocks starts with the first and goes on with the third.  *)
(***************************************************************************)
Unmergeable == {"CALL", "CALLU", "CALLC", "LOOP", "JMPU", "JMPC"}

LinearAfter(bs, a, b) ==
  /\ DOMAIN bs[a].succs = {b} /\ a + bs[a].len = b
  /\ prog[b - 1].op \notin Unmergeable
  /\ bs[a].succs[b] = "Fallthrough"
  /\ bs[a].post \in {<<>>, <<"to", b>>}

Merged(bs, a, b) ==
  LET B == bs[b]
      A == [bs[a] EXCEPT !.len = @ + B.len, !.succs = B.succs, !.post = B.post]
  IN  [o \in DOMAIN bs \ {b} |->
         IF o = a THEN [A EXCEPT !.preds = IF a \in DOMAIN B.succs THEN (@ \ {b}) \union {a} ELSE @]
         ELSE IF o \in DOMAIN B.succs THEN [bs[o] EXCEPT !.preds = (@ \ {b}) \union {a}]
         ELSE bs[o]]

MergeStep(s, b) ==
  LET a == CHOOSE p \in s.bs[b].preds : TRUE
  IN  IF s.threw \/ Cardinality(s.bs[b].preds) # 1 \/ ~LinearAfter(s.bs, a, b) THEN s
      ELSE IF \E o \in DOMAIN s.bs[b].succs : a \in s.bs[o].preds
           THEN [s EXCEPT !.threw = TRUE]
           ELSE [s EXCEPT !.bs = Merged(@, a, b)]

MergeLinearBlockChains(s) ==
  LET os == SetToSortSeq(DOMAIN s.bs, <)
  IN  FoldLeft(MergeStep, s, IF Len(os) > 1 THEN RemoveAt(os, 2) ELSE os)

(***************************************************************************)
(* Post-dominators: None where the contracts of the search are violated.   *)
(* followed: the node was reached past a nested conditional.               *)
(***************************************************************************)
First(f) == CHOOSE o \in DOMAIN f : \A p \in DOMAIN f : o <= p

RECURSIVE ComputePostDominator(_, _), Follow(_, _, _)
ComputePostDominator(bs, b) ==
  LET ss == bs[b].succs
  IN  IF Cardinality(DOMAIN ss) = 1 THEN First(ss)
      ELSE IF Cardinality(DOMAIN ss) = 2 THEN Follow(bs, First(ss), FALSE)
      ELSE None
Follow(bs, o, followed) ==
  LET ss == bs[o].succs
  IN  IF ~followed /\ Cardinality(bs[o].preds) = 2 THEN o
      ELSE IF Cardinality(DOMAIN ss) = 2
           THEN LET d == ComputePostDominator(bs, o) IN IF d = None THEN None ELSE Follow(bs, d, TRUE)
      ELSE IF Cardinality(DOMAIN ss) = 1 THEN Follow(bs, First(ss), FALSE)
      ELSE None

PostDominators(bs) == [b \in DOMAIN bs |-> IF bs[b].succs = <<>> THEN None ELSE ComputePostDominator(bs, b)]

RECURSIVE Chain(_, _, _)        \* the post-dominators from a node to another one
Chain(dom, o, to) == IF o \in {to, None} THEN {o} ELSE {o} \union Chain(dom, dom[o], to)

ValidateNothing(bs, dom, b) == TRUE     \* mutant: the search is trusted
ValidatePostDominator(bs, dom, b) ==
  LET paths == {Chain(dom, o, dom[b]) : o \in DOMAIN bs[b].succs}
  IN  \/ bs[b].succs = <<>>
      \/ /\ dom[b] # None /\ None \notin UNION paths
         /\ Cardinality(DOMAIN bs[b].succs) = 2 =>
              \A o \in UNION paths \ {dom[b]} : \E p \in paths : o \notin p

\* DetectFunctions: main and whatever is called
DetectFunctions(fs, ts) ==
  SubSeq(fs, 1, 1) \o
    [k \in 1 .. Cardinality(DOMAIN ts) |->
       LET entry == SetToSortSeq(DOMAIN ts, <)[k] IN [entry |-> entry, exit |-> ts[entry].exit]]

(***************************************************************************)
(* RecompileToMicroCode.  Arguments are offsets of the program until the   *)
(* engine is made of the code, which replaces them by offsets of micro     *)
(* operations.                                                             *)
(***************************************************************************)
Op(t, a, b, c) == [t |-> t, a |-> a, b |-> b, c |-> c]

EmitCondition(c) ==     \* the operations, and the condition register
  IF c.op = "X" /\ c.x THEN <<<<>>, 1>>
  ELSE IF c.op = "Y" /\ c.y THEN <<<<>>, 2>>
  ELSE <<<<Op("EvalCondition", c, 0, 0)>>, 3>>

Goto(o) == Op("Goto", o, 0, 0)

Emit(i, o) ==
  LET c == EmitCondition(i.cond)
      call == Op("Call", i.dest, i.num, o + 1)
  IN  CASE i.op = "ALU"   -> <<Op("Arithmetic", o, 0, 0)>>
        [] i.op = "CMP"   -> <<Op("Compare", 0, 0, 0)>>
        [] i.op = "NOP"   -> <<>>
        [] i.op = "END"   -> <<Op("End", 0, 0, 0)>>
        [] i.op = "CALL"  -> <<call>>
        [] i.op = "CALLU" -> IF bool THEN <<call>> ELSE <<>>
        [] i.op = "CALLC" -> c[1] \o <<Op("PredicateNext", c[2], 0, 0), call>>
        [] i.op = "IFC"   -> c[1] \o <<Op("PredicateNext", c[2], 0, 0), Goto(o + 1), Goto(i.dest)>>
        [] i.op = "IFU"   -> <<Goto(IF bool THEN o + 1 ELSE i.dest)>>
        [] i.op = "JMPC"  -> c[1] \o <<Op("Branch", c[2], i.dest, o + 1)>>
        [] i.op = "JMPU"  -> <<Goto(IF Taken(i) THEN i.dest ELSE o + 1)>>
        [] i.op = "LOOP"  -> <<Op("PrepareLoop", IntUniform.x, IntUniform.y, IntUniform.z),
                               Op("EnterLoop", o + 1, i.dest - o, i.dest + 1)>>

\* whether the last control flow instruction of the block has said where to go on
DontLink(b) ==
  LET flow == {o \in b .. b + blocks[b].len - 1 : prog[o].op \notin {"ALU", "CMP", "NOP"}}
  IN  flow # {} /\ prog[CHOOSE o \in flow : \A p \in flow : p <= o].op \notin {"CALLU", "CALLC"}

EmitBlock(b, last) ==
  LET B == blocks[b]
      body == FlattenSeq([k \in 1 .. B.len |-> Emit(prog[b + k - 1], b + k - 1)])
  IN  body \o IF B.post = <<"pop">> THEN <<Op("PopCallStack", 0, 0, 0)>>
              ELSE IF B.post # <<>> THEN <<Goto(B.post[2])>>
              ELSE IF ~DontLink(b) /\ b # last THEN <<Goto(b + B.len)>>
              ELSE <<>>

\* ValidateContract: a block that pops the call stack has no successor, or ends a loop
PopsOnly(b) == blocks[b].post = <<"pop">> =>
                 \A o \in DOMAIN blocks[b].succs : blocks[b].succs[o] = "LoopEnd"

Recompiled ==
  LET os == SetToSortSeq(DOMAIN blocks, <)
      parts == [k \in 1 .. Len(os) |-> EmitBlock(os[k], Last(os))]
      At(k) == FoldLeft(LAMBDA n, p : n + Len(p), 1, SubSeq(parts, 1, k - 1))
      offsets == [b \in DOMAIN blocks |-> At(CHOOSE k \in 1 .. Len(os) : os[k] = b)]
      Patch(p) ==
        CASE p.t = "Goto"   -> [p EXCEPT !.a = offsets[@]]
          [] p.t = "Branch" -> [p EXCEPT !.b = offsets[@], !.c = offsets[@]]
          [] p.t \in {"Call", "EnterLoop"} -> [p EXCEPT !.a = offsets[@], !.c = offsets[@]]
          [] OTHER -> p
      ops == FlattenSeq(parts)
  IN  [ops |-> [k \in 1 .. Len(ops) |-> Patch(ops[k])], offsets |-> offsets]

(***************************************************************************)
(* The handlers of the micro operations.                                   *)
(***************************************************************************)
MicroCall(m, p, repeat, inc) ==
  IF Len(m.stack) >= Capacity THEN [m EXCEPT !.status = "threw"]
  ELSE [m EXCEPT !.pc = p.a,
                 !.stack = Append(@, [return |-> p.c, repeat |-> repeat, inc |-> inc, begin |-> p.a])]

PopCallStackOnce(m) ==     \* mutant: a loop is left after one iteration
  [m EXCEPT !.pc = Last(m.stack).return, !.stack = Front(@)]
PopCallStack(m) == IF Len(m.stack) <= 1 THEN [m EXCEPT !.status = "threw"] ELSE LeaveScope(m)

Handle(m) ==
  LET p == code.ops[m.pc]
      n == [m EXCEPT !.pc = @ + 1]
  IN  CASE p.t = "Arithmetic"    -> Arithmetic(n, p.a)
        [] p.t = "Compare"       -> Compare(n)
        [] p.t = "End"           -> [m EXCEPT !.status = "done"]
        [] p.t = "Goto"          -> [m EXCEPT !.pc = p.a]
        [] p.t = "Branch"        -> [m EXCEPT !.pc = IF m.cc[p.a] THEN p.b ELSE p.c]
        [] p.t = "Call"          -> MicroCall(m, p, 0, 0)
        [] p.t = "EnterLoop"     -> MicroCall(m, p, m.next[1], m.next[2])
        [] p.t = "PopCallStack"  -> PopCallStack(m)
        [] p.t = "PrepareLoop"   -> [n EXCEPT !.a2 = p.b, !.next = <<p.a, p.c>>]
        [] p.t = "EvalCondition" -> [n EXCEPT !.cc[3] = Condition(m, p.a)]
        [] p.t = "PredicateNext" -> IF m.cc[p.a] THEN n ELSE [m EXCEPT !.pc = @ + 2]

(***************************************************************************)
(* WriteBlocksFromTo: the translation to nested GLSL statements of what    *)
(* lies between the block at o and the instruction end.                    *)
(***************************************************************************)
Statement(t, o, c, then, else) == [t |-> t, o |-> o, c |-> c, then |-> then, else |-> else]
Simple(t, o) == <<Statement(t, o, 0, <<>>, <<>>)>>

TranslateUnconditionally(o) ==     \* mutant: CALLC ignores its condition
  LET i == prog[o]
  IN  CASE i.op = "ALU" -> Simple("alu", o)
        [] i.op = "CMP" -> Simple("cmp", o)
        [] i.op = "END" -> Simple("position", o)
        [] i.op \in {"CALL", "CALLC"} -> Simple("call", i.dest)
        [] i.op = "CALLU" -> IF bool THEN Simple("call", i.dest) ELSE <<>>
        [] OTHER -> <<>>
TranslateToGLSL(o) ==
  LET i == prog[o]
      call == Simple("call", i.dest)
  IN  CASE i.op = "ALU"   -> Simple("alu", o)
        [] i.op = "CMP"   -> Simple("cmp", o)
        [] i.op = "END"   -> Simple("position", o)
        [] i.op = "CALL"  -> call
        [] i.op = "CALLC" -> <<Statement("if", o, i.cond, call, <<>>)>>
        [] i.op = "CALLU" -> IF bool THEN call ELSE <<>>
        [] OTHER -> <<>>

\* what ValidateContract admits of the two ways out of a block
Contract == {{"BranchToIf", "BranchToElse"}, {"BranchToIf", "JumpTo"}, {"ExitLoop", "JumpTo"},
             {"CondJumpTo", "Fallthrough"}, {"LoopEnd", "JumpTo"}}

RECURSIVE WriteBlocksFromTo(_, _, _)
WriteBlocksFromTo(dom, b, end) ==
  LET B == blocks[b]
      inside == end \in b .. b + B.len - 1
      bound == IF inside /\ end + 1 < b + B.len THEN end ELSE b + B.len
      body == FlattenSeq([k \in 1 .. bound - b |-> TranslateToGLSL(b + k - 1)])
      i == prog[b + B.len - 1]
      To(v) == CHOOSE o \in DOMAIN B.succs : B.succs[o] = v
      Has(v) == \E o \in DOMAIN B.succs : B.succs[o] = v
      Branch(then, else) ==
        <<Statement("if", b, i.cond, then, else)>> \o WriteBlocksFromTo(dom, dom[b], end)
      kinds == {B.succs[o] : o \in DOMAIN B.succs}
      branches ==
        CASE kinds \notin Contract -> Simple("contract", b)
          [] Has("LoopEnd") -> <<>>
          [] Has("CondJumpTo") ->
               Branch(WriteBlocksFromTo(dom, To("CondJumpTo"), dom[b] - 1),
                      WriteBlocksFromTo(dom, To("Fallthrough"), dom[b] - 1))
          [] Has("ExitLoop") ->
               <<Statement("for", b, 0, WriteBlocksFromTo(dom, To("JumpTo"), i.dest), <<>>)>>
                 \o WriteBlocksFromTo(dom, To("ExitLoop"), end)
          [] Has("BranchToElse") ->
               Branch(WriteBlocksFromTo(dom, To("BranchToIf"), To("BranchToElse") - 1),
                      WriteBlocksFromTo(dom, To("BranchToElse"), dom[b] - 1))
          [] OTHER -> Branch(WriteBlocksFromTo(dom, To("BranchToIf"), dom[b] - 1), <<>>)
  IN  IF end + 1 = b THEN <<>>
      ELSE body \o
           IF inside \/ B.succs = <<>> THEN <<>>
           ELSE IF Cardinality(DOMAIN B.succs) = 1
                THEN WriteBlocksFromTo(dom, First(B.succs), end)
           ELSE branches

RECURSIVE Contracts(_)
Contracts(ss) == \A k \in DOMAIN ss : /\ ss[k].t # "contract"
                                          /\ Contracts(ss[k].then) /\ Contracts(ss[k].else)

\* GLSL executes statements in order; a call runs the body of a function
RECURSIVE Execute(_, _, _), Repeat(_, _, _, _)
Execute(fs, m, ss) ==
  IF ss = <<>> THEN m
  ELSE LET s == Head(ss)
           n == CASE s.t = "alu"      -> Arithmetic(m, s.o)
                  [] s.t = "cmp"      -> Compare(m)
                  [] s.t = "position" -> [m EXCEPT !.status = "done"]
                  [] s.t = "call"     -> Execute(fs, m, fs[s.o])
                  [] s.t = "if"       -> Execute(fs, m, IF Condition(m, s.c) THEN s.then ELSE s.else)
                  [] s.t = "for"      -> Repeat(fs, [m EXCEPT !.a2 = IntUniform.y], s.then, 0)
       IN  Execute(fs, n, Tail(ss))
Repeat(fs, m, ss, count) ==
  IF count > IntUniform.x THEN m
  ELSE LET n == Execute(fs, m, ss)
       IN  Repeat(fs, [n EXCEPT !.a2 = @ + IntUniform.z], ss, count + 1)

GenerateGLSL(dom) ==
  LET f(e) == CHOOSE k \in 1 .. Len(functions) : functions[k].entry = e
  IN  [e \in {functions[k].entry : k \in DOMAIN functions} |->
         WriteBlocksFromTo(dom, e, functions[f(e)].exit)]

(***************************************************************************)
(* The steps.                                                              *)
(***************************************************************************)
Init ==
  /\ prog \in Programs /\ bool \in BOOLEAN /\ input \in BOOLEAN \X BOOLEAN
  /\ phase = "analyze"
  /\ blocks = (0 :> NewBlock) /\ dirty = {0} /\ targets = <<>> /\ functions = <<>>
  /\ code = NoCode /\ script = <<>>
  /\ int = Machine /\ mic = Machine /\ glsl = Machine

Fixed == UNCHANGED <<prog, bool, input>>

AnalyzeBlock ==
  /\ phase = "analyze" /\ dirty # {}
  /\ LET b == CHOOSE o \in dirty : \A p \in dirty : o <= p
         s == Scan([bs |-> [blocks EXCEPT ![b].len = 0], dirty |-> dirty \ {b}, targets |-> targets,
                    functions |-> functions, at |-> b, ends |-> FALSE, threw |-> FALSE], b)
     IN  /\ blocks' = s.bs /\ dirty' = s.dirty /\ targets' = s.targets /\ functions' = s.functions
         /\ phase' = IF s.threw THEN "threw" ELSE phase
  /\ Fixed /\ UNCHANGED <<code, script, int, mic, glsl>>

AnalyzeShader ==
  /\ phase = "analyze" /\ dirty = {}
  /\ LET s == MergeLinearBlockChains([bs |-> blocks, threw |-> Overlap(blocks)])
         dom == PostDominators(s.bs)
         ok == ~s.threw /\ \A b \in DOMAIN s.bs : ValidatePostDominator(s.bs, dom, b)
     IN  /\ blocks' = s.bs
         /\ phase' = IF ok THEN "recompile" ELSE "threw"
         /\ functions' = DetectFunctions(functions, targets)
  /\ Fixed /\ UNCHANGED <<dirty, targets, code, script, int, mic, glsl>>

CreateMicroCodeRecompiler ==
  /\ phase = "recompile"
  /\ script' = GenerateGLSL(PostDominators(blocks))
  /\ IF (\A b \in DOMAIN blocks : PopsOnly(b)) /\ \A e \in DOMAIN script' : Contracts(script'[e])
     THEN /\ code' = Recompiled /\ phase' = "run"
          /\ mic' = [mic EXCEPT !.pc = Recompiled.offsets[0],
                                !.stack = <<[return |-> None, repeat |-> 0, inc |-> 0, begin |-> 0]>>]
     ELSE phase' = "threw" /\ UNCHANGED <<code, mic>>
  /\ Fixed /\ UNCHANGED <<blocks, dirty, targets, functions, int, glsl>>

RunInterpreter ==
  /\ phase = "run" /\ int.status = "runs"
  /\ int' = ProcessShaderCode(int)
  /\ Fixed /\ UNCHANGED <<phase, blocks, dirty, targets, functions, code, script, mic, glsl>>

RunMicroCode ==
  /\ phase = "run" /\ int.status # "runs" /\ mic.status = "runs"
  /\ mic' = IF mic.pc \in DOMAIN code.ops THEN Handle(mic) ELSE [mic EXCEPT !.status = "outside"]
  /\ Fixed /\ UNCHANGED <<phase, blocks, dirty, targets, functions, code, script, int, glsl>>

RunGLSL ==
  /\ phase = "run" /\ int.status # "runs" /\ mic.status # "runs" /\ glsl.status = "runs"
  /\ glsl' = Execute(script, glsl, script[0])
  /\ Fixed /\ UNCHANGED <<phase, blocks, dirty, targets, functions, code, script, int, mic>>

Next == AnalyzeBlock \/ AnalyzeShader \/ CreateMicroCodeRecompiler \/ RunInterpreter \/ RunMicroCode \/ RunGLSL

Spec == Init /\ [][Next]_vars

(***************************************************************************)
(* Properties.                                                             *)
(***************************************************************************)
\* The blocks, the machines and the micro code have the shapes of their types.
TypeOK ==
  /\ phase \in {"analyze", "recompile", "run", "threw"}
  /\ dirty \subseteq DOMAIN blocks
  /\ \A b \in DOMAIN blocks : /\ blocks[b].preds \union DOMAIN blocks[b].succs \subseteq DOMAIN blocks
                              /\ blocks[b].len \in DOMAIN prog \union {None, Cardinality(DOMAIN prog)}
  /\ \A m \in {int, mic, glsl} : m.status \in {"runs", "done", "threw", "outside"} /\ Len(m.stack) <= Capacity

\* The micro code of a shader computes what the interpreter computes (ProcessShaderCode and
\* RecompileToMicroCode with the handlers): every arithmetic instruction, in the same order
\* and with the same loop register.
MicroCodeAgrees == int.status = "done" /\ mic.status # "runs" => mic.status = "done" /\ mic.trace = int.trace

\* So does the GLSL text that is generated from the same analysis.
GLSLAgrees == glsl.status # "runs" => glsl.trace = int.trace

\* What ComputePostDominator finds for the two ways out of a block is the first block that
\* all paths from there have in common.
RECURSIVE Reaches(_, _, _)      \* a path from a to the end of the graph that avoids x
Reaches(a, x, n) ==
  a # x /\ (blocks[a].succs = <<>> \/ (n > 0 /\ \E o \in DOMAIN blocks[a].succs : Reaches(o, x, n - 1)))
OnAllPaths(b) == {x \in DOMAIN blocks \ {b} : \A o \in DOMAIN blocks[b].succs : ~Reaches(o, x, Cardinality(DOMAIN prog))}
PostDominatorsRight ==
  phase = "recompile" =>
    \A b \in DOMAIN blocks : blocks[b].succs # <<>> =>
      LET d == PostDominators(blocks)[b]
      IN  d \in OnAllPaths(b) /\ \A x \in OnAllPaths(b) \ {d} : x \in OnAllPaths(d)

\* A shader that runs to its end has left all its scopes: calls, conditionals and loops of
\* the interpreter and calls and loops of the micro code.
StacksUnwound == /\ int.status = "done" => int.stack = <<>>
                 /\ mic.status = "done" => Len(mic.stack) = 1
=============================================================================
