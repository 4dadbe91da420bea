------------------------------- MODULE MCArm -------------------------------
(***************************************************************************)
(* Small programs on eight-bit words (bytes of two bits), each started from*)
(* every combination of corner values, and what they must compute.         *)
(***************************************************************************)
EXTENDS Arm, TLC

I(op) == [DefaultInstr EXCEPT !.op = op]
Corner == {0, 1, 2, 63, 64, 127, 128, 129, 192, 254, 255}
Few    == {0, 1, 127, 128, 255}
Base   == [reg |-> [r \in Register |-> 0], n |-> 0, z |-> 0, c |-> 0, v |-> 0, q |-> 0,
           ge |-> [k \in 0..3 |-> 0], thumb |-> 0, stub |-> FALSE, monitor |-> {}, i |-> 0, font |-> FALSE, fails |-> 0,
           fp |-> [f \in 0..5 |-> 0], fpscr |-> 0,
           cp15 |-> [CPUId |-> 3, Control |-> 0, AuxiliaryControl |-> 0, ThreadLocalStorage |-> 20],
           mem |-> [a \in 0..(DataBytes - 1) |-> (a + a \div 4 + a \div 16) % 4]]
Regs(a, b, c, d) == [Base EXCEPT !.reg[0] = a, !.reg[1] = b, !.reg[2] = c, !.reg[3] = d]

\* two instructions on registers 0 and 1 (the low words: 0, 2; the high: 1, 3)
OnRegs(op, d, m) == [I(op) EXCEPT !.s = TRUE, !.rd = d, !.rn = d, !.rm = m,
                                  !.enc = "ShiftByImm"]
Pair(lo, hi) == (0 :> OnRegs(lo, 0, 2)) @@ (4 :> OnRegs(hi, 1, 3))
Wide == [ADD2 |-> Pair("ADD", "ADC"), SUB2 |-> Pair("SUB", "SBC"), RSB2 |-> Pair("RSB", "RSC")]

MulOps == {"UMULL", "UMLAL", "SMULL", "SMLAL", "UMAAL"}
Mul == [op \in MulOps |-> 0 :> [I(op) EXCEPT !.rd = 0, !.rn = 1, !.rs = 2, !.rm = 3]]

CmpOps == {"CMP", "CMN"}
Cmp == [op \in CmpOps |-> 0 :> OnRegs(op, 0, 1)]

ShiftModes == {"LSL", "LSR", "ASR", "ROR"}
Shifts == [m \in ShiftModes |-> 0 :> [I("MOV") EXCEPT !.s = TRUE, !.rd = 0, !.rm = 1, !.rs = 2,
                                                      !.enc = "ShiftByReg", !.shift = m]]

\* push registers, clear them, pop them, with the four pairs of modes
Clear(k) == [I("MOV") EXCEPT !.rd = k, !.imm = 0]
Block(op, p, u) == [I(op) EXCEPT !.rn = SP, !.p = p, !.u = u, !.w = TRUE, !.list = {0, 2, 3}]
StackProgram(p, u) == (0 :> Block("STM", p, u)) @@ (4 :> Clear(0)) @@ (8 :> Clear(2))
                      @@ (12 :> Clear(3)) @@ (16 :> Block("LDM", ~p, ~u))
Stacks == [IA |-> StackProgram(FALSE, TRUE), IB |-> StackProgram(TRUE, TRUE),
           DA |-> StackProgram(FALSE, FALSE), DB |-> StackProgram(TRUE, FALSE)]

\* a call at 32 of the function at 64, in the four pairs of states
ReturnArm == [I("BX") EXCEPT !.rm = LR]
ReturnThumb == [I("TBX") EXCEPT !.rm = LR]
PushPop == (64 :> [I("PUSH") EXCEPT !.list = {0, 1, LR}]) @@ (66 :> [I("MOV1") EXCEPT !.rd = 0])
           @@ (68 :> [I("MOV1") EXCEPT !.rd = 1]) @@ (70 :> [I("POP") EXCEPT !.list = {0, 1, PC}])
Calls ==
  [A2A |-> (32 :> [I("BL") EXCEPT !.imm = 6]) @@ (64 :> ReturnArm),
   A2T |-> (32 :> [I("BLXI") EXCEPT !.imm = 6, !.x = 1]) @@ (66 :> ReturnThumb),
   T2T |-> (32 :> I("BLHIGH")) @@ (34 :> [I("BLLOW") EXCEPT !.imm = 14]) @@ PushPop,
   T2A |-> (32 :> [I("BLHIGH") EXCEPT !.imm = 1]) @@ (34 :> [I("BLXLOW") EXCEPT !.imm = 7])
           @@ (64 :> ReturnArm),
   T2P |-> (34 :> [I("TBLX") EXCEPT !.rm = 2]) @@ PushPop]
Called == [A2A |-> 36, A2T |-> 36, T2T |-> 36, T2A |-> 36, T2P |-> 36]

\* store register 0 at register 1 with an offset, load it again from register 3
Access(op, d, n, p, u, w) == [I(op) EXCEPT !.rd = d, !.rn = n, !.imm = 4, !.p = p, !.u = u, !.w = w]
Both(st, ld, p, u, w) == (0 :> Access(st, 0, 1, p, u, w)) @@ (4 :> Access(ld, 2, 3, p, u, w))
Memory == [STR  |-> Both("STR", "LDR", TRUE, TRUE, FALSE), STRW |-> Both("STR", "LDR", TRUE, FALSE, TRUE),
           STRB |-> Both("STRB", "LDRB", FALSE, TRUE, FALSE), STRH |-> Both("STRH", "LDRH", TRUE, TRUE, TRUE),
           STRSB |-> Both("STRB", "LDRSB", TRUE, TRUE, FALSE), STRSH |-> Both("STRH", "LDRSH", FALSE, FALSE, FALSE)]
Width == [STR |-> 4, STRW |-> 4, STRB |-> 1, STRH |-> 2, STRSB |-> 1, STRSH |-> 2]
Moves == [STR |-> <<4, 0>>, STRW |-> <<-4, -4>>, STRB |-> <<0, 4>>, STRH |-> <<4, 4>>,
          STRSB |-> <<4, 0>>, STRSH |-> <<0, -4>>]   \* address, base after

\* a word of the literal pool, from the two halves of a word of code
Literal == [LIT |-> (4 :> [I("LDR3") EXCEPT !.rd = 0, !.imm = 2])
                    @@ (6 :> [I("LDR3") EXCEPT !.rd = 1, !.imm = 2])]

Saturating == [SSAT |-> 0 :> [I("SSAT") EXCEPT !.rd = 0, !.rm = 1, !.sat = 4],
               USAT |-> 0 :> [I("USAT") EXCEPT !.rd = 0, !.rm = 1, !.sat = 4],
               UQSUB8 |-> 0 :> [I("UQSUB8") EXCEPT !.rd = 0, !.rn = 1, !.rm = 2]]

\* a pair of registers goes to a double register, is pushed with an odd word count
\* (FSTMX), overwritten, popped (FLDMX) and comes back, as does the FPSCR
FBlock(op, p, u) == [I(op) EXCEPT !.rn = SP, !.rd = 2, !.imm = 3, !.x = 1, !.p = p, !.u = u, !.w = TRUE]
FMove(op, m) == [I(op) EXCEPT !.rd = 0, !.rn = 1, !.rm = m]
Floats == [VFP |-> (0 :> FMove("FMDRR", 1)) @@ (4 :> FBlock("VSTM", TRUE, FALSE))
                   @@ (8 :> [I("FMSR") EXCEPT !.rn = 2, !.rd = 3])
                   @@ (12 :> [I("FMDHR") EXCEPT !.rn = 2, !.rd = 3])
                   @@ (16 :> FBlock("VLDM", FALSE, TRUE)) @@ (20 :> Clear(0)) @@ (24 :> Clear(1))
                   @@ (28 :> FMove("FMRDD", 1)) @@ (32 :> [I("FMXR") EXCEPT !.rd = 2])
                   @@ (36 :> [I("FMRX") EXCEPT !.rd = PC]) @@ (40 :> [I("FMRX") EXCEPT !.rd = 3])]

\* The rest of the instruction set, one instruction at a time: register 0 is Rd, 1 Rn, 2 Rm and 3 Rs,
\* and where an operand can be shifted or rotated, it is.
LogicOps == {"MVN", "BIC", "EOR", "AND", "ORR", "TEQ", "TST"}
Halves == [SMULBB |-> <<0, 0>>, SMULTB |-> <<1, 0>>, SMULBT |-> <<0, 1>>, SMULTT |-> <<1, 1>>,
           SMLABB |-> <<0, 0>>, SMLATB |-> <<1, 0>>, SMLABT |-> <<0, 1>>, SMLATT |-> <<1, 1>>]
MediaOps == {"UADD8", "UQADD8", "UHADD8", "SSUB8", "USUB8", "QSUB8", "SEL", "CLZ", "UXTB16", "UXTB", "SXTB",
             "UXTAB", "SXTAB", "UXTAH", "SXTAH", "PKHBT", "PKHTB", "REV", "REV16"}
MoveOps == {"LDRD", "STRD", "B", "LDREX", "STREX", "CLREX", "PLD", "VLDR", "VSTR", "FMRS", "MRC", "MCR"}
Others == LogicOps \union DOMAIN Halves \union MediaOps \union MoveOps \union {"MUL", "MLA", "PKHTBW"}
Single ==
  [p \in Others |->
     LET op == IF p = "PKHTBW" THEN "PKHTB" ELSE IF p \notin DOMAIN Halves THEN p
               ELSE IF p \in {"SMULBB", "SMULTB", "SMULBT", "SMULTT"} THEN "SMULXX" ELSE "SMLAXX"
         double == p \in {"LDRD", "STRD"}
     IN  0 :> [I(op) EXCEPT
                 !.rd = 0, !.rn = IF double THEN 3 ELSE 1, !.rm = 2, !.rs = 3, !.cp = "Control",
                 !.imm = IF p \in LogicOps THEN 1 ELSE IF p = "PKHTBW" THEN 0 ELSE 4,
                 !.rot = IF p \in MediaOps THEN 1 ELSE 0, !.s = p \in LogicOps \union {"MUL", "MLA"},
                 !.enc = IF p \in LogicOps THEN "ShiftByImm" ELSE "Imm", !.shift = "LSR", !.u = TRUE, !.p = double,
                 !.x = IF p \in DOMAIN Halves THEN Halves[p][1] ELSE 0,
                 !.y = IF p \in DOMAIN Halves THEN Halves[p][2] ELSE 0,
                 !.cond = IF p \in {"CLREX", "PLD"} THEN "AL" ELSE "NE"]]

ThumbLogic == {"AND", "BIC", "TST", "ORR", "EOR", "MVN"}
ThumbShifts == [LSL1 |-> "LSL", LSR1 |-> "LSR", ASR1 |-> "ASR", LSL2 |-> "LSL", LSR2 |-> "LSR", ROR |-> "ROR"]
ThumbSums == {"ADC", "SBC", "CMP", "CMP1", "ADD1", "SUB1", "ADD2", "SUB2", "ADD3", "SUB3", "NEG"}
ThumbMoves == {"ADD4", "MOV3", "ADD5", "ADD6", "ADD7", "SUB4", "REV", "SXTB", "UXTB", "SXTH", "UXTH", "MUL", "B1", "B2"}
ThumbMemory == {"STMIA", "LDMIA", "LDR1", "STR1", "LDRB1", "STRB1", "LDRH1", "STRH1", "LDR4", "STR3",
                "LDR2", "STR2", "LDRB2", "STRB2", "LDRSB", "LDRSH", "LDRH2", "STRH2"}
ThumbOps == ThumbLogic \union DOMAIN ThumbShifts \union ThumbSums \union ThumbMoves \union ThumbMemory
ThumbOf(op) == "T" \o op
ThumbSingle == [p \in {ThumbOf(op) : op \in ThumbOps} |->
                  LET op == CHOOSE o \in ThumbOps : p = ThumbOf(o)
                  IN  0 :> [I(op) EXCEPT !.rd = 0, !.rn = 1, !.rm = 2, !.imm = 1, !.list = {1, 3}, !.cond = "NE"]]

\* increment the word at register 3 with LDREX and STREX until the store succeeds; the
\* second program then makes system calls, one of them between LDREX and STREX
Loop == (0 :> [I("LDREX") EXCEPT !.rd = 0, !.rn = 3])
       @@ (4 :> I("PLD"))
       @@ (8 :> [I("ADD") EXCEPT !.rd = 0, !.rn = 0, !.imm = 1])
       @@ (12 :> [I("STREX") EXCEPT !.rd = 1, !.rm = 0, !.rn = 3])
       @@ (16 :> [I("CMP") EXCEPT !.rn = 1, !.imm = 0])
       @@ (20 :> [I("B") EXCEPT !.cond = "NE", !.imm = -7])
Increments == [INC |-> Loop, INCSWI |-> (24 :> I("SWI")) @@ (28 :> Loop[0]) @@ (32 :> Loop[8]) @@ (36 :> I("SWI"))
               @@ (40 :> Loop[12]) @@ Loop]
Thread(font, n) == [Base EXCEPT !.reg[3] = 32, !.font = font, !.i = n]

MCPrograms == Wide @@ Mul @@ Cmp @@ Shifts @@ Stacks @@ Calls @@ Memory @@ Literal @@ Saturating @@ Floats @@ Increments
              @@ Single @@ ThumbSingle

MCStart(p) ==
  CASE p \in DOMAIN Wide \union MulOps -> {Regs(a, b, c, d) : a, b, c, d \in Few}
    [] p \in CmpOps -> {Regs(a, b, 0, 0) : a, b \in Corner}
    [] p \in ShiftModes -> {[Regs(0, a, n, 0) EXCEPT !.c = c] :
                              a \in Corner, n \in {0, 1, 3, 7, 8, 9, 16, 63}, c \in {0, 1}}
    [] p \in DOMAIN Stacks -> {[Regs(a, 0, b, 255) EXCEPT !.reg[SP] = 24] : a, b \in Few}
    [] p \in DOMAIN Calls -> {[Regs(a, b, 65, 0) EXCEPT !.reg[SP] = 24, !.reg[LR] = 9,
                                 !.reg[PC] = IF p = "T2P" THEN 34 ELSE 32,
                                 !.thumb = Bool(p \notin {"A2A", "A2T"})] : a, b \in Few}
    [] p \in DOMAIN Memory -> {Regs(a, b, 0, b) : a \in Corner, b \in {8, 12, 13, 250}}
    [] p \in DOMAIN Floats -> {[Regs(a, b, a, 255) EXCEPT !.reg[SP] = 24] : a, b \in Few}
    [] p \in DOMAIN Literal -> {[Base EXCEPT !.thumb = 1, !.reg[PC] = 4]}
    [] p \in DOMAIN Saturating -> {Regs(0, a, b, 0) : a, b \in Corner}
    [] p \in Others \ MoveOps ->
         {[Regs(7, a, b, d) EXCEPT !.z = z, !.c = 1, !.ge = g] :
            a, b \in Few \union {5, 90}, d \in {3, 130}, z \in {0, 1},
            g \in IF p = "SEL" THEN {[k \in 0..3 |-> k % 2], [k \in 0..3 |-> Bool(k > 1)]} ELSE {Base.ge}}
    [] p \in MoveOps -> {[Regs(a, 8, b, 12) EXCEPT !.z = z, !.monitor = m, !.fp = [f \in 0..5 |-> 40 * f + 5]] :
                           a, b \in Few, z \in {0, 1}, m \in {{}, {8}}}
    [] p \in {ThumbOf(op) : op \in ThumbMemory} ->
         {[Regs(a, 8, b, d) EXCEPT !.thumb = 1, !.reg[SP] = 8] : a, b \in {4, 9}, d \in {0, 255}}
    [] OTHER -> {[Regs(a, 8, b, 0) EXCEPT !.thumb = 1, !.reg[SP] = 8, !.z = z, !.c = c] :
                   a, b \in Few, z, c \in {0, 1}}
MCStarts == [p \in DOMAIN MCPrograms |->
  IF p \in DOMAIN Increments
  THEN {<<Thread(f, n), Thread(FALSE, m), Thread(FALSE, k)>> :
          f \in BOOLEAN, n, m, k \in 0..(SliceLength - 1)}
  ELSE {<<c>> : c \in MCStart(p)}]

(***************************************************************************)
(* Reference definitions and properties.                                   *)
(***************************************************************************)
Ended(programs) == prog \in programs /\ ctx.reg[PC] \notin DOMAIN Programs[prog]
S(x) == Signed(x, Mod)
First == Head(start)
A == First.reg[0]
B == First.reg[1]
C == First.reg[2]
D == First.reg[3]

\* Every handler leaves 32-bit registers (scaled to the width of the model), flags and memory
\* cells of their types, whatever operands it is given.
TypeOK == /\ ctx.reg \in [Register -> 0..(Mod - 1)]
          /\ {ctx.n, ctx.z, ctx.c, ctx.v, ctx.q, ctx.thumb} \subseteq {0, 1}
          /\ ctx.mem \in [0..(DataBytes - 1) -> 0..(Byte - 1)]

\* After CMP every condition code says of the two operands what its name says, and
\* after CMN of the operand and the negated other: the flags of UpdateCPSR_C_FromBorrow
\* and UpdateCPSR_V_FromSub are the ones EvalCond reads.
CompareAgrees ==
  /\ Ended({"CMP"}) =>
       \A x \in {<<"EQ", A = B>>, <<"NE", A # B>>, <<"CS", A >= B>>, <<"CC", A < B>>,
                  <<"HI", A > B>>, <<"LS", A <= B>>, <<"GE", S(A) >= S(B)>>,
                  <<"LT", S(A) < S(B)>>, <<"GT", S(A) > S(B)>>, <<"LE", S(A) <= S(B)>>} :
         EvalCond(ctx, x[1]) <=> x[2]
  /\ Ended({"CMN"}) =>
       /\ EvalCond(ctx, "EQ") <=> Word(A + B) = 0
       /\ EvalCond(ctx, "CS") <=> A + B >= Mod
       /\ EvalCond(ctx, "LT") <=> S(A) + S(B) < 0

\* Sums, differences and products of two words, computed by ADDS and ADCS, SUBS and
\* SBCS, RSBS and RSCS or a long multiplication, are those of the integers modulo
\* two words: the carry one instruction leaves is the carry the next one takes.
WideArithmetic ==
  LET Two(x) == x % (Mod * Mod)
      one == A + Mod * B
      other == C + Mod * D
      result == ctx.reg[0] + Mod * ctx.reg[1]
  IN /\ Ended({"ADD2"}) => result = Two(A + Mod * B + C + Mod * D)
     /\ Ended({"SUB2"}) => result = Two(one - other) /\ (ctx.c = 1 <=> one >= other)
     /\ Ended({"RSB2"}) => result = Two(other - one) /\ (ctx.c = 1 <=> other >= one)
     /\ Ended({"UMULL"}) => result = C * D
     /\ Ended({"UMLAL"}) => result = Two(C * D + one)
     /\ Ended({"SMULL"}) => result = Two(S(C) * S(D))
     /\ Ended({"SMLAL"}) => result = Two(S(C) * S(D) + one)
     /\ Ended({"UMAAL"}) => result = C * D + A + B

\* one bit of a shift: the new value and the bit that falls out
OneBit(mode, x) ==
  CASE mode = "LSL" -> <<Word(2 * x), Msb(x)>>
    [] mode = "LSR" -> <<x \div 2, x % 2>>
    [] mode = "ASR" -> <<(x \div 2) + Msb(x) * 2^(WordBits - 1), x % 2>>
    [] mode = "ROR" -> <<(x \div 2) + (x % 2) * 2^(WordBits - 1), x % 2>>
RECURSIVE BitByBit(_, _, _)
BitByBit(mode, x, n) == IF n = 0 THEN <<x, First.c>> ELSE OneBit(mode, BitByBit(mode, x, n - 1)[1])

\* A shift by a register, whatever the amount in its low byte, is that many shifts by
\* one bit, and the carry is the last bit that falls out (or unchanged if none does).
ShiftReference ==
  Ended(ShiftModes) => /\ <<ctx.reg[0], ctx.c>> = BitByBit(prog, B, C)
                       /\ ctx.z = Bool(ctx.reg[0] = 0) /\ ctx.n = Msb(ctx.reg[0])

\* What STM pushes the LDM of the opposite direction and order pops, in all four
\* addressing modes: the registers and the stack pointer come back, the registers lie
\* in memory in ascending order without gaps, and no other byte changes.
StackRoundTrip ==
  Ended(DOMAIN Stacks) =>
    LET first == CASE prog = "IA" -> 24 [] prog = "IB" -> 28 [] prog = "DA" -> 16 [] prog = "DB" -> 12
    IN /\ ctx.reg = [First.reg EXCEPT ![PC] = 20]
       /\ \A k \in 0..2 : Read(ctx, first + 4 * k, 4) = First.reg[<<0, 2, 3>>[k + 1]]
       /\ \A a \in DOMAIN ctx.mem \ (first..(first + 11)) : ctx.mem[a] = First.mem[a]

\* A call returns to the instruction after it, in the instruction set of the caller:
\* BL, BLX and the two halves of a Thumb BL link an address whose lowest bit is the
\* caller's state, which BX or a POP into the PC restores along with the registers.
CallReturns ==
  Ended(DOMAIN Calls) =>
    /\ ctx.reg[PC] = Called[prog]
    /\ ctx.thumb = First.thumb
    /\ \A r \in {0, 1, SP} : ctx.reg[r] = First.reg[r]

\* A store followed by the load of the same mode yields the register cut to the access
\* width (and extended with its sign), updates both bases alike and writes the
\* addressed bytes only.
StoreLoad ==
  Ended(DOMAIN Memory) /\ ~ctx.stub =>
    LET n == Width[prog]
        at == B + Moves[prog][1]
        cut == A % Byte^n
    IN /\ ctx.reg[2] = IF prog \in {"STRSB", "STRSH"} THEN Word(Signed(A, Byte^n)) ELSE cut
       /\ ctx.reg[1] = B + Moves[prog][2] /\ ctx.reg[3] = ctx.reg[1] /\ ctx.reg[0] = A
       /\ \A a \in DOMAIN ctx.mem : a \notin at..(at + n - 1) => ctx.mem[a] = First.mem[a]

\* Two Thumb LDR (3) in the two halves of one word of code with the same offset load
\* the same literal, the word at the aligned PC plus four.
LiteralLoad ==
  Ended({"LIT"}) => ctx.reg[0] = Read(First, 16, 4) /\ ctx.reg[1] = ctx.reg[0]

\* SSAT and USAT yield the nearest value of their range and set Q exactly when they had
\* to clamp; UQSUB8 subtracts each byte and stops at zero, without a borrow from the
\* byte beside it.
Saturates ==
  /\ Ended({"SSAT"}) => /\ S(ctx.reg[0]) = (IF S(B) < -16 THEN -16 ELSE IF S(B) > 15 THEN 15 ELSE S(B))
                        /\ ctx.q = 1 <=> S(B) \notin -16..15
  /\ Ended({"USAT"}) => /\ ctx.reg[0] = (IF S(B) < 0 THEN 0 ELSE IF S(B) > 15 THEN 15 ELSE S(B))
                        /\ ctx.q = 1 <=> S(B) \notin 0..15
  /\ Ended({"UQSUB8"}) => \A k \in 0..3 : Lane(ctx.reg[0], k)
                            = (IF Lane(B, k) >= Lane(C, k) THEN Lane(B, k) - Lane(C, k) ELSE 0)

\* Doubles pushed with FSTMX and popped with FLDMX come back although the base moves by
\* one word more than is accessed; the words of a pair keep their order between core and
\* VFP registers, and FMSTAT sets each flag from its own bit of the FPSCR.
FloatRoundTrip ==
  Ended(DOMAIN Floats) =>
    /\ <<ctx.reg[0], ctx.reg[1], ctx.reg[3], ctx.reg[SP]>> = <<A, B, C, 24>>
    /\ <<ctx.fp[2], ctx.fp[3], ctx.fp[4]>> = <<A, B, 0>>
    /\ 8 * ctx.n + 4 * ctx.z + 2 * ctx.c + ctx.v = C \div 2^(WordBits - 4)
    /\ \A a \in DOMAIN ctx.mem \ (12..19) : ctx.mem[a] = First.mem[a]

\* The handlers of sums, differences, products, shifts, comparisons and saturations
\* compute what the integers do: what one leaves in the flags the next one reads.
ArithmeticRight == CompareAgrees /\ WideArithmetic /\ ShiftReference /\ Saturates

\* What the stores of every width and kind, of words, blocks and floating-point registers,
\* put into memory the loads of the same kind get back.
MemoryRight == StackRoundTrip /\ StoreLoad /\ LiteralLoad /\ FloatRoundTrip

(***************************************************************************)
(* The rest of the instruction set: the whole context that an instruction  *)
(* must leave, of the one it finds.                                        *)
(***************************************************************************)
Sets == INSTANCE FiniteSetsExt
To(r, v) == [First EXCEPT !.reg[r] = Word(v)]
NZ(w, v) == [w EXCEPT !.n = Bool(S(v) < 0), !.z = Bool(Word(v) = 0)]
Bit(x, k) == (x \div 2^k) % 2 = 1
Bitwise2(Op(_, _), x, y) == Sets!MapThenSumSet(LAMBDA k : IF Op(Bit(x, k), Bit(y, k)) THEN 2^k ELSE 0, 0..(WordBits - 1))
LogicOf(op, x, y) ==
  CASE op = "MVN" -> Bitwise2(LAMBDA p, q : ~q, x, y)
    [] op = "BIC" -> Bitwise2(LAMBDA p, q : p /\ ~q, x, y)
    [] op \in {"EOR", "TEQ"} -> Bitwise2(LAMBDA p, q : p # q, x, y)
    [] op \in {"AND", "TST"} -> Bitwise2(LAMBDA p, q : p /\ q, x, y)
    [] op = "ORR" -> Bitwise2(LAMBDA p, q : p \/ q, x, y)
\* a sum with a carry, and a difference as the sum with the inverted word
AddWithCarry(w, x, y, carry) ==
  LET sum == x + y + carry
  IN  [NZ(w, sum) EXCEPT !.c = Bool(sum >= Mod), !.v = Bool(S(x) + S(y) + carry \notin -(Mod \div 2)..(Mod \div 2 - 1))]
SumTo(r, x, y, carry) == AddWithCarry(To(r, x + y + carry), x, y, carry)
FourLanes(f(_)) == Sets!MapThenSumSet(LAMBDA k : (f(k) % Byte) * Byte^k, 0..3)
Clamped(x, lo, hi) == Sets!Max({lo, Sets!Min({x, hi})})
Ge(w, f(_)) == [w EXCEPT !.ge = [k \in 0..3 |-> Bool(f(k))]]

MultiplyOf ==
  LET half(x, top) == IF top = 1 THEN Signed(x \div Half, Half) ELSE Signed(x % Half, Half)
      product == half(C, Halves[prog][1]) * half(D, Halves[prog][2])
  IN  CASE prog = "MUL" -> NZ(To(1, C * D), C * D)
        [] prog = "MLA" -> NZ(To(1, C * D + A), C * D + A)
        [] prog \in {"SMULBB", "SMULTB", "SMULBT", "SMULTT"} -> To(1, product)
        [] OTHER -> [To(1, product + A) EXCEPT !.q = Bool(product + S(A) \notin -(Mod \div 2)..(Mod \div 2 - 1))]

MediaOf ==
  LET b(k) == Lane(B, k)
      c(k) == Lane(C, k)
      signed(x) == Signed(x, Byte)
      rotated(k) == Lane(C, (k + 1) % 4)
      half == rotated(0) + Byte * rotated(1)
  IN  CASE prog = "UADD8" -> Ge(To(0, FourLanes(LAMBDA k : b(k) + c(k))), LAMBDA k : b(k) + c(k) >= Byte)
        [] prog = "UQADD8" -> To(0, FourLanes(LAMBDA k : Clamped(b(k) + c(k), 0, Byte - 1)))
        [] prog = "UHADD8" -> To(0, FourLanes(LAMBDA k : (b(k) + c(k)) \div 2))
        [] prog = "SSUB8" -> Ge(To(0, FourLanes(LAMBDA k : b(k) - c(k))), LAMBDA k : signed(b(k)) >= signed(c(k)))
        [] prog = "USUB8" -> Ge(To(0, FourLanes(LAMBDA k : b(k) - c(k))), LAMBDA k : b(k) >= c(k))
        [] prog = "QSUB8" -> To(0, FourLanes(LAMBDA k : Clamped(signed(b(k)) - signed(c(k)), -(Byte \div 2), Byte \div 2 - 1)))
        [] prog = "SEL" -> To(0, FourLanes(LAMBDA k : IF First.ge[k] = 1 THEN b(k) ELSE c(k)))
        [] prog = "CLZ" -> To(0, Cardinality({k \in 0..(WordBits - 1) : \A j \in k..(WordBits - 1) : ~Bit(C, j)}))
        [] prog = "UXTB16" -> To(0, rotated(0) + Half * rotated(2))
        [] prog = "UXTB" -> To(0, rotated(0))
        [] prog = "SXTB" -> To(0, signed(rotated(0)))
        [] prog = "UXTAB" -> To(0, B + rotated(0))
        [] prog = "SXTAB" -> To(0, B + signed(rotated(0)))
        [] prog = "UXTAH" -> To(0, B + half)
        [] prog = "SXTAH" -> To(0, B + Signed(half, Half))
        [] prog = "PKHBT" -> To(0, (B % Half) + Half * ((Word(C * 2^4)) \div Half))
        [] prog = "PKHTB" -> To(0, Half * (B \div Half) + ((S(C) \div 2^4) % Half))
        [] prog = "PKHTBW" -> To(0, Half * (B \div Half) + ((S(C) \div Mod) % Half))
        [] prog = "REV" -> To(0, FourLanes(LAMBDA k : c(3 - k)))
        [] prog = "REV16" -> To(0, FourLanes(LAMBDA k : c(<<1, 0, 3, 2>>[k + 1])))

MoveOf ==
  CASE prog = "LDRD" -> [To(0, Read(First, 16, 4)) EXCEPT !.reg[1] = Read(First, 20, 4)]
    [] prog = "STRD" -> Write(Write(First, 16, 4, A), 20, 4, B)
    [] prog = "B" -> To(PC, 20)     \* before it counts as the next instruction
    [] prog = "LDREX" -> [To(0, Read(First, 8, 4)) EXCEPT !.monitor = {8}]
    [] prog = "STREX" -> IF First.monitor = {} THEN [To(0, 1) EXCEPT !.fails = 1]
                         ELSE [Write(To(0, 0), 8, 4, C) EXCEPT !.monitor = {}]
    [] prog = "CLREX" -> [First EXCEPT !.monitor = {}]
    [] prog = "PLD" -> First
    [] prog = "VLDR" -> [First EXCEPT !.fp[0] = Read(First, 24, 4)]
    [] prog = "VSTR" -> Write(First, 24, 4, First.fp[0])
    [] prog = "FMRS" -> To(0, First.fp[1])
    [] prog = "MRC" -> To(0, First.cp15.Control)
    [] prog = "MCR" -> [First EXCEPT !.cp15.Control = A]

ThumbMovesOf(op) ==
  CASE op = "ADD4" -> To(0, A + C)
    [] op = "MOV3" -> To(0, C)
    [] op = "ADD5" -> To(0, 8)                       \* the PC is 0 and reads as 4
    [] op = "ADD6" -> To(0, First.reg[SP] + 4)
    [] op = "ADD7" -> To(SP, First.reg[SP] + 4)
    [] op = "SUB4" -> To(SP, First.reg[SP] - 4)
    [] op = "REV" -> To(0, FourLanes(LAMBDA k : Lane(C, 3 - k)))
    [] op = "SXTB" -> To(0, Signed(C, Byte))
    [] op = "UXTB" -> To(0, C % Byte)
    [] op = "SXTH" -> To(0, Signed(C, Half))
    [] op = "UXTH" -> To(0, C % Half)
    [] op = "MUL" -> NZ(To(0, A * C), A * C)
    [] op = "B1" -> To(PC, IF First.z = 0 THEN 4 ELSE 0)
    [] op = "B2" -> To(PC, 4)

ThumbMemoryOf(op) ==
  LET sp == First.reg[SP]
  IN  CASE op = "STMIA" -> Write(Write(To(0, A + 8), A, 4, B), A + 4, 4, D)
        [] op = "LDMIA" -> [To(0, A + 8) EXCEPT !.reg[1] = Read(First, A, 4), !.reg[3] = Read(First, A + 4, 4)]
        [] op = "LDR1" -> To(0, Read(First, C + 4, 4))  [] op = "STR1" -> Write(First, C + 4, 4, A)
        [] op = "LDRB1" -> To(0, Read(First, C + 1, 1)) [] op = "STRB1" -> Write(First, C + 1, 1, A)
        [] op = "LDRH1" -> To(0, Read(First, C + 2, 2)) [] op = "STRH1" -> Write(First, C + 2, 2, A)
        [] op = "LDR4" -> To(0, Read(First, sp + 4, 4)) [] op = "STR3" -> Write(First, sp + 4, 4, A)
        [] op = "LDR2" -> To(0, Read(First, C + B, 4))  [] op = "STR2" -> Write(First, C + B, 4, A)
        [] op = "LDRB2" -> To(0, Read(First, C + B, 1)) [] op = "STRB2" -> Write(First, C + B, 1, A)
        [] op = "LDRH2" -> To(0, Read(First, C + B, 2)) [] op = "STRH2" -> Write(First, C + B, 2, A)
        [] op = "LDRSB" -> To(0, Signed(Read(First, C + B, 1), Byte))
        [] op = "LDRSH" -> To(0, Signed(Read(First, C + B, 2), Half))

ThumbSumsOf(op) ==
  CASE op = "ADC" -> SumTo(0, A, C, First.c)
    [] op = "SBC" -> SumTo(0, A, Inv(C), First.c)
    [] op = "CMP" -> AddWithCarry(First, A, Inv(C), 1)
    [] op = "CMP1" -> AddWithCarry(First, A, Inv(1), 1)
    [] op = "ADD1" -> SumTo(0, C, 1, 0)
    [] op = "SUB1" -> SumTo(0, C, Inv(1), 1)
    [] op = "ADD2" -> SumTo(0, A, 1, 0)
    [] op = "SUB2" -> SumTo(0, A, Inv(1), 1)
    [] op = "ADD3" -> SumTo(0, C, B, 0)
    [] op = "SUB3" -> SumTo(0, C, Inv(B), 1)
    [] op = "NEG" -> SumTo(0, 0, Inv(C), 1)

ThumbResult(op) ==
  CASE op \in ThumbLogic ->
         LET v == LogicOf(op, A, C) IN NZ(IF op = "TST" THEN First ELSE To(0, v), v)
    [] op \in DOMAIN ThumbShifts ->
         LET immediate == op \in {"LSL1", "LSR1", "ASR1"}
             v == IF immediate THEN BitByBit(ThumbShifts[op], C, 1) ELSE BitByBit(ThumbShifts[op], A, C % 64)
         IN  [NZ(To(0, v[1]), v[1]) EXCEPT !.c = v[2]]
    [] op \in ThumbSums -> ThumbSumsOf(op)
    [] op \in ThumbMoves -> ThumbMovesOf(op)
    [] op \in ThumbMemory -> ThumbMemoryOf(op)

\* Where the handlers do not do what the architecture says (HandlerSmulxx, HandlerSmlaxx: a top half of
\* the second operand is the word shifted by one bit; HandlerUadd8, HandlerUhadd8 and HandlerXsub8: lanes
\* above the lowest are cut; HandlerXsub8: every comparison sets GE0; HandlerUqadd8, HandlerQsub8: wrong
\* bound; HandlerPkhtb: a shifted sign is not cut to the half word).
Deviating == {"SMULBT", "SMULTT", "SMLABT", "SMLATT", "UADD8", "UHADD8", "SSUB8", "USUB8", "UQADD8", "QSUB8", "PKHTB"}

\* Each instruction of the rest leaves the registers, flags, memory and monitor that the architecture
\* says, and no other part of the context changes; without its condition it does nothing.
OthersRight ==
  /\ prog \in Others \union DOMAIN ThumbSingle => ~ctx.stub
  /\ Ended((Others \union DOMAIN ThumbSingle) \ Deviating) =>
    LET thumb == prog \in DOMAIN ThumbSingle
        done == CASE thumb -> ThumbResult(CHOOSE op \in ThumbOps : prog = ThumbOf(op))
                  [] ~thumb /\ prog \notin {"CLREX", "PLD"} /\ First.z = 1 -> First
                  [] prog \in LogicOps ->
                       LET v == LogicOf(prog, B, C \div 2)
                       IN  [NZ(IF prog \in {"TEQ", "TST"} THEN First ELSE To(0, v), v) EXCEPT !.c = C % 2]
                  [] prog \in DOMAIN Halves \union {"MUL", "MLA"} -> MultiplyOf
                  [] prog \in MediaOps \union {"PKHTBW"} -> MediaOf
                  [] OTHER -> MoveOf
    IN  ctx = [done EXCEPT !.reg[PC] = Word(@ + (IF thumb THEN 2 ELSE 4)), !.i = 1]

\* The handlers of the interpreter do to registers, flags and memory what the architecture says of
\* their instructions, for every program of this module except those of Deviating, whose handlers are
\* known to be wrong.  No program uses the PC as an operand of data processing or one register as
\* source and target of a packing.
InstructionsRight == TypeOK /\ ArithmeticRight /\ MemoryRight /\ OthersRight

AllEnded == ready = <<>> /\ ~Running
\* Three threads increment one word with LDREX and STREX while they are preempted at any
\* instruction: no increment is lost.  The monitor belongs to a thread and nobody else's
\* store clears it, so this rests on the resets at preemption and at system calls.  And a
\* thread repeats its loop at most once: a store is refused only after a preemption, and
\* what is left of a slice then holds a whole loop (no two threads starve each other).
NoLostUpdate ==
  /\ prog \in DOMAIN Increments /\ AllEnded =>
       Read(ctx, 32, 4) = Word(Read(First, 32, 4) + 3)
  /\ prog = "INC" => ctx.fails <= 1
=============================================================================
