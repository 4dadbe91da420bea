-------------------------------- MODULE Arm --------------------------------
(***************************************************************************)
(* The ARM interpreter (src/source/interpreter.cpp): the handlers of the   *)
(* instruction set as functions of an execution context, and one context   *)
(* that runs a program.  A word has WordBits bits, a power of two; bytes   *)
(* and half words keep their place in it (a quarter and a half).  An       *)
(* instruction is a decoded record: the bit patterns that select a handler *)
(* are left out, the fields it reads are kept.                             *)
(***************************************************************************)
EXTENDS Integers, Sequences, FiniteSets, Bitwise

CONSTANTS WordBits,     \* bits of a register
          DataBytes,    \* virtual addresses 0..DataBytes-1 are mapped data
          Programs,     \* name of a program -> address -> instruction
          Starts,       \* name of a program -> the sequences of contexts, one of
                        \* each thread, it starts in
          SliceLength   \* instructions before a thread is preempted (10000)

VARIABLES ctx,          \* the active InterpreterExecutionContext, with the memory
          ready,        \* the contexts of the other threads, as they are queued
          prog,         \* the program that the threads run
          start         \* the contexts the threads started in

vars == <<ctx, ready, prog, start>>

Mod      == 2^WordBits
Word(x)  == x % Mod
Half     == 2^(WordBits \div 2)
Byte     == 2^(WordBits \div 4)
Inv(x)   == Mod - 1 - x
Msb(x)   == x \div 2^(WordBits - 1)
Signed(x, m) == IF x % m >= m \div 2 THEN (x % m) - m ELSE x % m
Bool(b)  == IF b THEN 1 ELSE 0
Even(x)  == x - (x % 2)
\* a Thumb BL gives 12 bits of its offset in the second instruction: as much of
\* a word here
BLStep   == 2^(WordBits \div 2)

SP == 13
LR == 14
PC == 15
Register == {0, 1, 2, 3, SP, LR, PC}

(***************************************************************************)
(* Registers and flags.                                                    *)
(***************************************************************************)
FetchRegPlain(c, r) == c.reg[r]     \* mutant: no pipeline offset
FetchReg(c, r) == IF r = PC THEN Word(c.reg[PC] + 8) ELSE c.reg[r]
SetRegWide(c, r, v) == [c EXCEPT !.reg[r] = v]     \* mutant: no wrap
SetReg(c, r, v) == [c EXCEPT !.reg[r] = Word(v)]
NextInstr(c) == SetReg(c, PC, c.reg[PC] + 4)
LinkTwo(c) == SetReg(c, LR, c.reg[PC] + 8)     \* mutant: one instruction late
Link(c) == SetReg(c, LR, c.reg[PC] + 4)

\* an exception out of a handler: emulation ends in this instruction
HandlerStub(c) == [c EXCEPT !.stub = TRUE]

UpdateNZ(c, v) == [c EXCEPT !.n = Msb(v), !.z = Bool(v = 0)]

GetCarry(l, r, cin) == Bool(Msb(l) + Msb(r) > Msb(Word(l + r + cin)))
BorrowNoCarry(l, r, cin) == Bool(l >= r)     \* mutant: the carry is dropped
Borrow(l, r, cin) == Bool(~(l < r + (1 - cin)))
OverflowFromAdd(l, r, res) == Msb((Inv(l ^^ r) & (l ^^ res)) & (r ^^ res))
OverflowAsAdd(l, r, res) == OverflowFromAdd(l, r, res)     \* mutant
OverflowFromSub(l, r, res) == Msb((l ^^ r) & (l ^^ res))
OverflowFromSbc(l, r, res, cin) ==
  Bool(Signed(res, Mod) # Signed(l, Mod) + Signed(Inv(r), Mod) + cin)

EvalCond(c, cond) ==
  CASE cond = "AL" -> TRUE
    [] cond = "EQ" -> c.z = 1
    [] cond = "NE" -> c.z = 0
    [] cond = "CS" -> c.c = 1
    [] cond = "CC" -> c.c = 0
    [] cond = "MI" -> c.n = 1
    [] cond = "PL" -> c.n = 0
    [] cond = "VS" -> c.v = 1
    [] cond = "VC" -> c.v = 0
    [] cond = "HI" -> c.c = 1 /\ c.z = 0
    [] cond = "LS" -> c.c = 0 \/ c.z = 1
    [] cond = "GE" -> c.n = c.v
    [] cond = "LT" -> c.n # c.v
    [] cond = "GT" -> c.z = 0 /\ c.n = c.v
    [] cond = "LE" -> c.z = 1 \/ c.n # c.v

(***************************************************************************)
(* The shifter.                                                            *)
(***************************************************************************)
ShiftLeft(x, n)  == Word(x * 2^n)
ShiftRight(x, n) == x \div 2^n

RotateRight(x, n) ==
  IF n \in {0, WordBits} THEN x
                         ELSE ShiftRight(x, n) | ShiftLeft(x, WordBits - n)

LogicalShiftRight(x, n) == ShiftRight(x, n)     \* mutant: no sign bits
ArithmeticShiftRight(x, n) ==
  ShiftRight(x, n) | (Msb(x) * ShiftLeft(Mod - 1, WordBits - n))

\* the amount comes from the low byte of a register: eight word widths
CalcShifterOperand(x, amount, mode, carry) ==
  LET n == amount % (8 * WordBits)
      r == n % WordBits
  IN CASE mode = "LSL" ->
            [value |-> IF n < WordBits THEN ShiftLeft(x, n) ELSE 0,
             carry |-> IF n = 0 THEN carry
                       ELSE IF n <= WordBits THEN Msb(ShiftLeft(x, n - 1)) ELSE 0]
       [] mode = "LSR" ->
            [value |-> IF n < WordBits THEN ShiftRight(x, n) ELSE 0,
             carry |-> IF n = 0 THEN carry
                       ELSE IF n <= WordBits THEN ShiftRight(x, n - 1) % 2 ELSE 0]
       [] mode = "ASR" ->
            [value |-> IF n = 0 THEN x
                       ELSE IF n < WordBits THEN ArithmeticShiftRight(x, n)
                       ELSE (Mod - 1) * Msb(x),
             carry |-> IF n = 0 THEN carry
                       ELSE IF n < WordBits THEN ArithmeticShiftRight(x, n - 1) % 2
                       ELSE Msb(x)]
       [] mode = "ROR" ->
            [value |-> IF r = 0 THEN x ELSE RotateRight(x, r),
             carry |-> IF n = 0 THEN carry
                       ELSE IF r = 0 THEN Msb(x) ELSE RotateRight(x, r - 1) % 2]

CalcShifterOperandFromImmediate(x, n, mode, carry) ==
  CASE mode = "LSL" -> CalcShifterOperand(x, n, mode, carry)
    [] mode \in {"LSR", "ASR"} ->
         CalcShifterOperand(x, IF n = 0 THEN WordBits ELSE n, mode, carry)
    [] mode = "ROR" /\ n # 0 -> CalcShifterOperand(x, n, mode, carry)
    [] mode = "ROR" /\ n = 0 -> \* RRX: a rotation by one through the carry
         [value |-> ShiftLeft(carry, WordBits - 1) | ShiftRight(x, 1),
          carry |-> x % 2]

GetAddr1ShifterOperand(c, i) ==
  CASE i.enc = "Imm" ->
         LET v == RotateRight(i.imm, 2 * i.rot)
         IN [value |-> v, carry |-> IF i.rot # 0 THEN Msb(v) ELSE c.c]
    [] i.enc = "ShiftByImm" ->
         CalcShifterOperandFromImmediate(FetchReg(c, i.rm), i.imm, i.shift, c.c)
    [] i.enc = "ShiftByReg" ->
         CalcShifterOperand(FetchReg(c, i.rm), FetchReg(c, i.rs), i.shift, c.c)

(***************************************************************************)
(* Data processing.  Logical results set N, Z and the shifter's carry; sums*)
(* and differences set N, Z, C and V.                                      *)
(***************************************************************************)
Logical(c, i, v, so) ==
  IF i.rd = PC THEN HandlerStub(c)
  ELSE NextInstr(LET w == SetReg(c, i.rd, v)
                 IN IF i.s THEN [UpdateNZ(w, v) EXCEPT !.c = so.carry] ELSE w)

Sum(c, i, v, carry, overflow) ==
  IF i.rd = PC THEN HandlerStub(c)
  ELSE NextInstr(LET w == SetReg(c, i.rd, v)
                 IN IF i.s THEN [UpdateNZ(w, v) EXCEPT !.c = carry, !.v = overflow]
                           ELSE w)

\* MOV and ADD may write the PC, which is a branch
Branching(c, i, v, done) ==
  IF i.rd # PC THEN done
  ELSE IF i.s THEN HandlerStub(c) ELSE SetReg(c, PC, v)

HandlerMov(c, i) == LET so == GetAddr1ShifterOperand(c, i)
                    IN Branching(c, i, so.value, Logical(c, i, so.value, so))
HandlerMvn(c, i) == LET so == GetAddr1ShifterOperand(c, i)
                    IN Logical(c, i, Inv(so.value), so)
HandlerBic(c, i) == LET so == GetAddr1ShifterOperand(c, i)
                    IN Logical(c, i, c.reg[i.rn] & Inv(so.value), so)
HandlerEor(c, i) == LET so == GetAddr1ShifterOperand(c, i)
                    IN Logical(c, i, c.reg[i.rn] ^^ so.value, so)
HandlerAnd(c, i) == LET so == GetAddr1ShifterOperand(c, i)
                    IN Logical(c, i, FetchReg(c, i.rn) & so.value, so)
HandlerOrr(c, i) == LET so == GetAddr1ShifterOperand(c, i)
                    IN Logical(c, i, FetchReg(c, i.rn) | so.value, so)
Flags(c, i, v, so) ==
  IF i.rd = PC THEN HandlerStub(c)
  ELSE NextInstr([UpdateNZ(c, v) EXCEPT !.c = so.carry])
HandlerTeq(c, i) == LET so == GetAddr1ShifterOperand(c, i)
                    IN Flags(c, i, FetchReg(c, i.rn) ^^ so.value, so)
HandlerTst(c, i) == LET so == GetAddr1ShifterOperand(c, i)
                    IN Flags(c, i, FetchReg(c, i.rn) & so.value, so)

HandlerAdd(c, i) ==
  LET so == GetAddr1ShifterOperand(c, i).value  rn == FetchReg(c, i.rn)
      v == Word(rn + so)
  IN Branching(c, i, v,
       Sum(c, i, v, GetCarry(rn, so, 0), OverflowFromAdd(rn, so, v)))
HandlerAdc(c, i) ==
  LET so == GetAddr1ShifterOperand(c, i).value  rn == FetchReg(c, i.rn)
      v == Word(rn + so + c.c)
  IN Sum(c, i, v, GetCarry(rn, so, c.c), OverflowFromAdd(rn, so, v))
HandlerSub(c, i) ==
  LET so == GetAddr1ShifterOperand(c, i).value  rn == FetchReg(c, i.rn)
      v == Word(rn - so)
  IN Sum(c, i, v, Borrow(rn, so, 1), OverflowFromSub(rn, so, v))
HandlerRsb(c, i) ==
  LET so == GetAddr1ShifterOperand(c, i).value  rn == FetchReg(c, i.rn)
      v == Word(so - rn)
  IN Sum(c, i, v, Borrow(so, rn, 1), OverflowFromSub(so, rn, v))
HandlerSbc(c, i) ==
  LET so == GetAddr1ShifterOperand(c, i).value  rn == FetchReg(c, i.rn)
      v == Word(rn - so - (1 - c.c))
  IN Sum(c, i, v, Borrow(rn, so, c.c), OverflowFromSbc(rn, so, v, c.c))
HandlerRsc(c, i) ==
  LET so == GetAddr1ShifterOperand(c, i).value  rn == FetchReg(c, i.rn)
      v == Word(so - rn - (1 - c.c))
  IN Sum(c, i, v, Borrow(so, rn, c.c), OverflowFromSbc(so, rn, v, c.c))

HandlerCmp(c, i) ==
  LET so == GetAddr1ShifterOperand(c, i).value  rn == c.reg[i.rn]
      v == Word(rn - so)
  IN NextInstr([UpdateNZ(c, v) EXCEPT !.c = Borrow(rn, so, 1),
                                      !.v = OverflowFromSub(rn, so, v)])
HandlerCmn(c, i) ==
  LET so == GetAddr1ShifterOperand(c, i).value  rn == c.reg[i.rn]
      v == Word(rn + so)
  IN NextInstr([UpdateNZ(c, v) EXCEPT !.c = GetCarry(rn, so, 0),
                                      !.v = OverflowFromAdd(rn, so, v)])

(***************************************************************************)
(* Multiplication.  The results are in Rn, or in Rn:Rd for the long forms. *)
(***************************************************************************)
UsesPC(i, fields) == PC \in {i[f] : f \in fields}

HandlerMul(c, i) ==
  LET v == Word(FetchReg(c, i.rm) * FetchReg(c, i.rs))
      w == SetReg(c, i.rn, v)
  IN IF i.rd = PC THEN HandlerStub(c)
     ELSE NextInstr(IF i.s THEN UpdateNZ(w, v) ELSE w)
HandlerMla(c, i) ==
  LET v == Word(FetchReg(c, i.rm) * FetchReg(c, i.rs) + FetchReg(c, i.rd))
      w == SetReg(c, i.rn, v)
  IN IF i.rd = PC THEN HandlerStub(c)
     ELSE NextInstr(IF i.s THEN UpdateNZ(w, v) ELSE w)

\* result is taken modulo two words, as a uint64_t
Long(c, i, result) ==
  LET r == result % (Mod * Mod)
      w == SetReg(SetReg(c, i.rd, r % Mod), i.rn, r \div Mod)
  IN IF UsesPC(i, {"rd", "rn"}) \/ i.rd = i.rn THEN HandlerStub(c)
     ELSE NextInstr(IF i.s THEN [w EXCEPT !.n = Msb(r \div Mod), !.z = Bool(r = 0)]
                           ELSE w)
Accumulator(c, i) == c.reg[i.rd] + Mod * c.reg[i.rn]
Product(c, i) == FetchReg(c, i.rs) * FetchReg(c, i.rm)
SignedProduct(c, i) ==
  Signed(FetchReg(c, i.rs), Mod) * Signed(FetchReg(c, i.rm), Mod)

HandlerUmull(c, i) == Long(c, i, Product(c, i))
HandlerUmlal(c, i) == Long(c, i, Product(c, i) + Accumulator(c, i))
HandlerSmull(c, i) == Long(c, i, SignedProduct(c, i))
HandlerSmlal(c, i) == Long(c, i, SignedProduct(c, i) + Accumulator(c, i))
HandlerUmaal(c, i) ==
  IF UsesPC(i, {"rm", "rs"}) THEN HandlerStub(c)
  ELSE Long(c, [i EXCEPT !.s = FALSE], Product(c, i) + c.reg[i.rd] + c.reg[i.rn])

\* the second operand is shifted by the flag itself, not by a half word
HalfProduct(c, i) ==
  Signed(ShiftRight(FetchReg(c, i.rm), (WordBits \div 2) * i.x), Half)
  * Signed(ShiftRight(FetchReg(c, i.rs), i.y), Half)
HandlerSmulxx(c, i) ==
  IF UsesPC(i, {"rn", "rs", "rm"}) THEN HandlerStub(c)
  ELSE NextInstr(SetReg(c, i.rn, HalfProduct(c, i)))
HandlerSmlaxx(c, i) ==
  LET p == Word(HalfProduct(c, i))  v == Word(p + FetchReg(c, i.rd))
      w == SetReg(c, i.rn, v)
  IN IF UsesPC(i, {"rd", "rn", "rs", "rm"}) THEN HandlerStub(c)
     ELSE NextInstr(IF OverflowFromAdd(p, FetchReg(c, i.rd), v) = 1
                    THEN [w EXCEPT !.q = 1] ELSE w)

(***************************************************************************)
(* Media instructions on the four byte lanes of a word.                    *)
(***************************************************************************)
Lane(x, k) == (x \div Byte^k) % Byte
InPlace(x, k) == Lane(x, k) * Byte^k
Lanes(f) == f[0] + f[1] * Byte + f[2] * Byte^2 + f[3] * Byte^3
Packed(c, i, v) ==
  IF UsesPC(i, {"rd", "rn", "rm"}) THEN HandlerStub(c)
  ELSE NextInstr(SetReg(c, i.rd, v))

\* lanes above the lowest are cut to a byte before they are moved down
HandlerUadd8(c, i) ==
  LET a == FetchReg(c, i.rn)  b == FetchReg(c, i.rm)
      w == Packed(c, i, Lanes([k \in 0..3 |-> (InPlace(a, k) + InPlace(b, k)) % Byte]))
  IN IF w.stub THEN w
     ELSE [w EXCEPT !.ge = [k \in 0..3 |-> Bool(Lane(a, k) + Lane(b, k) >= Byte)]]
\* the sum wraps before it is compared with the greatest byte
HandlerUqadd8(c, i) ==
  Packed(c, i, Lanes([k \in 0..3 |->
    (ShiftRight(FetchReg(c, i.rn), k * (WordBits \div 4))
     + ShiftRight(FetchReg(c, i.rm), k * (WordBits \div 4))) % Byte]))
HandlerUhadd8(c, i) ==
  Packed(c, i, Lanes([k \in 0..3 |->
    (Word(InPlace(FetchReg(c, i.rn), k) + InPlace(FetchReg(c, i.rm), k)) \div 2) % Byte]))
\* the comparison of each lane is written to GE0
HandlerXsub8(c, i, signed) ==
  LET a == FetchReg(c, i.rn)  b == FetchReg(c, i.rm)
      w == Packed(c, i, Lanes([k \in 0..3 |-> (InPlace(a, k) - InPlace(b, k)) % Byte]))
      ge3 == IF signed THEN Signed(Lane(a, 3), Byte) >= Signed(Lane(b, 3), Byte)
                       ELSE Lane(a, 3) >= Lane(b, 3)
  IN IF w.stub THEN w ELSE [w EXCEPT !.ge[0] = Bool(ge3)]
HandlerQsub8(c, i) ==
  Packed(c, i, Lanes([k \in 0..3 |->
    LET a == Lane(FetchReg(c, i.rn), k)  b == Lane(FetchReg(c, i.rm), k)
    IN IF a + Byte \div 2 >= b THEN (a - b) % Byte ELSE 0]))
HandlerUqsub8(c, i) ==
  Packed(c, i, Lanes([k \in 0..3 |->
    LET a == Lane(FetchReg(c, i.rn), k)  b == Lane(FetchReg(c, i.rm), k)
    IN IF a >= b THEN a - b ELSE 0]))
HandlerSel(c, i) ==
  Packed(c, i, Lanes([k \in 0..3 |->
    Lane(IF c.ge[k] = 1 THEN c.reg[i.rn] ELSE c.reg[i.rm], k)]))

ClampHigh(x, lo, hi) == IF x > hi THEN hi ELSE x     \* mutant
Clamp(x, lo, hi) == IF x < lo THEN lo ELSE IF x > hi THEN hi ELSE x
Saturate(c, i, lo, hi) ==
  LET operand == CalcShifterOperand(FetchReg(c, i.rm), i.imm, i.shift, 0).value
      v == Word(Clamp(Signed(operand, Mod), lo, hi))
      w == SetReg(c, i.rd, v)
  IN IF UsesPC(i, {"rd", "rm"}) THEN HandlerStub(c)
     ELSE NextInstr(IF v # operand THEN [w EXCEPT !.q = 1] ELSE w)
HandlerUsat(c, i) == Saturate(c, i, 0, 2^i.sat - 1)
HandlerSsat(c, i) == Saturate(c, i, -(2^i.sat), 2^i.sat - 1)

Rotated(c, i) == RotateRight(FetchReg(c, i.rm), (WordBits \div 4) * i.rot)
Extend(c, i, v) ==
  IF UsesPC(i, {"rd", "rm"}) THEN HandlerStub(c) ELSE NextInstr(SetReg(c, i.rd, v))
HandlerUxtb16(c, i) == Extend(c, i, Lane(Rotated(c, i), 0) + InPlace(Rotated(c, i), 2))
HandlerUxtb(c, i) == Extend(c, i, Rotated(c, i) % Byte)
HandlerSxtb(c, i) == Extend(c, i, Signed(Rotated(c, i), Byte))
HandlerUxtab(c, i) == IF i.rn = PC THEN HandlerStub(c)
                      ELSE Extend(c, i, c.reg[i.rn] + (Rotated(c, i) % Byte))
HandlerSxtab(c, i) == IF i.rn = PC THEN HandlerStub(c)
                      ELSE Extend(c, i, c.reg[i.rn] + Signed(Rotated(c, i), Byte))
Offset(c, i) == IF i.rn = PC THEN 0 ELSE c.reg[i.rn]
HandlerUxtah(c, i) == Extend(c, i, Offset(c, i) + (Rotated(c, i) % Half))
HandlerSxtah(c, i) == Extend(c, i, Offset(c, i) + Signed(Rotated(c, i), Half))

Low(x)  == x % Half
High(x) == x - Low(x)
HandlerPkhbt(c, i) ==   \* Rd is written before Rm is read
  LET w == SetReg(c, i.rd, Low(c.reg[i.rn]))
  IN Packed(c, i, w.reg[i.rd] + High(ShiftLeft(w.reg[i.rm], i.imm)))
HandlerPkhtb(c, i) ==
  LET w == SetReg(c, i.rd, 0)
      v == IF i.imm = 0 THEN Msb(w.reg[i.rm]) * (Half - 1)
                        ELSE ArithmeticShiftRight(w.reg[i.rm], i.imm)
  IN Packed(c, i, v | High(SetReg(w, i.rd, v).reg[i.rn]))
HandlerRev(c, i) ==
  Extend(c, i, Lanes([k \in 0..3 |-> Lane(c.reg[i.rm], 3 - k)]))
HandlerRev16(c, i) ==
  Extend(c, i, Lanes([k \in 0..3 |-> Lane(c.reg[i.rm], IF k % 2 = 0 THEN k + 1 ELSE k - 1)]))
HandlerClz(c, i) ==
  LET rm == FetchReg(c, i.rm)
  IN Extend(c, i, Cardinality({k \in 0..(WordBits - 1) : rm < 2^k}))

(***************************************************************************)
(* Memory.  A fault of the page table ends emulation like a stub.          *)
(***************************************************************************)
Mapped(a, n) == Word(a) + n <= DataBytes
Read(c, a, n) ==        \* n = 1, 2 or 4 bytes, little endian
  LET b == [k \in 0..3 |-> IF k < n THEN c.mem[Word(a) + k] ELSE 0] IN Lanes(b)
Write(c, a, n, v) ==
  [c EXCEPT !.mem = [x \in DOMAIN c.mem |->
     IF x \in Word(a)..(Word(a) + n - 1) THEN Lane(v, x - Word(a)) ELSE c.mem[x]]]

\* P: the offset applies before the access; W or not P: the base is updated
AddressedBefore(i, base, offset) == Word(base + offset)     \* mutant: P ignored
Addressed(i, base, offset) == IF i.p THEN Word(base + offset) ELSE base
Updated(i, c, base, offset) ==
  IF ~i.p \/ i.w THEN (IF i.rn = PC THEN HandlerStub(c)
                       ELSE SetReg(c, i.rn, base + offset))
                 ELSE c

HandlerMemoryAccess(c, i, n, store) ==
  LET base == FetchReg(c, i.rn)
      magnitude == IF i.enc = "Imm" THEN i.imm
                   ELSE CalcShifterOperandFromImmediate(
                          FetchReg(c, i.rm), i.imm, i.shift, c.c).value
      offset == IF i.u THEN magnitude ELSE -magnitude
      a == Addressed(i, base, offset)
      value == Read(c, a, n)
  IN IF (i.rn = i.rd /\ (~i.p \/ i.w)) \/ ~Mapped(a, n) THEN HandlerStub(c)
     ELSE IF store
     THEN NextInstr(Updated(i, Write(c, a, n, FetchReg(c, i.rd)), base, offset))
     ELSE IF i.rd # PC
     THEN NextInstr(Updated(i, SetReg(c, i.rd, value), base, offset))
     ELSE IF value % 4 = 2 THEN HandlerStub(c)
     ELSE Updated(i, [SetReg(c, PC, Even(value)) EXCEPT !.thumb = value % 2],
                  base, offset)

\* the type of access gives its width and what a load does with the value
HandlerAddrMode3(c, i) ==
  LET base == c.reg[i.rn]
      magnitude == IF i.enc = "Imm" THEN i.imm ELSE c.reg[i.rm]
      offset == IF i.u THEN magnitude ELSE -magnitude
      a == Addressed(i, base, offset)
      w == CASE i.op = "LDRSB" -> SetReg(c, i.rd, Signed(Read(c, a, 1), Byte))
             [] i.op = "LDRSH" -> SetReg(c, i.rd, Signed(Read(c, a, 2), Half))
             [] i.op = "LDRH"  -> SetReg(c, i.rd, Read(c, a, 2))
             [] i.op = "STRH"  -> Write(c, a, 2, c.reg[i.rd])
             [] i.op = "LDRD"  -> SetReg(SetReg(c, i.rd, Read(c, a, 4)),
                                         i.rd + 1, Read(c, a + 4, 4))
             [] i.op = "STRD"  -> Write(Write(c, a, 4, c.reg[i.rd]),
                                        a + 4, 4, c.reg[i.rd + 1])
      bytes == CASE i.op = "LDRSB" -> 1 [] i.op \in {"LDRD", "STRD"} -> 8 [] OTHER -> 2
  IN IF \/ i.rd = PC
        \/ ~i.p /\ i.w
        \/ i.op \in {"LDRD", "STRD"} /\ i.rd % 2 = 1 /\ i.rd # LR /\ a % 8 # 0
        \/ ~Mapped(a, bytes)
     THEN HandlerStub(c)
     ELSE NextInstr(Updated(i, w, base, offset))

LowestUpwards(i, addr, n) == Word(addr + (IF i.p THEN 4 ELSE 0))     \* mutant: U ignored
LowestAddress(i, addr, n) ==
  Word(addr - (IF i.u THEN 0 ELSE 4 * (n - 1))
            + (IF ~i.p THEN 0 ELSE IF i.u THEN 4 ELSE -4))
\* registers go to ascending addresses whatever the direction (emulated
\* threads run in user mode: there is no bank of registers to choose from)
HandlerLDM_STM(c, i, load) ==
  LET addr == FetchReg(c, i.rn)
      n == Cardinality(i.list)
      step == IF i.u THEN 4 ELSE -4
      lowest == LowestAddress(i, addr, n)
      Slot(r) == lowest + 4 * Cardinality({x \in i.list : x < r})
      loaded == [c EXCEPT !.reg = [r \in Register |->
                   IF r \in i.list \ {PC} THEN Read(c, Slot(r), 4) ELSE c.reg[r]]]
      stored == [c EXCEPT !.mem = [x \in DOMAIN c.mem |->
                   LET own == {r \in i.list : x \in Slot(r)..(Slot(r) + 3)}
                   IN IF own = {} THEN c.mem[x]
                      ELSE LET r == CHOOSE r \in own : TRUE
                           IN Lane(FetchReg(c, r), x - Slot(r))]]
      Writeback(w) == IF i.w THEN SetReg(w, i.rn, addr + n * step) ELSE w
      target == Read(c, Slot(PC), 4)
  IN IF i.list = {} \/ ~Mapped(lowest, 4 * n) THEN HandlerStub(c)
     ELSE IF ~load THEN NextInstr(Writeback(stored))
     ELSE IF PC \notin i.list THEN NextInstr(Writeback(loaded))
     ELSE SetReg([Writeback(loaded) EXCEPT !.thumb = target % 2], PC, Even(target))

(***************************************************************************)
(* Branches.  Bit 0 of a register target selects the Thumb state.          *)
(***************************************************************************)
HandlerBranch(c, i, link) ==
  SetReg(IF link THEN Link(c) ELSE c, PC, c.reg[PC] + 8 + 4 * i.imm)
HandlerBranchExchange(c, i, link) ==
  LET target == c.reg[i.rm]
  IN SetReg([IF link THEN Link(c) ELSE c EXCEPT !.thumb = target % 2],
            PC, Even(target))

ClearExclusiveNot(c) == c     \* mutant
ClearExclusive(c) == [c EXCEPT !.monitor = {}]
\* the exclusive monitor covers eight bytes
Granule(a) == Word(a) - (Word(a) % 8)
HandlerLdrex(c, i) ==
  LET a == FetchReg(c, i.rn)
  IN IF ~Mapped(a, i.bytes) THEN HandlerStub(c)
     ELSE NextInstr([SetReg(c, i.rd, Read(c, a, i.bytes)) EXCEPT !.monitor = {Granule(a)}])
\* fails counts the stores that were refused: no instruction reads it
HandlerStrex(c, i) ==
  LET a == FetchReg(c, i.rn)
  IN IF c.monitor = {} THEN NextInstr(SetReg([c EXCEPT !.fails = @ + 1], i.rd, 1))
     ELSE IF c.monitor # {Granule(a)} \/ ~Mapped(a, i.bytes) THEN HandlerStub(c)
     ELSE NextInstr(SetReg(ClearExclusive(Write(c, a, i.bytes, FetchReg(c, i.rm))), i.rd, 0))

(***************************************************************************)
(* VFP registers and the system control coprocessor: words that are moved, *)
(* not computed with.  A double register is two single ones.               *)
(***************************************************************************)
Words(c, a, regs, load) ==
  IF load THEN [c EXCEPT !.fp = [f \in DOMAIN c.fp |->
                  IF f \in DOMAIN regs THEN Read(c, a + 4 * regs[f], 4) ELSE c.fp[f]]]
  ELSE [c EXCEPT !.mem = [x \in DOMAIN c.mem |->
          LET own == {f \in DOMAIN regs : x \in (a + 4 * regs[f])..(a + 4 * regs[f] + 3)}
          IN IF own = {} THEN c.mem[x]
             ELSE LET f == CHOOSE f \in own : TRUE IN Lane(c.fp[f], x - a - 4 * regs[f])]]

LoadStoreFloatSingle(c, i, load) ==
  LET a == Word(FetchReg(c, i.rn) + (IF i.u THEN 4 * i.imm ELSE -(4 * i.imm)))
      n == IF i.x = 1 THEN 2 ELSE 1      \* x: a double register
  IN IF ~Mapped(a, 4 * n) THEN HandlerStub(c)
     ELSE NextInstr(Words(c, a, [f \in i.rd..(i.rd + n - 1) |-> f - i.rd], load))

\* an odd count of doubles (FLDMX, FSTMX) moves the base by a word it does not access
WordCountAll(i) == i.imm     \* mutant: the odd word is accessed too
WordCount(i) == i.imm - (IF i.x = 1 THEN i.imm % 2 ELSE 0)
LoadStoreFloatMultiple(c, i, load) ==
  LET rn == FetchReg(c, i.rn)
      down == i.p /\ ~i.u /\ i.w
      a == Word(IF down THEN rn - 4 * i.imm ELSE rn)
      moved == IF down THEN rn - 4 * i.imm
               ELSE IF ~i.p /\ i.u /\ i.w THEN rn + 4 * i.imm ELSE rn
      w == Words(c, a, [f \in i.rd..(i.rd + WordCount(i) - 1) |-> f - i.rd], load)
  IN IF ~Mapped(a, 4 * WordCount(i)) \/ (i.w /\ i.rn = PC) THEN HandlerStub(c)
     ELSE NextInstr(IF i.w THEN SetReg(w, i.rn, moved) ELSE w)

HandlerFMDRR(c, i) ==
  IF UsesPC(i, {"rn", "rd"}) THEN HandlerStub(c)
  ELSE NextInstr([c EXCEPT !.fp[2 * i.rm + 1] = c.reg[i.rn], !.fp[2 * i.rm] = c.reg[i.rd]])
HandlerFMRDD(c, i) ==
  IF UsesPC(i, {"rn", "rd"}) THEN HandlerStub(c)
  ELSE NextInstr(SetReg(SetReg(c, i.rn, c.fp[2 * i.rm + 1]), i.rd, c.fp[2 * i.rm]))

HandlerVFPRegisterTransfer(c, i) ==
  CASE i.op = "FMSR" -> NextInstr([c EXCEPT !.fp[i.rn] = FetchReg(c, i.rd)])
    [] i.op = "FMRS" -> IF i.rd = PC THEN HandlerStub(c) ELSE NextInstr(SetReg(c, i.rd, c.fp[i.rn]))
    [] i.op = "FMDHR" -> IF i.rd = PC THEN HandlerStub(c)
                         ELSE NextInstr([c EXCEPT !.fp[i.rn + 1] = c.reg[i.rd]])
    [] i.op = "FMXR" -> NextInstr([c EXCEPT !.fpscr = FetchReg(c, i.rd)])
    [] i.op = "FMRX" ->
         LET Bit(k) == ShiftRight(c.fpscr, WordBits - k) % 2
         IN NextInstr(IF i.rd # PC THEN SetReg(c, i.rd, c.fpscr)
                      ELSE [c EXCEPT !.n = Bit(1), !.z = Bit(2), !.c = Bit(3), !.v = Bit(4)])

\* i.cp names the register CRn, CRm and opcode2 select
HandlerMRC(c, i) ==
  IF i.rd = PC \/ i.cp \notin {"CPUId", "Control", "AuxiliaryControl", "ThreadLocalStorage"}
  THEN HandlerStub(c) ELSE NextInstr(SetReg(c, i.rd, c.cp15[i.cp]))
HandlerMCR(c, i) ==
  IF i.rd = PC \/ i.cp \in {"CPUId", "ThreadLocalStorage"} THEN HandlerStub(c)
  ELSE IF i.cp \in {"Control", "AuxiliaryControl"}
  THEN NextInstr([c EXCEPT !.cp15[i.cp] = c.reg[i.rd]])
  ELSE NextInstr(c)     \* caches, prefetch buffer and barriers are not emulated

(***************************************************************************)
(* Thumb.  Most instructions are decoded to an ARM instruction.            *)
(***************************************************************************)
DefaultInstr ==
  [op |-> "", cond |-> "AL", s |-> FALSE, rd |-> 0, rn |-> 0, rm |-> 0, rs |-> 0,
   enc |-> "Imm", imm |-> 0, rot |-> 0, shift |-> "LSL", p |-> FALSE, u |-> FALSE,
   w |-> FALSE, list |-> {}, x |-> 0, y |-> 0, sat |-> 0, bytes |-> 4, cp |-> ""]

\* the operands of most forms: flags are set, the second operand is Rm or a number
ThumbData(t, op) == [DefaultInstr EXCEPT !.op = op, !.s = TRUE, !.rd = t.rd, !.rm = t.rm,
                                         !.imm = t.imm]
ThumbRm(t, op, n, m) == [ThumbData(t, op) EXCEPT !.rn = n, !.rm = m, !.imm = 0,
                                                 !.enc = "ShiftByImm"]
ThumbShift(t, mode) == [ThumbData(t, "MOV") EXCEPT !.enc = "ShiftByImm", !.shift = mode]
ThumbShiftRs(t, mode) == [ThumbData(t, "MOV") EXCEPT !.enc = "ShiftByReg", !.shift = mode,
                                                     !.rm = t.rd, !.rs = t.rm]
ThumbSP(t, op, d) == [ThumbData(t, op) EXCEPT !.s = FALSE, !.rd = d, !.rn = SP, !.imm = 4 * t.imm]

DecodeThumbSums(t) ==
  CASE t.op = "LSL1" -> ThumbShift(t, "LSL")
    [] t.op = "ASR1" -> ThumbShift(t, "ASR")
    [] t.op \in {"AND", "ADC", "BIC", "TST"} -> ThumbRm(t, t.op, t.rd, t.rm)
    [] t.op = "ADD1" -> [ThumbData(t, "ADD") EXCEPT !.rn = t.rm]
    [] t.op = "ADD2" -> [ThumbData(t, "ADD") EXCEPT !.rn = t.rd]
    [] t.op = "ADD3" -> ThumbRm(t, "ADD", t.rm, t.rn)
    [] t.op = "ADD4" -> [ThumbRm(t, "ADD", t.rd, t.rm) EXCEPT !.s = FALSE]
    [] t.op = "ADD6" -> ThumbSP(t, "ADD", t.rd)
    [] t.op = "ADD7" -> ThumbSP(t, "ADD", SP)
    [] t.op = "SUB1" -> [ThumbData(t, "SUB") EXCEPT !.rn = t.rm]
    [] t.op = "SUB2" -> [ThumbData(t, "SUB") EXCEPT !.rn = t.rd]
    [] t.op = "SUB3" -> ThumbRm(t, "SUB", t.rm, t.rn)
    [] t.op = "SUB4" -> ThumbSP(t, "SUB", SP)

DecodeThumbMoves(t) ==
  CASE t.op \in {"SBC", "ORR", "EOR", "MVN"} -> ThumbRm(t, t.op, t.rd, t.rm)
    [] t.op = "MOV1" -> ThumbData(t, "MOV")
    [] t.op = "MOV3" -> [ThumbRm(t, "MOV", 0, t.rm) EXCEPT !.s = FALSE]
    [] t.op = "LSL2" -> ThumbShiftRs(t, "LSL")
    [] t.op = "LSR1" -> ThumbShift(t, "LSR")
    [] t.op = "LSR2" -> ThumbShiftRs(t, "LSR")
    [] t.op = "ROR"  -> ThumbShiftRs(t, "ROR")
    [] t.op = "NEG"  -> [ThumbData(t, "RSB") EXCEPT !.rn = t.rm, !.imm = 0]
    [] t.op = "MUL"  -> [ThumbData(t, "MUL") EXCEPT !.rn = t.rd, !.rs = t.rd, !.rd = 0]
    [] t.op \in {"REV", "SXTB", "UXTB"} -> ThumbData(t, t.op)
    [] t.op = "SXTH" -> [ThumbData(t, "SXTAH") EXCEPT !.rn = PC]
    [] t.op = "UXTH" -> [ThumbData(t, "UXTAH") EXCEPT !.rn = PC]

\* five bits of offset in units of the access, or a register
Offset5(t, op, unit) == [ThumbData(t, op) EXCEPT !.s = FALSE, !.rn = t.rm, !.imm = unit * t.imm,
                                                 !.p = TRUE, !.u = TRUE]
OffsetRm(t, op) == [Offset5(t, op, 0) EXCEPT !.enc = "ShiftByImm", !.rm = t.rn]
ThumbBlock(t, op, base) == [DefaultInstr EXCEPT !.op = op, !.rn = base, !.list = t.list,
                                                !.u = TRUE, !.w = TRUE]

DecodeThumbLoads(t) ==
  CASE t.op = "LDMIA" -> [ThumbBlock(t, "LDM", t.rd) EXCEPT !.w = t.rd \notin t.list]
    [] t.op = "LDR1"  -> Offset5(t, "LDR", 4)
    [] t.op = "LDR4"  -> [Offset5(t, "LDR", 4) EXCEPT !.rn = SP]
    [] t.op = "LDRB1" -> Offset5(t, "LDRB", 1)
    [] t.op = "LDRH1" -> Offset5(t, "LDRH", 2)
    [] t.op = "LDR2"  -> OffsetRm(t, "LDR")
    [] t.op = "LDRB2" -> OffsetRm(t, "LDRB")
    [] t.op = "LDRH2" -> OffsetRm(t, "LDRH")
    [] t.op \in {"LDRSB", "LDRSH"} -> OffsetRm(t, t.op)

DecodeThumbStores(t) ==
  CASE t.op = "CMP1" -> [ThumbData(t, "CMP") EXCEPT !.rn = t.rd]
    [] t.op = "CMP" -> ThumbRm(t, "CMP", t.rd, t.rm)
    [] t.op = "STMIA" -> ThumbBlock(t, "STM", t.rd)
    [] t.op = "PUSH" -> [ThumbBlock(t, "STM", SP) EXCEPT !.u = FALSE, !.p = TRUE]
    [] t.op = "STR1"  -> Offset5(t, "STR", 4)
    [] t.op = "STR3"  -> [Offset5(t, "STR", 4) EXCEPT !.rn = SP]
    [] t.op = "STRB1" -> Offset5(t, "STRB", 1)
    [] t.op = "STRH1" -> Offset5(t, "STRH", 2)
    [] t.op = "STR2"  -> OffsetRm(t, "STR")
    [] t.op = "STRB2" -> OffsetRm(t, "STRB")
    [] t.op = "STRH2" -> OffsetRm(t, "STRH")

DecodeThumb(t) ==
  CASE t.op \in {"LSL1", "ASR1", "AND", "ADC", "BIC", "TST", "ADD1", "ADD2", "ADD3", "ADD4",
                 "ADD6", "ADD7", "SUB1", "SUB2", "SUB3", "SUB4"} -> DecodeThumbSums(t)
    [] t.op \in {"SBC", "ORR", "EOR", "MVN", "MOV1", "MOV3", "LSL2", "LSR1", "LSR2", "ROR",
                 "NEG", "MUL", "REV", "SXTB", "UXTB", "SXTH", "UXTH"} -> DecodeThumbMoves(t)
    [] t.op \in {"LDMIA", "LDR1", "LDR4", "LDRB1", "LDRH1", "LDR2", "LDRB2", "LDRH2", "LDRSB",
                 "LDRSH"} -> DecodeThumbLoads(t)
    [] OTHER -> DecodeThumbStores(t)

(***************************************************************************)
(* Dispatch.  Every handler first evaluates the condition.                 *)
(***************************************************************************)
Multiplications == {"MLA", "UMAAL", "SMULL", "SMLAL", "UMULL", "UMLAL"}
Handler00x0(c, i) ==
  CASE i.op = "MLA"   -> HandlerMla(c, i)   [] i.op = "UMAAL" -> HandlerUmaal(c, i)
    [] i.op = "SMULL" -> HandlerSmull(c, i) [] i.op = "SMLAL" -> HandlerSmlal(c, i)
    [] i.op = "UMULL" -> HandlerUmull(c, i) [] i.op = "UMLAL" -> HandlerUmlal(c, i)

Miscellaneous == {"CLZ", "STREX", "LDREX", "BLX", "SMLAXX", "SMULXX"}
Handler0001(c, i) ==
  CASE i.op = "CLZ" -> HandlerClz(c, i)
    [] i.op = "STREX" -> HandlerStrex(c, i) [] i.op = "LDREX" -> HandlerLdrex(c, i)
    [] i.op = "BLX" -> HandlerBranchExchange(c, i, TRUE)
    [] i.op = "SMLAXX" -> HandlerSmlaxx(c, i)
    [] i.op = "SMULXX" -> HandlerSmulxx(c, i)

Media == {"UXTB", "UXTAB", "SXTB", "SXTAB", "SEL", "PKHBT", "PKHTB", "REV", "REV16"}
Handler01xx(c, i) ==
  CASE i.op = "UXTB" -> HandlerUxtb(c, i)   [] i.op = "UXTAB" -> HandlerUxtab(c, i)
    [] i.op = "SXTB" -> HandlerSxtb(c, i)   [] i.op = "SXTAB" -> HandlerSxtab(c, i)
    [] i.op = "SEL" -> HandlerSel(c, i)     [] i.op = "PKHBT" -> HandlerPkhbt(c, i)
    [] i.op = "PKHTB" -> HandlerPkhtb(c, i) [] i.op = "REV" -> HandlerRev(c, i)
    [] i.op = "REV16" -> HandlerRev16(c, i)

Coprocessor == {"FMSR", "FMRS", "FMDHR", "FMXR", "FMRX", "MRC", "MCR"}
Handler1110(c, i) ==
  CASE i.op = "MRC" -> HandlerMRC(c, i)     [] i.op = "MCR" -> HandlerMCR(c, i)
    [] OTHER -> HandlerVFPRegisterTransfer(c, i)

Dispatch(c, i) ==
  CASE i.op = "AND" -> HandlerAnd(c, i)     [] i.op = "EOR" -> HandlerEor(c, i)
    [] i.op = "SUB" -> HandlerSub(c, i)     [] i.op = "RSB" -> HandlerRsb(c, i)
    [] i.op = "ADD" -> HandlerAdd(c, i)     [] i.op = "ADC" -> HandlerAdc(c, i)
    [] i.op = "SBC" -> HandlerSbc(c, i)     [] i.op = "RSC" -> HandlerRsc(c, i)
    [] i.op = "TST" -> HandlerTst(c, i)     [] i.op = "TEQ" -> HandlerTeq(c, i)
    [] i.op = "CMP" -> HandlerCmp(c, i)     [] i.op = "CMN" -> HandlerCmn(c, i)
    [] i.op = "ORR" -> HandlerOrr(c, i)     [] i.op = "MOV" -> HandlerMov(c, i)
    [] i.op = "BIC" -> HandlerBic(c, i)     [] i.op = "MVN" -> HandlerMvn(c, i)
    [] i.op = "MUL" -> HandlerMul(c, i)
    [] i.op = "SSUB8" -> HandlerXsub8(c, i, TRUE)
    [] i.op = "QSUB8" -> HandlerQsub8(c, i) [] i.op = "UADD8" -> HandlerUadd8(c, i)
    [] i.op = "USUB8" -> HandlerXsub8(c, i, FALSE)
    [] i.op = "UQADD8" -> HandlerUqadd8(c, i)
    [] i.op = "UQSUB8" -> HandlerUqsub8(c, i)
    [] i.op = "UHADD8" -> HandlerUhadd8(c, i)
    [] i.op = "SSAT" -> HandlerSsat(c, i)   [] i.op = "USAT" -> HandlerUsat(c, i)
    [] i.op = "SXTAH" -> HandlerSxtah(c, i) [] i.op = "UXTAH" -> HandlerUxtah(c, i)
    [] i.op = "UXTB16" -> HandlerUxtb16(c, i)
    [] i.op = "B"  -> HandlerBranch(c, i, FALSE)
    [] i.op = "BL" -> HandlerBranch(c, i, TRUE)
    [] i.op = "BX" -> HandlerBranchExchange(c, i, FALSE)
    [] i.op = "LDR"  -> HandlerMemoryAccess(c, i, 4, FALSE)
    [] i.op = "STR"  -> HandlerMemoryAccess(c, i, 4, TRUE)
    [] i.op = "LDRB" -> HandlerMemoryAccess(c, i, 1, FALSE)
    [] i.op = "STRB" -> HandlerMemoryAccess(c, i, 1, TRUE)
    [] i.op \in {"LDRH", "STRH", "LDRSB", "LDRSH", "LDRD", "STRD"} -> HandlerAddrMode3(c, i)
    [] i.op = "LDM" -> HandlerLDM_STM(c, i, TRUE)
    [] i.op = "STM" -> HandlerLDM_STM(c, i, FALSE)
    [] i.op = "VLDR" -> LoadStoreFloatSingle(c, i, TRUE)
    [] i.op = "VSTR" -> LoadStoreFloatSingle(c, i, FALSE)
    [] i.op = "VLDM" -> LoadStoreFloatMultiple(c, i, TRUE)
    [] i.op = "VSTM" -> LoadStoreFloatMultiple(c, i, FALSE)
    [] i.op = "FMDRR" -> HandlerFMDRR(c, i) [] i.op = "FMRDD" -> HandlerFMRDD(c, i)
    [] i.op \in Multiplications -> Handler00x0(c, i)
    [] i.op \in Miscellaneous -> Handler0001(c, i)
    [] i.op \in Media -> Handler01xx(c, i)
    [] i.op \in Coprocessor -> Handler1110(c, i)

LookupHandler(c, i) == IF EvalCond(c, i.cond) THEN Dispatch(c, i) ELSE NextInstr(c)

\* the instructions of the unconditional space; BLX reads the PC after Link
Unconditional(c, i) ==
  CASE i.op = "BLXI" ->
         SetReg([Link(c) EXCEPT !.thumb = 1], PC, c.reg[PC] + 8 + 4 * i.imm + 2 * i.x)
    [] i.op = "CLREX" -> NextInstr(ClearExclusive(c))
    [] i.op = "PLD" -> NextInstr(c)

\* a Thumb instruction is forwarded to the handler of an ARM one, before and after it; where
\* it may read the PC it reads the address of the instruction plus four
PCReaders == {"ADD4", "MOV3"}
BeforeForward(c, t) == IF t.op \in PCReaders THEN SetReg(c, PC, c.reg[PC] - 4) ELSE c
AfterForward(c, t, i, w) ==
  IF t.op \in PCReaders /\ i.rd = PC THEN w ELSE SetReg(w, PC, c.reg[PC] + 2)

\* the Thumb instructions with handlers of their own
ThumbOnly == {"ADD5", "LDR3", "B1", "B2", "BLHIGH", "BLLOW", "BLXLOW", "TBLX", "TBX", "POP"}
DispatchThumb(c, t) ==
  LET pc == c.reg[PC]
      Exchange(w, target) ==
        SetReg([w EXCEPT !.thumb = target % 2], PC, Even(target))
      literal == [DefaultInstr EXCEPT !.rd = t.rd, !.rn = PC, !.imm = 4 * t.imm,
                                      !.p = TRUE, !.u = TRUE]
      pop == [DefaultInstr EXCEPT !.rn = SP, !.u = TRUE, !.w = TRUE, !.list = t.list]
  IN CASE t.op = "ADD5" ->
            SetReg(SetReg(c, t.rd, ((pc + 4) \div 4) * 4 + 4 * t.imm), PC, pc + 2)
       [] t.op = "LDR3" ->
            SetReg(HandlerMemoryAccess(SetReg(c, PC, (pc \div 4) * 4 + (pc % 2) - 4),
                                       literal, 4, FALSE), PC, pc + 2)
       [] t.op = "B1" ->
            SetReg(c, PC, IF EvalCond(c, t.cond) THEN pc + 4 + 2 * t.imm ELSE pc + 2)
       [] t.op = "B2" -> SetReg(c, PC, pc + 4 + 2 * t.imm)
       [] t.op = "BLHIGH" -> SetReg(SetReg(c, LR, pc + 4 + BLStep * t.imm), PC, pc + 2)
       [] t.op \in {"BLLOW", "BLXLOW"} ->
            LET sum == Word(c.reg[LR] + 2 * t.imm)
                target == IF t.op = "BLLOW" THEN sum ELSE sum - (sum % 4)
            IN SetReg([SetReg(c, LR, pc + 3) EXCEPT !.thumb = Bool(t.op = "BLLOW")],
                      PC, target)
       [] t.op = "TBLX" -> IF t.rm = PC THEN HandlerStub(c)
                          ELSE Exchange(SetReg(c, LR, pc + 3), c.reg[t.rm])
       [] t.op = "TBX"  -> IF t.rm = PC THEN HandlerStub(c) ELSE Exchange(c, c.reg[t.rm])
       [] t.op = "POP" -> LET w == HandlerLDM_STM(c, pop, TRUE)
                          IN IF PC \in t.list THEN w ELSE SetReg(w, PC, w.reg[PC] - 2)

\* the handler in the table of ARM instructions, directly or by a Thumb instruction
Forward(c, t) ==
  LET thumb == c.thumb = 1
      i == IF thumb THEN DecodeThumb(t) ELSE t
      w == LookupHandler(IF thumb THEN BeforeForward(c, t) ELSE c, i)
  IN  IF thumb THEN AfterForward(c, t, i, w) ELSE w

(***************************************************************************)
(* The interpreter loop.  A thread runs until its slice is over, it makes a*)
(* system call that reschedules, or it leaves its program.                 *)
(***************************************************************************)
SliceOverEarly(c) == c.i >= SliceLength \div 2     \* mutant
SliceOver(c) == c.i = SliceLength
Fetched == Programs[prog][ctx.reg[PC]]
Running == ctx.reg[PC] \in DOMAIN Programs[prog] /\ ~ctx.stub

Step ==
  /\ Running /\ Fetched.op # "SWI" /\ ~SliceOver(ctx)
  /\ LET c == [ctx EXCEPT !.i = @ + 1]
     IN ctx' = CASE c.thumb = 1 /\ Fetched.op \in ThumbOnly -> DispatchThumb(c, Fetched)
                 [] c.thumb = 0 /\ Fetched.op \in {"BLXI", "CLREX", "PLD"} -> Unconditional(c, Fetched)
                 [] OTHER -> Forward(c, Fetched)
  /\ UNCHANGED <<ready, prog, start>>

\* the scheduler gives the core to the thread that has waited longest
Switch(queue) ==
  /\ ctx' = [Head(queue) EXCEPT !.mem = ctx.mem]
  /\ ready' = Tail(queue)
  /\ UNCHANGED <<prog, start>>

HandlerSWI ==
  /\ Running /\ Fetched.op = "SWI" /\ ~SliceOver(ctx)
  /\ Switch(Append(ready, NextInstr(ClearExclusive([ctx EXCEPT !.i = @ + 1]))))

\* the thread that loads the shared font is left alone
TriggerPreemption ==
  /\ Running /\ SliceOver(ctx)
  /\ IF ctx.font THEN ctx' = [ctx EXCEPT !.i = 0] /\ UNCHANGED <<ready, prog, start>>
     ELSE Switch(Append(ready, ClearExclusive([ctx EXCEPT !.i = 0])))

ExitThread == ~Running /\ ready # <<>> /\ Switch(ready)
Finished == ~Running /\ ready = <<>> /\ UNCHANGED vars

Init == /\ prog \in DOMAIN Programs
        /\ start \in Starts[prog]
        /\ ctx = Head(start) /\ ready = Tail(start)
Next == Step \/ HandlerSWI \/ TriggerPreemption \/ ExitThread \/ Finished
Spec == Init /\ [][Next]_vars
=============================================================================
