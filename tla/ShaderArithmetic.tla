-------------------------- MODULE ShaderArithmetic --------------------------
(***************************************************************************)
(* The operands of one arithmetic shader instruction in the three engines: *)
(* LegacyInterpretShaderOpcode, the micro operations with their flat       *)
(* register file, and the GLSL expressions, whose vectors have only the    *)
(* components that the instruction writes.  Numbers are integers; what the *)
(* reciprocals compute is left open.                                       *)
(***************************************************************************)
EXTENDS Integers, Sequences, SequencesExt, FiniteSets, FiniteSetsExt, TLC

CONSTANTS Inputs, Temps, Uniforms,   \* how many registers there are: 16, 16 and 96
          Instructions,              \* [op, src, dest, sel, neg, mask, addr, cmp], where sel, neg
                                     \* and mask are the swizzle pattern
          WidePattern                \* the pattern that a 7 bit index finds in place of a 5 bit one

VARIABLES instr, interpreted, micro, text

vars == <<instr, interpreted, micro, text>>

Components == 1 .. 4
Rcp(x) == 1000 - x
Rsq(x) == 2000 - x
Outputs == Inputs

Apply(op, a, b) == CASE op = "ADD" -> a + b [] op = "MUL" -> a * b
                     [] op = "MAX" -> (IF a > b THEN a ELSE b) [] op = "MIN" -> (IF a < b THEN a ELSE b)
Relation(r, a, b) == CASE r = "==" -> a = b [] r = "!=" -> a # b [] r = "<" -> a < b
                       [] r = "<=" -> a <= b [] r = ">" -> a > b [] r = ">=" -> a >= b
Dot(n, a, b) == FoldLeft(LAMBDA s, k : s + a[k] * b[k], 0, [k \in 1 .. n |-> k])
Binary == {"ADD", "MUL", "MAX", "MIN"}

\* the four components of operand k, swizzled and negated
Swizzled(i, k, v) == [c \in Components |-> (IF i.neg[k] THEN -1 ELSE 1) * v[i.sel[k][c]]]

(***************************************************************************)
(* The interpreter: arrays of input, temporary, uniform and output         *)
(* registers, three address registers, two condition codes.                *)
(***************************************************************************)
Start == [in |-> [r \in 0 .. Inputs - 1 |-> [c \in Components |-> 10 * r + c]],
          temp |-> [r \in 0 .. Temps - 1 |-> [c \in Components |-> 5 * c - 20 * r]],
          unif |-> [r \in 0 .. Uniforms - 1 |-> [c \in Components |-> 7 * r - 3 * c]],
          out |-> [r \in 0 .. Outputs - 1 |-> [c \in Components |-> 0]],
          a |-> <<1, 2, 1>>, cc |-> <<FALSE, FALSE>>]

LookupSourceRegister(s, r) ==
  CASE r < Inputs -> s.in[r]
    [] r >= Inputs /\ r < Inputs + Temps -> s.temp[r - Inputs]
    [] r >= Inputs + Temps -> s.unif[r - Inputs - Temps]

Write(s, i, v) ==        \* dest: an output or a temporary register
  IF i.dest < Inputs
  THEN [s EXCEPT !.out[i.dest] = [c \in Components |-> IF c \in i.mask THEN v[c] ELSE @[c]]]
  ELSE [s EXCEPT !.temp[i.dest - Inputs] = [c \in Components |-> IF c \in i.mask THEN v[c] ELSE @[c]]]

\* which operand the address register is added to
Relative(i) == CASE i.op = "MAD" -> 2 [] i.op = "MADI" -> 3 [] OTHER -> 1

Source(s, i, k) ==
  LET offset == IF i.addr = 0 \/ k # Relative(i) THEN 0 ELSE s.a[i.addr]
  IN  Swizzled(i, k, LookupSourceRegister(s, i.src[k] + offset))

LegacyMultiplyAdd(s, i) ==
  Write(s, i, [c \in Components |-> Source(s, i, 1)[c] * Source(s, i, 2)[c] + Source(s, i, 3)[c]])

LegacyInterpretShaderOpcode(s, i) ==
  LET Src(k) == Source(s, i, k)
      All(x) == [c \in Components |-> x]
  IN  CASE i.op \in Binary -> Write(s, i, [c \in Components |-> Apply(i.op, Src(1)[c], Src(2)[c])])
        [] i.op = "DP3" -> Write(s, i, All(Dot(3, Src(1), Src(2))))
        [] i.op = "DP4" -> Write(s, i, All(Dot(4, Src(1), Src(2))))
        [] i.op = "RCP" -> Write(s, i, All(Rcp(Src(1)[1])))
        [] i.op = "RSQ" -> Write(s, i, All(Rsq(Src(1)[1])))
        [] i.op = "MOV" -> Write(s, i, Src(1))
        [] i.op = "MOVA" -> [s EXCEPT !.a = [k \in 1 .. 3 |-> IF k \in {1, 2} \intersect i.mask THEN Src(1)[k] ELSE @[k]]]
        [] i.op = "CMP" -> [s EXCEPT !.cc = [k \in {1, 2} |-> Relation(i.cmp[k], Src(1)[k], Src(2)[k])]]
        [] i.op \in {"MAD", "MADI"} -> LegacyMultiplyAdd(s, i)

(***************************************************************************)
(* The micro operations: one register file, in which output registers      *)
(* follow the uniforms, and four address registers, the first being zero.  *)
(***************************************************************************)
FileSize == Inputs + Temps + Uniforms
StartFile(s) ==
  [file |-> [r \in 0 .. FileSize + Outputs - 1 |->
               IF r < FileSize THEN LookupSourceRegister(s, r) ELSE s.out[r - FileSize]],
   a |-> <<0>> \o s.a, cc |-> s.cc]

Clamp(r) == IF r < 0 \/ r > FileSize - 1 THEN FileSize - 1 ELSE r     \* as an unsigned number

KeptDest(i) == i.dest     \* mutant: outputs collide with the inputs
RelocatedDest(i) == IF i.dest < Inputs THEN i.dest + FileSize ELSE i.dest

\* the recompiler reads the index of MADI's pattern from the 7 bits of other instructions,
\* the upper two of which belong to the third operand
Pattern(i) == IF i.op = "MADI" /\ i.src[3] % 4 # 0 THEN WidePattern @@ i ELSE i

GetSwizzledSourceRegister(m, i, k) ==
  LET reg == i.src[k] + m.a[(IF k = Relative(i) THEN i.addr ELSE 0) + 1]
  IN  Swizzled(i, k, m.file[IF i.op = "CMP" THEN reg ELSE Clamp(reg)])

Store(m, i, v) == [m EXCEPT !.file[RelocatedDest(i)] =
                     [c \in Components |-> IF c \in i.mask THEN v[c] ELSE @[c]]]

Mad(m, i) ==
  LET Src(k) == GetSwizzledSourceRegister(m, i, k)
  IN  Store(m, i, [c \in Components |-> Src(1)[c] * Src(2)[c] + Src(3)[c]])

MovToAddressReg(m, i) ==
  LET src == GetSwizzledSourceRegister(m, i, 1)
  IN  [m EXCEPT !.a = [k \in 1 .. 4 |-> IF k - 1 \in {1, 2} \intersect i.mask THEN src[k - 1] ELSE @[k]]]

Cmp(m, i) ==
  LET Src(k) == GetSwizzledSourceRegister(m, i, k)
  IN  [m EXCEPT !.cc = [k \in {1, 2} |-> Relation(i.cmp[k], Src(1)[k], Src(2)[k])]]

MicroOp(m, ins) ==
  LET i == Pattern(ins)
      Src(k) == GetSwizzledSourceRegister(m, i, k)
      All(x) == Store(m, i, [c \in Components |-> x])
  IN  CASE i.op \in Binary -> Store(m, i, [c \in Components |-> Apply(i.op, Src(1)[c], Src(2)[c])])
        [] i.op = "DP3" -> All(Dot(3, Src(1), Src(2)))
        [] i.op = "DP4" -> All(Dot(4, Src(1), Src(2)))
        [] i.op = "RCP" -> All(Rcp(Src(1)[1]))
        [] i.op = "RSQ" -> All(Rsq(Src(1)[1]))
        [] i.op = "MOV" -> Store(m, i, Src(1))
        [] i.op = "MOVA" -> MovToAddressReg(m, i)
        [] i.op = "CMP" -> Cmp(m, i)
        [] i.op \in {"MAD", "MADI"} -> Mad(m, i)

(***************************************************************************)
(* TranslateToGLSL: a masked swizzle such as temp_0.yx has one component   *)
(* for every component of the destination.                                 *)
(***************************************************************************)
Mask(i) == SetToSortSeq(i.mask, <)

MaskedUnswizzled(s, i, k) ==     \* mutant: the components of the mask without the swizzle
  LET v == LookupSourceRegister(s, i.src[k])
  IN  [n \in 1 .. Len(Mask(i)) |-> (IF i.neg[k] THEN -1 ELSE 1) * v[Mask(i)[n]]]
Masked(s, i, k) == [n \in 1 .. Len(Mask(i)) |-> Source(s, i, k)[Mask(i)[n]]]
Assign(s, i, v) == Write(s, i, [c \in Components |-> IF c \in i.mask
                                  THEN v[CHOOSE n \in 1 .. Len(Mask(i)) : Mask(i)[n] = c] ELSE 0])

TranslateMultiplyAdd(s, i) ==
  LET Src(k) == Masked(s, i, k)
  IN  Assign(s, i, [n \in 1 .. Len(Mask(i)) |-> Src(1)[n] * Src(2)[n] + Src(3)[n]])

TranslateToGLSL(s, i) ==
  LET mask == Mask(i)
      Whole(k) == Source(s, i, k)
      Src(k) == Masked(s, i, k)
      All(x) == Assign(s, i, [n \in 1 .. Len(mask) |-> x])
  IN  CASE i.op \in Binary -> Assign(s, i, [n \in 1 .. Len(mask) |-> Apply(i.op, Src(1)[n], Src(2)[n])])
        [] i.op = "DP3" -> All(Dot(3, Whole(1), Whole(2)))
        [] i.op = "DP4" -> All(Dot(4, Whole(1), Whole(2)))
        [] i.op = "RCP" -> All(Rcp(Src(1)[1]))
        [] i.op = "RSQ" -> All(Rsq(Src(1)[1]))
        [] i.op = "MOV" -> Assign(s, i, Src(1))
        [] i.op = "MOVA" -> [s EXCEPT !.a = [k \in 1 .. 3 |-> IF k \in {1, 2} \intersect i.mask THEN Whole(1)[k] ELSE @[k]]]
        [] i.op = "CMP" -> [s EXCEPT !.cc = [k \in {1, 2} |-> Relation(i.cmp[k], Whole(1)[k], Whole(2)[k])]]
        [] i.op \in {"MAD", "MADI"} -> TranslateMultiplyAdd(s, i)

(***************************************************************************)
Init == instr \in Instructions /\ interpreted = <<>> /\ micro = <<>> /\ text = <<>>

Run == /\ interpreted = <<>>
       /\ interpreted' = LegacyInterpretShaderOpcode(Start, instr)
       /\ micro' = MicroOp(StartFile(Start), instr)
       /\ text' = TranslateToGLSL(Start, instr)
       /\ UNCHANGED instr

Next == Run
Spec == Init /\ [][Next]_vars

(***************************************************************************)
(* Properties.                                                             *)
(***************************************************************************)
\* The micro operation of an instruction (BinaryArithmetic, UnaryArithmetic, Mad, Cmp, ...)
\* leaves the registers that LegacyInterpretShaderOpcode leaves, whatever the swizzle, the
\* mask and the address register; MADI with an odd third operand takes another pattern.
MicroOperandsAgree == micro # <<>> => \/ micro = StartFile(interpreted)
                                      \/ instr.op = "MADI" /\ instr.src[3] % 4 # 0

\* So does the GLSL statement, whose vectors are as long as the mask; reciprocals take the
\* first enabled component where the interpreter takes the first.
TextOperandsAgree == text # <<>> => \/ text = interpreted
                                    \/ instr.op \in {"RCP", "RSQ"} /\ 1 \notin instr.mask
=============================================================================
