-------------------------- MODULE ShaderPrograms ---------------------------
(* All shaders of a few instructions that hold two scopes. *)
EXTENDS Integers, FiniteSets

CONSTANTS Count,         \* instructions of a program
          Tame          \* whether scopes end apart and with an ordinary instruction

Instruction(op, dest, num, c) == [op |-> op, dest |-> dest, num |-> num, cond |-> c]
X == [op |-> "X", x |-> TRUE, y |-> FALSE]
Plain(op) == Instruction(op, 0, 0, X)
Cond(o) == IF o % 2 = 0 THEN X ELSE [op |-> "And", x |-> FALSE, y |-> TRUE]
Offsets == 0 .. Count - 1

Ifs(o, end) == {Instruction(op, d, n, Cond(o)) : op \in {"IFC", "IFU"}, d \in o + 2 .. end, n \in {0, 2}}
Jumps(o, end) == {Instruction("JMPC", d, 0, Cond(o)) : d \in o + 1 .. end}
                   \union {Instruction("JMPU", d, n, X) : d \in {o + 1, end}, n \in {0, 1}}
Loops(o, end) == {Instruction("LOOP", d, 0, X) : d \in o + 1 .. end - 1}
Calls(o, end) == {Instruction(op, d, n, Cond(o)) : op \in {"CALL", "CALLU", "CALLC"},
                                                   d \in end + 1 .. end + 2, n \in {1, 3}}

\* the offset past what an instruction encloses, and the offsets of its scopes
Past(i) == CASE i.op \in {"IFC", "IFU"} -> i.dest + i.num [] i.op = "LOOP" -> i.dest + 1 [] OTHER -> i.dest + i.num
Scopes(p, o) ==
  LET i == p[o]
  IN  CASE i.op \in {"IFC", "IFU"} -> {<<o + 1, i.dest>>} \union (IF i.num = 0 THEN {} ELSE {<<i.dest, Past(i)>>})
        [] i.op = "LOOP" -> {<<o + 1, i.dest + 1>>}
        [] i.op \in {"CALL", "CALLU", "CALLC"} -> {<<i.dest, Past(i)>>}
        [] OTHER -> {}
Flow(p) == {o \in Offsets : p[o].op \notin {"ALU", "CMP", "NOP", "END"}}

Base(end) == [o \in Offsets |-> Plain(IF o = 0 THEN "CMP" ELSE IF o = end THEN "END" ELSE "ALU")]
Flows(o, end) == IF o < end THEN Ifs(o, end) \union Jumps(o, end) \union Loops(o, end) \union Calls(o, end)
                            ELSE Ifs(o, Count) \union Loops(o, Count)

Within(o, s) == o \in s[1] .. s[2] - 1
Nested(s, t) == s[2] <= t[1] \/ t[2] <= s[1] \/ (s[1] <= t[1] /\ t[2] <= s[2]) \/ (t[1] <= s[1] /\ s[2] <= t[2])
AllScopes(p) == UNION {Scopes(p, o) : o \in Flow(p)}

\* scopes are nested, stay on their side of END, and jumps stay in them
WellFormed(p, end) ==
  /\ \A s, t \in AllScopes(p) : Nested(s, t)
  /\ \A o \in Flow(p) :
       /\ p[o].op \in {"IFC", "IFU", "LOOP"} => Past(p[o]) <= (IF o < end THEN end ELSE Count)
       /\ p[o].op \in {"CALL", "CALLU", "CALLC"} => Past(p[o]) <= Count
       /\ p[o].op \in {"JMPC", "JMPU"} => \A s \in AllScopes(p) : Within(o, s) <=> Within(p[o].dest, s)
       /\ o > end => \E c \in Flow(p) : c < end /\ Within(o, <<p[c].dest, Past(p[c])>>)
                                             /\ Past(p[o]) <= Past(p[c]) /\ p[c].op = "CALL"

\* no two scopes end at the same instruction, and none with a flow instruction
EndsApart(p) ==
  /\ \A s, t \in AllScopes(p) : s[2] = t[2] => s = t
  /\ \A s \in AllScopes(p) : s[2] - 1 \notin Flow(p)

\* one or two flow instructions at the offsets o < q
Two(end, o, q) == {[Base(end) EXCEPT ![o] = i, ![q] = j] : i \in Flows(o, end), j \in Flows(q, end) \union {Plain("NOP")}}
OneOrTwo(end) ==
  UNION {{p \in Two(end, pair[1], pair[2]) : WellFormed(p, end) /\ (Tame => EndsApart(p))} :
           pair \in {pair \in (1 .. end - 1) \X ((2 .. Count - 1) \ {end}) : pair[1] < pair[2]}}

MCPrograms == OneOrTwo(Count - 1) \union OneOrTwo(Count - 5)

MCInt == [x |-> 1, y |-> 3, z |-> 2]
=============================================================================
