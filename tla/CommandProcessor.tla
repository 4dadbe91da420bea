-------------------------- MODULE CommandProcessor --------------------------
(***************************************************************************)
(* The command processor of the GPU (command_processor.cpp): the iterator  *)
(* over a command list, what a write to a register does, the pool of       *)
(* shader engines (shader.cpp) and the assembly of triangles               *)
(* (primitive_assembly.cpp).                                               *)
(*                                                                         *)
(* Memory is a function from word addresses to words, which are numbers or *)
(* headers of commands, [id, mask, extra, group].  A register holds a      *)
(* number below Full; a mask is the power of two up to which a write       *)
(* reaches, so that Full writes all bits and 1 none.                       *)
(***************************************************************************)
EXTENDS Integers, Sequences, SequencesExt, FiniteSets, TLC

CONSTANTS Images,       \* [words, size, stream]: memory with a command list at address 0, and
                        \* the writes [id, value, mask, at] that the lists are made of
          Full,         \* the values of a register
          Entries,      \* of a lookup table for lights: 256
          Words,        \* of the shader memory: 1024
          Uniforms      \* 96

VARIABLES image, it, regs, ctx, pool, out, status

vars == <<image, it, regs, ctx, pool, out, status>>

(***************************************************************************)
(* Registers.                                                              *)
(***************************************************************************)
End == -1                                          \* 0xffffffff
trigger_irq == 16                                  \* 0x10
lut_write_index == 453                             \* 0x1c5
set_lut_data == 456 .. 463                         \* 0x1c8
nop_draw == 263                                    \* 0x107: depth test without depth access
trigger_draw == 558 .. 559                         \* 0x22e
sink_index == 562                                  \* 0x232
sink_data == 563 .. 565                            \* 0x233
list_size == 568 .. 569                            \* 0x238
list_address == 570 .. 571                         \* 0x23a
list_trigger == 572 .. 573                         \* 0x23c
max_attribute == 578                               \* 0x242
triangle_topology == 606                           \* 0x25e
vs_bool_uniforms == 688                            \* 0x2b0
vs_int_uniforms == 689 .. 692                      \* 0x2b1
vs_main_offset == 698                              \* 0x2ba
uniform_setup == 704                               \* 0x2c0
set_value == 705 .. 712                            \* 0x2c1
program_offset == 715                              \* 0x2cb
set_word == 716 .. 723                             \* 0x2cc
swizzle_offset == 725                              \* 0x2d5
set_swizzle == 726 .. 733                          \* 0x2d6
unmapped == 1 .. 15                                \* ids that no list holds
Immediate == Full - 1                              \* the index 0xf of the sink

Topology(v) == CASE v = 0 -> "List" [] v = 1 -> "Strip" [] v = 2 -> "Fan" [] OTHER -> "List"

Known == {trigger_irq, lut_write_index, nop_draw, sink_index, max_attribute, triangle_topology,
          vs_bool_uniforms, vs_main_offset, uniform_setup, program_offset, swizzle_offset}
           \union set_lut_data \union trigger_draw \union sink_data \union list_size
           \union list_address \union list_trigger \union vs_int_uniforms \union set_value
           \union set_word \union set_swizzle

(***************************************************************************)
(* CommandListIterator: [id, value, mask, group, at, next, end, block].    *)
(***************************************************************************)
Align(a) == a + (a % 2)

UpdateCommandBlock(i) ==
  IF i.next >= i.end THEN [i EXCEPT !.id = End, !.bad = TRUE]     \* ValidateContract
  ELSE LET h == image.words[i.next + 1]
       IN  [i EXCEPT !.id = h.id, !.value = image.words[i.next], !.mask = h.mask, !.group = h.group,
                     !.at = i.next, !.next = @ + 2, !.block = i.next + 2 + h.extra]

AdvanceEach(i) ==     \* mutant: the id advances within every block
  IF i.next = i.block
  THEN IF Align(i.next) = i.end THEN [i EXCEPT !.id = End]
       ELSE UpdateCommandBlock([i EXCEPT !.next = Align(@)])
  ELSE [i EXCEPT !.id = @ + 1, !.value = image.words[i.next], !.at = i.next, !.next = @ + 1]
Advance(i) ==
  IF i.next = i.block
  THEN IF Align(i.next) = i.end THEN [i EXCEPT !.id = End]
       ELSE UpdateCommandBlock([i EXCEPT !.next = Align(@)])
  ELSE [i EXCEPT !.id = IF i.group THEN @ + 1 ELSE @, !.value = image.words[i.next],
                 !.at = i.next, !.next = @ + 1]

RECURSIVE Skip(_, _)
Skip(i, n) == IF n = 0 \/ i.id = End THEN i ELSE Skip(Advance(i), n - 1)

RestartAt(i, addr, size) ==
  LET n == [i EXCEPT !.next = addr, !.end = addr + size]
  IN  IF size = 0 THEN n ELSE UpdateCommandBlock(n)

\* the next n writes, taken by the handler of the register `by`
RECURSIVE Ahead(_, _, _)
Ahead(i, n, by) == IF n = 0 \/ i.id = End THEN <<>> ELSE <<<<i.id, i.at, by>>>> \o Ahead(Advance(i), n - 1, by)

(***************************************************************************)
(* EnginePool::GetOrCompile: an engine is what it was compiled from.       *)
(***************************************************************************)
Compiled == [prog |-> ctx.prog, bools |-> regs[vs_bool_uniforms], entry |-> regs[vs_main_offset],
             ints |-> ctx.ints, swizzle |-> ctx.swizzle]
Hash == <<ctx.prog, regs[vs_main_offset], regs[vs_bool_uniforms]>>

GetOrCompile ==
  LET h == IF pool.dirty THEN Hash ELSE pool.hash
  IN  [dirty |-> FALSE, hash |-> h,
       engines |-> IF h \in DOMAIN pool.engines THEN pool.engines ELSE (h :> Compiled) @@ pool.engines]

ForgetDirty == UNCHANGED pool          \* mutant: the pool is not told of the change
SetDirty == pool' = [pool EXCEPT !.dirty = TRUE]

(***************************************************************************)
(* PrimitiveAssembler: [topology, buffer, index, ready]; the result of a   *)
(* vertex is the assembler and the triangles it emits.                     *)
(***************************************************************************)
Configure(t) == [topology |-> t, buffer |-> <<"none", "none">>, index |-> 0, ready |-> FALSE]

SubmitVertexUnturned(a, v) ==     \* mutant: a strip keeps its first vertex
  IF a.topology = "List"
  THEN IF a.index < 2 THEN <<[a EXCEPT !.buffer[a.index + 1] = v, !.index = @ + 1], <<>>>>
       ELSE <<[a EXCEPT !.index = 0], <<<<a.buffer[1], a.buffer[2], v>>>>>>
  ELSE <<[a EXCEPT !.buffer[a.index + 1] = v, !.index = 1, !.ready = @ \/ a.index = 1],
         IF a.ready THEN <<<<a.buffer[1], a.buffer[2], v>>>> ELSE <<>>>>
SubmitVertex(a, v) ==
  LET triangle == <<<<a.buffer[1], a.buffer[2], v>>>>
      kept == [a EXCEPT !.buffer[a.index + 1] = v]
  IN  CASE a.topology = "List" ->
             IF a.index < 2 THEN <<[kept EXCEPT !.index = @ + 1], <<>>>>
             ELSE <<[a EXCEPT !.index = 0], triangle>>
        [] a.topology = "Strip" ->
             <<[kept EXCEPT !.index = 1 - @, !.ready = @ \/ a.index = 1],
               IF a.ready THEN triangle ELSE <<>>>>
        [] a.topology = "Fan" ->      \* ready after the first vertex already
             <<[kept EXCEPT !.index = 1, !.ready = TRUE], IF a.ready THEN triangle ELSE <<>>>>

(***************************************************************************)
(* WritePicaReg.  Fetch takes the command and passes on the iterator to    *)
(* the next one; Consume(i, n) takes n further values by running ahead.    *)
(***************************************************************************)
Masked(old, value, mask) == (old - (old % mask)) + (value % mask)

Fetch(ids) == /\ status = "run" /\ it.id \in ids
              /\ UNCHANGED image
Written == IF it.id \in Known THEN [regs EXCEPT ![it.id] = Masked(@, it.value, it.mask)] ELSE regs
Took(n) == out.taken \o <<<<it.id, it.at, it.id>>>> \o Ahead(Advance(it), n, it.id)
Go(i, taken) == /\ it' = i
                /\ status' = IF i.bad THEN "threw" ELSE IF i.id = End THEN "done" ELSE "run"
                /\ out' = [out EXCEPT !.taken = taken]
Fail == status' = "threw" /\ UNCHANGED <<it, ctx, pool, out>>

Special == {End, trigger_irq, triangle_topology, vs_bool_uniforms} \union set_lut_data
             \union trigger_draw \union sink_data \union list_trigger \union vs_int_uniforms
             \union set_value \union set_word \union set_swizzle \union unmapped
WriteRegister ==
  /\ it.id \notin Special /\ Fetch({it.id})
  /\ regs' = Written /\ Go(Advance(it), Took(0)) /\ UNCHANGED <<ctx, pool>>

WriteUnmapped == Fetch(unmapped) /\ regs' = Written /\ Fail

\* the interrupt comes at the end of a list, with at most one command after it
TriggerIRQ ==
  /\ Fetch({trigger_irq}) /\ regs' = Written
  /\ LET n == Advance(it)
     IN  IF n.id # End /\ Advance(n).id # End
         THEN /\ status' = "threw" /\ out' = [out EXCEPT !.irqs = @ + 1, !.taken = Took(0)] /\ it' = n
         ELSE /\ it' = n /\ status' = IF n.bad THEN "threw" ELSE IF n.id = End THEN "done" ELSE "run"
              /\ out' = [out EXCEPT !.taken = Took(0), !.irqs = @ + 1]
  /\ UNCHANGED <<ctx, pool>>

RECURSIVE Lut(_, _, _)      \* the iterator, the index and the table after running ahead
Lut(i, index, table) ==
  IF i.id \notin set_lut_data \/ i.mask # Full THEN <<i, index, table>>
  ELSE Lut(Advance(i), (index + 1) % Entries, [table EXCEPT ![index] = i.value])

RECURSIVE Distance(_, _)    \* the values between two positions of the iterator
Distance(i, j) == IF i = j THEN 0 ELSE 1 + Distance(Advance(i), j)

SetLutDataOnce ==     \* mutant: the index is not written back while running ahead
  /\ Fetch(set_lut_data) /\ regs[lut_write_index] < Entries
  /\ LET index == regs[lut_write_index]
         r == Lut(Advance(it), (index + 1) % Entries, [ctx.lut EXCEPT ![index] = it.value])
     IN  /\ regs' = [Written EXCEPT ![lut_write_index] = (index + 1) % Entries]
         /\ ctx' = [ctx EXCEPT !.lut = r[3]]
         /\ Go(r[1], Took(Distance(Advance(it), r[1])))
  /\ UNCHANGED pool
SetLutData ==
  /\ Fetch(set_lut_data)
  /\ LET index == regs[lut_write_index]
         r == Lut(Advance(it), (index + 1) % Entries, [ctx.lut EXCEPT ![index] = it.value])
     IN  IF index >= Entries THEN regs' = Written /\ Fail
         ELSE /\ regs' = [Written EXCEPT ![lut_write_index] = r[2]]
              /\ ctx' = [ctx EXCEPT !.lut = r[3]]
              /\ Go(r[1], Took(Distance(Advance(it), r[1])))
              /\ UNCHANGED pool

SetTopology ==
  /\ Fetch({triangle_topology}) /\ regs' = Written
  /\ ctx' = [ctx EXCEPT !.assembler = Configure(Topology(Written[triangle_topology]))]
  /\ it' = Advance(it) /\ status' = IF it'.bad THEN "threw" ELSE IF it'.id = End THEN "done" ELSE "run"
  /\ out' = [out EXCEPT !.taken = Took(0), !.vertices = <<>>, !.triangles = <<>>]
  /\ UNCHANGED pool

IsNopDraw == regs[nop_draw] = 1

\* the renderer gets the engine that GetOrCompile returns and loads the vertices itself
Draw ==
  /\ Fetch(trigger_draw) /\ regs' = Written
  /\ it' = Advance(it) /\ status' = IF it'.bad THEN "threw" ELSE IF it'.id = End THEN "done" ELSE "run"
  /\ IF IsNopDraw THEN pool' = pool /\ out' = [out EXCEPT !.taken = Took(0)]
     ELSE /\ pool' = GetOrCompile
          /\ out' = [out EXCEPT !.taken = Took(0), !.draw = <<pool'.engines[pool'.hash], Compiled>>]
  /\ UNCHANGED ctx

WordsPerVertex == 3 * (regs[max_attribute] + 1)

RECURSIVE CountVertices(_)
CountVertices(i) == IF i.id \notin sink_data THEN 0 ELSE 1 + CountVertices(Skip(i, WordsPerVertex))
CountFurther == CountVertices(Skip(Advance(it), WordsPerVertex - 1))     \* mutant: the first is not counted
NumVertices == 1 + CountVertices(Skip(Advance(it), WordsPerVertex - 1))

\* one vertex: <<iterator, words, complete>>
RECURSIVE ReadVertex(_, _)
ReadVertex(i, words) ==
  IF Len(words) = WordsPerVertex THEN <<i, words, TRUE>>
  ELSE IF i.id \notin sink_data THEN <<i, words, FALSE>>
  ELSE ReadVertex(Advance(i), Append(words, i.value))

RECURSIVE SubmitAll(_, _, _)      \* r: [it, assembler, vertices, triangles, ok]
SubmitAll(r, words, n) ==
  IF r.it.id \notin sink_data \/ ~r.ok THEN r
  ELSE LET v == ReadVertex(r.it, words)
           s == SubmitVertex(r.assembler, v[2])
       IN  IF ~v[3] THEN [r EXCEPT !.it = v[1], !.ok = FALSE]
           ELSE SubmitAll([r EXCEPT !.it = v[1], !.assembler = s[1], !.triangles = @ \o s[2],
                                    !.vertices = Append(@, v[2])], <<>>, n + 1)

SubmitImmediate ==
  /\ Fetch(sink_data) /\ it.mask = Full /\ regs[sink_index] = Immediate
  /\ regs' = Written
  /\ LET r == SubmitAll([it |-> Advance(it), assembler |-> ctx.assembler, vertices |-> out.vertices,
                         triangles |-> out.triangles, ok |-> TRUE], <<it.value>>, 0)
         taken == Took(IF IsNopDraw THEN 0 ELSE Distance(Advance(it), r.it))
     IN  IF IsNopDraw
         THEN Go(Advance(it), taken) /\ UNCHANGED <<ctx, pool>>
         ELSE /\ pool' = GetOrCompile
              /\ ctx' = [ctx EXCEPT !.assembler = r.assembler]
              /\ it' = r.it
              /\ status' = IF ~r.ok \/ r.it.bad THEN "threw" ELSE IF r.it.id = End THEN "done" ELSE "run"
              /\ out' = [out EXCEPT !.taken = taken, !.vertices = r.vertices, !.triangles = r.triangles,
                                    !.draw = <<pool'.engines[pool'.hash], Compiled>>,
                                    !.announced = NumVertices,
                                    !.submitted = Len(r.vertices) - Len(out.vertices)]

\* three words are one attribute
SetFixedAttribute ==
  /\ Fetch(sink_data) /\ it.mask = Full /\ regs[sink_index] # Immediate
  /\ LET i == Advance(it)
     IN  IF regs[sink_index] >= 12 \/ i.id \notin sink_data \/ Advance(i).id \notin sink_data
         THEN regs' = Written /\ Fail
         ELSE /\ regs' = [Written EXCEPT ![sink_index] = (@ + 1) % Full]
              /\ ctx' = [ctx EXCEPT !.defaults[regs[sink_index]] = <<it.value, i.value, Advance(i).value>>]
              /\ Go(Skip(i, 2), Took(2))
              /\ UNCHANGED pool

MaskedAttribute == Fetch(sink_data) /\ it.mask # Full /\ regs' = Written /\ Fail

SetBoolUniforms ==
  /\ Fetch({vs_bool_uniforms}) /\ regs' = Written /\ SetDirty
  /\ Go(Advance(it), Took(0)) /\ UNCHANGED ctx

SetIntUniform ==
  /\ Fetch(vs_int_uniforms) /\ regs' = Written /\ SetDirty
  /\ ctx' = [ctx EXCEPT !.ints[it.id - 688] = Written[it.id]]
  /\ Go(Advance(it), Took(0))

\* Four words of FLOAT32 (the upper half of the setup register) or three packed ones.  The check
\* for a partial upload wants an id below 0x2c1 and above 0x2c8 at once, and never throws: whatever
\* commands follow are taken for the rest of the uniform, and at the end of the list its last value.
Float32 == regs[uniform_setup] >= Full \div 2
UniformIndex == regs[uniform_setup] % (Full \div 2)
SetUniform ==
  /\ Fetch(set_value)
  /\ IF it.mask # Full THEN regs' = Written /\ Fail
     ELSE LET n == IF Float32 THEN 3 ELSE 2
              values == <<it.value>> \o [k \in 1 .. n |-> Skip(Advance(it), k - 1).value]
          IN  /\ IF UniformIndex >= Uniforms
                 THEN regs' = Written /\ UNCHANGED ctx
                 ELSE /\ regs' = [Written EXCEPT ![uniform_setup] = @ + 1]
                      /\ ctx' = [ctx EXCEPT !.uniforms[UniformIndex] = Reverse(values)]
              /\ Go(Skip(Advance(it), n), Took(n))
              /\ UNCHANGED pool

SetProgramWord ==
  /\ Fetch(set_word)
  /\ IF regs[program_offset] >= Words
     THEN regs' = Written /\ UNCHANGED <<ctx, pool>>
     ELSE /\ regs' = [Written EXCEPT ![program_offset] = @ + 1]
          /\ ctx' = [ctx EXCEPT !.prog[regs[program_offset]] = it.value]
          /\ SetDirty
  /\ Go(Advance(it), Took(0))

SetSwizzleWord ==
  /\ Fetch(set_swizzle)
  /\ IF regs[swizzle_offset] >= Words
     THEN regs' = Written /\ UNCHANGED <<ctx, pool>>
     ELSE /\ regs' = [Written EXCEPT ![swizzle_offset] = @ + 1]
          /\ ctx' = [ctx EXCEPT !.swizzle[regs[swizzle_offset]] = it.value]
          /\ SetDirty
  /\ Go(Advance(it), Took(0))

\* goes on with another list, from which there is no return; its size counts pairs of words
StartList ==
  /\ Fetch(list_trigger) /\ regs' = Written
  /\ LET k == it.id - 572
     IN  Go(RestartAt(Advance(it), 2 * regs[570 + k], 2 * regs[568 + k]), Took(0))
  /\ UNCHANGED <<ctx, pool>>

(***************************************************************************)
Context == [lut |-> [k \in 0 .. Entries - 1 |-> 0], uniforms |-> [k \in 0 .. Uniforms - 1 |-> <<>>],
            prog |-> [k \in 0 .. Words - 1 |-> 0], swizzle |-> [k \in 0 .. Words - 1 |-> 0],
            ints |-> [k \in 1 .. 4 |-> 0], defaults |-> [k \in 0 .. 11 |-> <<>>],
            assembler |-> Configure("List")]
Fresh(img) == [id |-> End, value |-> 0, mask |-> Full, group |-> FALSE, at |-> 0, next |-> 0,
               end |-> img.size, block |-> 0, bad |-> FALSE]

Init ==
  /\ image \in Images /\ status = "start" /\ it = Fresh(image)
  /\ regs = [r \in Known |-> 0] /\ ctx = Context
  /\ pool = [dirty |-> TRUE, hash |-> <<>>, engines |-> <<>>]
  /\ out = [taken |-> <<>>, irqs |-> 0, draw |-> <<>>, vertices |-> <<>>, triangles |-> <<>>,
            announced |-> 0, submitted |-> 0]

\* a write to command_processor_config.trigger
ProcessCommandList ==
  /\ status = "start"
  /\ it' = RestartAt(it, 0, image.size)
  /\ status' = IF image.size = 0 THEN "done" ELSE "run"
  /\ UNCHANGED <<image, regs, ctx, pool, out>>

Next == \/ ProcessCommandList \/ WriteRegister \/ WriteUnmapped \/ TriggerIRQ \/ SetLutData
        \/ SetTopology \/ Draw \/ SubmitImmediate \/ SetFixedAttribute \/ MaskedAttribute
        \/ SetBoolUniforms \/ SetIntUniform \/ SetUniform \/ SetProgramWord \/ SetSwizzleWord
        \/ StartList

Spec == Init /\ [][Next]_vars

(***************************************************************************)
(* Properties.                                                             *)
(***************************************************************************)
\* what the data registers would hold if every write were handled by itself, save that an upload
\* of a uniform that lacks words takes those of the next commands
Single(r, c) ==
  LET value == c.value
      whole == Len(r.words) + 1 = (IF r.setup >= Full \div 2 THEN 4 ELSE 3)
      words == Append(r.words, value)
      parts == Append(r.parts, value)
  IN  CASE c.id \in set_value \/ r.words # <<>> ->
             IF ~whole THEN [r EXCEPT !.words = words]
             ELSE IF r.setup % (Full \div 2) >= Uniforms THEN [r EXCEPT !.words = <<>>]
             ELSE [r EXCEPT !.words = <<>>, !.setup = @ + 1,
                            !.uniforms[r.setup % (Full \div 2)] = Reverse(words)]
        [] c.id = lut_write_index -> [r EXCEPT !.index = Masked(@, value, c.mask)]
        [] c.id \in set_lut_data -> [r EXCEPT !.lut[r.index] = value, !.index = (@ + 1) % Entries]
        [] c.id = uniform_setup -> [r EXCEPT !.setup = Masked(@, value, c.mask)]
        [] c.id = sink_index -> [r EXCEPT !.sink = Masked(@, value, c.mask)]
        [] c.id \in sink_data /\ r.sink # Immediate ->
             IF Len(parts) < 3 THEN [r EXCEPT !.parts = parts]
             ELSE [r EXCEPT !.parts = <<>>, !.sink = @ + 1, !.defaults[r.sink] = parts]
        [] OTHER -> r
AfterWrites(n) ==
  FoldLeft(Single, [index |-> 0, lut |-> Context.lut, setup |-> 0, words |-> <<>>,
                    uniforms |-> Context.uniforms, sink |-> 0, parts |-> <<>>,
                    defaults |-> Context.defaults], SubSeq(image.stream, 1, n))

SameRegister(id, by) == id = by \/ \E ids \in {set_lut_data, sink_data, set_value} : {id, by} \subseteq ids
\* the n-th write of the list comes where an upload of a uniform still lacks words
Swallowed(n) == AfterWrites(n - 1).words # <<>>

\* The words of a list are taken one after the other, each of them once: groups, padding between
\* blocks, values that WritePicaReg takes by running ahead, and lists that go on with other lists
\* neither skip nor repeat any.  Each is taken by the handler of its own register, with one
\* exception: after a partial upload of a uniform, which nothing in the code stops ("Unexpected
\* partial uniform update" is never thrown), the upload takes the commands that follow.
CommandsInOrder ==
  LET writes == [k \in DOMAIN image.stream |-> <<image.stream[k].id, image.stream[k].at>>]
      taken == [k \in DOMAIN out.taken |-> <<out.taken[k][1], out.taken[k][2]>>]
  IN  /\ IsPrefix(taken, writes) /\ (status = "done" => taken = writes)
      /\ status = "done" => \A k \in DOMAIN taken :
           LET by == out.taken[k][3]
           IN  SameRegister(taken[k][1], by) \/ (by \in set_value /\ Swallowed(k))

\* Running ahead is an optimisation: light tables, uniforms and fixed attributes end up as
\* if WritePicaReg had been called for every single word.  The exception is the partial upload of
\* a uniform: the next commands are its words and do nothing for their own registers, and where
\* the list ends within it, nothing is said of the uniforms.
UploadsLand ==
  status = "done" =>
    LET r == AfterWrites(Len(image.stream))
    IN  /\ ctx.lut = r.lut /\ ctx.defaults = r.defaults
        /\ r.words = <<>> => ctx.uniforms = r.uniforms

\* PrepareTriangleBatch is told of as many vertices as are then submitted in immediate mode, across
\* blocks of the list; the exception is a word that no further one follows, of which nothing is
\* submitted and nothing thrown: "There's always at least one vertex".
VerticesAnnounced ==
  status # "threw" => out.submitted = out.announced \/ (out.submitted = 0 /\ out.announced = 1)

\* A draw uses an engine that was compiled from the program in the shader memory and the
\* boolean uniforms as they are now, whatever was uploaded and drawn before.
EngineCurrent == out.draw # <<>> => out.draw[1].prog = out.draw[2].prog /\ out.draw[1].bools = out.draw[2].bools

Rotations(t) == {t, <<t[2], t[3], t[1]>>, <<t[3], t[1], t[2]>>}

\* SubmitVertex makes of every three vertices of a list, and of every vertex of a strip after
\* the second, one triangle, and keeps its winding; the vertices may come in several batches.
TrianglesWound ==
  LET v == out.vertices
      t == out.triangles
  IN  CASE ctx.assembler.topology = "List" ->
             /\ Len(t) = Len(v) \div 3
             /\ \A k \in DOMAIN t : t[k] = <<v[3 * k - 2], v[3 * k - 1], v[3 * k]>>
        [] ctx.assembler.topology = "Strip" ->
             /\ Len(t) = (IF Len(v) < 3 THEN 0 ELSE Len(v) - 2)
             /\ \A k \in DOMAIN t : t[k] \in Rotations(IF k % 2 = 1 THEN <<v[k], v[k + 1], v[k + 2]>>
                                                                    ELSE <<v[k + 1], v[k], v[k + 2]>>)
        [] OTHER -> \A k \in DOMAIN t : k > 1 => t[k] = <<v[1], v[k], v[k + 1]>>
=============================================================================
