----------------------------- MODULE MCGraphics -----------------------------
(***************************************************************************)
(* The parts of the GPU that share no state, one of which runs in each     *)
(* behaviour: the command processor, a vertex shader and a single          *)
(* instruction of one, the clipping and filling of triangles, the shading  *)
(* of a fragment, and the copies of memory that the renderer keeps.  The   *)
(* variables of the others stay Off.                                       *)
(***************************************************************************)
EXTENDS MCCommandProcessor

VARIABLES part,
          prog, bool, input, phase, blocks, dirty, targets, functions, code, script, int, mic, glsl,
          instr, interpreted, micro, text,
          gpu, tri, px

Off == 0
ShaderVars == <<prog, bool, input, phase, blocks, dirty, targets, functions, code, script, int, mic, glsl>>
ArithmeticVars == <<instr, interpreted, micro, text>>

\* programs of 7 instructions whose scopes end apart and with an ordinary instruction
P == INSTANCE ShaderPrograms WITH Count <- 7, Tame <- TRUE
MCPrograms == P!MCPrograms
Shaders == INSTANCE Shader WITH Programs <- MCPrograms, Capacity <- 16, IntUniform <- [x |-> 1, y |-> 3, z |-> 2]

Selectors == {<<1, 2, 3, 4>>, <<4, 3, 2, 1>>, <<2, 2, 1, 3>>}
Masks == {{1, 2, 3, 4}, {2}, {1, 3}, {2, 3, 4}}
MCInstructions ==
  {[op |-> op, src |-> <<s1, s2, s3>>, dest |-> d, sel |-> <<x, y, <<3, 1, 4, 2>>>>,
    neg |-> <<n, ~n, n>>, mask |-> m, addr |-> a, cmp |-> <<"<", c>>] :
     op \in {"ADD", "MUL", "MAX", "MIN", "DP3", "DP4", "RCP", "RSQ", "MOV", "MOVA", "CMP", "MAD", "MADI"},
     s1 \in {0, 3}, s2 \in {2, 5}, s3 \in {0, 5}, d \in {1, 3}, x \in Selectors, y \in Selectors \ {<<1, 2, 3, 4>>},
     n \in BOOLEAN, m \in Masks, a \in {0, 2}, c \in {"<=", "!="}}
Same == <<1, 1, 1, 1>>
Arithmetic == INSTANCE ShaderArithmetic
                WITH Inputs <- 2, Temps <- 2, Uniforms <- 4, Instructions <- MCInstructions,
                     WidePattern <- [sel |-> <<Same, Same, Same>>, neg |-> <<FALSE, FALSE, FALSE>>, mask |-> {1}]

\* six cells on two pages: a target across them, one inside it, one for depth; a texture like the first
Area(start, n, format) == [start |-> start, n |-> n, width |-> 1, format |-> format]
Copies == INSTANCE ResourceManager
            WITH Pages <- 2, PageSize <- 3, Textures <- {[texture |-> TRUE] @@ Area(0, 4, "rgba8")},
                 Targets <- {Area(0, 4, "rgba8"), Area(1, 1, "rgba8"), Area(4, 1, "depth")},
                 Fills <- {[start |-> 0, n |-> 2]}

ASSUME CopiesFit == Copies!AddressesDiffer /\ Copies!InMemory

\* a quarter of a pixel is the smallest step; two triangles share an edge between such points
Steps == {0, 2, 3, 6, 8}
Vertex(x, y, z, w) == [x |-> x, y |-> y, z |-> z, w |-> w]
Vertices == {Vertex(0, 0, -1, 2), Vertex(3, 0, 0, 1), Vertex(1, 4, 1, 2), Vertex(-3, -1, -3, 1), Vertex(0, 2, -1, -1),
             Vertex(-1, 1, 0, 1), Vertex(1, -2, 1, 1), Vertex(2, 1, -4, 1), Vertex(0, 0, 0, 1), Vertex(1, 0, -1, 1),
             Vertex(0, 1, -1, 2)}
Triangles == INSTANCE Rasterizer
               WITH rs <- tri, Unit <- 4, Starts <- {[x |-> 0, y |-> 0], [x |-> 2, y |-> 3]},
                    Points <- [x : Steps, y : Steps], Triangles <- {<<a, b, c>> : a, b, c \in Vertices},
                    Modes <- {"KeepAll", "KeepClockWise", "KeepCounterClockWise"}

Family == INSTANCE MCFragment
Pixels == INSTANCE Fragment
            WITH Families <- Family!MCFamilies, Fragments <- Family!MCFragments, Pixels <- Family!MCPixels,
                 MaxPipelines <- 1

CommandsOff == /\ image = Off /\ it = Off /\ regs = Off /\ ctx = Off /\ pool = Off /\ out = Off /\ status = Off
ShadersOff == /\ prog = Off /\ bool = Off /\ input = Off /\ phase = Off /\ blocks = Off /\ dirty = Off
              /\ targets = Off /\ functions = Off /\ code = Off /\ script = Off
              /\ int = Off /\ mic = Off /\ glsl = Off
ArithmeticOff == instr = Off /\ interpreted = Off /\ micro = Off /\ text = Off

PartInit ==
  /\ part \in {"commands", "shaders", "arithmetic", "copies", "triangles", "pixels"}
  /\ IF part = "commands" THEN Init ELSE CommandsOff
  /\ IF part = "shaders" THEN Shaders!Init ELSE ShadersOff
  /\ IF part = "arithmetic" THEN Arithmetic!Init ELSE ArithmeticOff
  /\ IF part = "copies" THEN Copies!Init ELSE gpu = Off
  /\ IF part = "triangles" THEN Triangles!Init ELSE tri = Off
  /\ IF part = "pixels" THEN Pixels!Init ELSE px = Off

PartNext == \/ part = "commands" /\ Next /\ UNCHANGED <<part, ShaderVars, ArithmeticVars, gpu, tri, px>>
            \/ part = "shaders" /\ Shaders!Next /\ UNCHANGED <<part, vars, ArithmeticVars, gpu, tri, px>>
            \/ part = "arithmetic" /\ Arithmetic!Next /\ UNCHANGED <<part, vars, ShaderVars, gpu, tri, px>>
            \/ part = "copies" /\ Copies!Next /\ UNCHANGED <<part, vars, ShaderVars, ArithmeticVars, tri, px>>
            \/ part = "triangles" /\ Triangles!Next /\ UNCHANGED <<part, vars, ShaderVars, ArithmeticVars, gpu, px>>
            \/ part = "pixels" /\ Pixels!Next /\ UNCHANGED <<part, vars, ShaderVars, ArithmeticVars, gpu, tri>>

PartSpec == PartInit /\ [][PartNext]_<<part, vars, ShaderVars, ArithmeticVars, gpu, tri, px>>

\* The words of a command list are taken in order, each once, although handlers advance the
\* iterator themselves, and by the handler of their own register; uploads of several words end up
\* as if every word were handled by itself; as many vertices are submitted in immediate mode as were
\* announced, and triangles have the vertices and the winding of their topology (CommandProcessor,
\* PrimitiveAssembler).  Excepted are the commands after a partial upload of a uniform, which the
\* code takes for its missing words (command_processor.cpp:586 cannot fire), and the vertex that is
\* announced for a word with no other after it.
ListsTaken == part = "commands" => CommandsInOrder /\ UploadsLand /\ VerticesAnnounced /\ TrianglesWound
\* A draw never uses an engine of another program (EnginePool::GetOrCompile).
DrawsCurrent == part = "commands" => EngineCurrent
\* The interpreter, the micro code and the GLSL text of a shader take the same way through it
\* and leave all of its scopes; the post-dominators that GLSL relies on are right; and every
\* instruction has the same operands in all three (BinaryArithmetic, Mad, Cmp, TranslateToGLSL).
EnginesAgree ==
  /\ part = "shaders" => /\ Shaders!TypeOK /\ Shaders!MicroCodeAgrees /\ Shaders!GLSLAgrees
                         /\ Shaders!PostDominatorsRight /\ Shaders!StacksUnwound
  /\ part = "arithmetic" => Arithmetic!MicroOperandsAgree /\ Arithmetic!TextOperandsAgree
\* The bus has hooks exactly where copies of memory need them (SetHook, ClearHook, ProtectFromWriteAccess),
\* and draws, copies and the processor use the newest contents (ResourceManager, BlitImage).
CopiesCoherent == part = "copies" => Copies!HooksFollow /\ Copies!CopiesCoherent
\* Two triangles at one edge draw every pixel of their union once (ProcessTriangleInternal), and what
\* the clipper emits lies inside of the view volume, is wound like the triangle and is the triangle
\* itself, or at least something, where that lies inside (ProcessTriangle).
TrianglesRight == part = "triangles" => Triangles!PixelsOnce /\ Triangles!ClippedRight
\* The rasteriser and the generated pipeline leave the same pixel (DrawPixel,
\* GenerateFragmentShader), and a draw uses a pipeline made for its registers (PipelineCache::Lookup).
PixelsAgree == part = "pixels" => Pixels!PixelsAgree /\ Pixels!PipelineCurrent
=============================================================================
