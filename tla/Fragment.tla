------------------------------ MODULE Fragment ------------------------------
(***************************************************************************)
(* What happens to one fragment of a triangle in the two renderers: the    *)
(* software rasterizer (rasterizer.cpp) and the Vulkan one, which writes a *)
(* fragment shader (shader_gen.cpp) and looks up a pipeline by a hash of   *)
(* the registers (pipeline_cache.cpp, state_mapping.hpp).                  *)
(*                                                                         *)
(* A color has the components r, g, b and a in 0 .. 255.  Interpolation,   *)
(* texture lookup and the arithmetic of lights are left out: a fragment    *)
(* comes with its colors and its depth.  A modifier of a source is a       *)
(* record of the component it takes ("rgb" for each its own) and whether   *)
(* it subtracts that from 255.                                             *)
(***************************************************************************)
EXTENDS Integers, Sequences, FiniteSets, Bitwise

CONSTANTS Families,      \* the register contents that are drawn with, a set of sets
          Fragments,     \* the fragments: primary, lit, specular, texture, z
          Pixels,        \* contents of the pixel before a draw: color, depth, stencil
          MaxPipelines   \* bound on the pipelines in the cache

VARIABLE px
vars == <<px>>

RGB == {"r", "g", "b"}
Comp == RGB \cup {"a"}
Black == [c \in Comp |-> 0]
AtMost(n, x) == IF x < n THEN x ELSE n
AtLeast(n, x) == IF x > n THEN x ELSE n
Compare(f, x, y) ==
  CASE f = "Never" -> FALSE [] f = "Always" -> TRUE [] f = "Equal" -> x = y [] f = "NotEqual" -> x # y
    [] f = "LessThan" -> x < y [] f = "LessThanOrEqual" -> x <= y
    [] f = "GreaterThan" -> x > y [] f = "GreaterThanOrEqual" -> x >= y

-----------------------------------------------------------------------------
(* Texture environment of the rasterizer: every stage combines three inputs. *)
GetCombinerSource(source, stage, regs, frag, buffer, output) ==
  CASE source \in {"PrimaryColor", "PrimaryFragmentColor"} -> frag.primary
    [] source = "SecondaryFragmentColor" -> Black
    [] source \in {"Texture0", "Texture1", "Texture2"} -> IF source \in regs.textures THEN frag.texture[source] ELSE Black
    [] source = "Constant" -> stage.constant
    [] source = "CombinerBuffer" -> buffer
    [] source = "Previous" -> output

GetColorModifier(m, v, c) == LET x == v[IF m.of = "rgb" THEN c ELSE m.of] IN IF m.minus THEN 255 - x ELSE x
GetAlphaModifier(m, v) == IF m.minus THEN 255 - v[m.of] ELSE v[m.of]

ColorCombine(op, in1, in2, in3) ==
  CASE op = "Replace" -> in1
    [] op = "Modulate" -> (in1 * in2) \div 255
    [] op = "Add" -> AtMost(255, in1 + in2)
    [] op = "AddSigned" -> AtMost(255, AtLeast(127, in1 + in2) - 127)
    [] op = "Lerp" -> (in1 * in3 + in2 * (255 - in3)) \div 255
    [] op = "Subtract" -> AtLeast(0, in1 - in2)
    [] op = "MultiplyThenAdd" -> AtMost(255, (in1 * in2 + 255 * in3) \div 255)
    [] op = "AddThenMultiply" -> AtMost(255, ((in1 + in2) * in3) \div 255)

\* AddThenMultiply clamps before it divides
AlphaCombine(op, in1, in2, in3) ==
  CASE op = "Subtract" -> AtLeast(in2, in1) - in2
    [] op = "AddThenMultiply" -> AtMost(255, (in1 + in2) * in3) \div 255
    [] OTHER -> ColorCombine(op, in1, in2, in3)

\* the stage whose output enters the buffer in stage i
StoredAtOnce(i) == i
StoredStage(i) == i - 1
CombineStage(regs, frag, i, s) ==
  LET stage == regs.stages[i]
      source(x) == GetCombinerSource(x, stage, regs, frag, s.buffer, s.output)
      color(c, n) == GetColorModifier(stage.color_modifier[n], source(stage.color_source[n]), c)
      alpha(n) == GetAlphaModifier(stage.alpha_modifier[n], source(stage.alpha_source[n]))
      combined == [c \in Comp |-> IF c = "a" THEN AlphaCombine(stage.alpha_op, alpha(1), alpha(2), alpha(3))
                                             ELSE ColorCombine(stage.color_op, color(c, 1), color(c, 2), color(c, 3))]
  IN  [output |-> [c \in Comp |-> AtMost(255, combined[c] * (IF c = "a" THEN stage.scale_a ELSE stage.scale_rgb))],
       buffer |-> [c \in Comp |-> IF i > 1 /\ StoredStage(i) \in (IF c = "a" THEN regs.update_a ELSE regs.update_rgb)
                                  THEN s.output[c] ELSE s.buffer[c]]]

\* the loop over the stages
Combiners(regs, frag) ==
  LET after[i \in 0 .. Len(regs.stages)] ==
        IF i = 0 THEN [buffer |-> regs.buffer_init, output |-> regs.buffer_init]
        ELSE CombineStage(regs, frag, i, after[i - 1])
  IN  after[Len(regs.stages)].output

-----------------------------------------------------------------------------
(* Tests and output of the rasterizer. *)
AlphaTestFailed(value, reference, function) ==
  CASE function = "NotEqual" -> ~(value # reference) [] function = "GreaterThan" -> ~(value > reference)

ApplyStencilOp(op, mask, value, ref) ==
  LET new == CASE op = "Keep" -> value
               [] op = "Zero" -> 0
               [] op = "Replace" -> ref
               [] op = "IncrementAndClamp" -> AtMost(254, value) + 1
               [] op = "DecrementAndClamp" -> AtLeast(1, value) - 1
               [] op = "Invert" -> 255 - value
               [] op = "IncrementAndWrap" -> (value + 1) % 256
               [] op = "DecrementAndWrap" -> (value - 1) % 256
  IN  IF op = "Keep" THEN value ELSE (new & mask) | (value & (255 - mask))

LookupFactorRGB(f, src, dest, constant, c) ==
  CASE f = "Zero" -> 0 [] f = "One" -> 255
    [] f = "SourceColor" -> src[c] [] f = "DestinationColor" -> dest[c]
    [] f = "SourceAlpha" -> src.a [] f = "OneMinusSourceAlpha" -> 255 - src.a
    [] f = "DestinationAlpha" -> dest.a [] f = "OneMinusDestinationAlpha" -> 255 - dest.a
    [] f = "OneMinusConstantColor" -> 255 - constant[c] [] f = "OneMinusConstantAlpha" -> 255 - constant.a
LookupFactorA(f, src, dest) ==
  CASE f = "Zero" -> 0 [] f = "One" -> 255
    [] f \in {"DestinationColor", "DestinationAlpha"} -> dest.a
    [] f = "SourceAlpha" -> src.a [] f = "OneMinusSourceAlpha" -> 255 - src.a
    [] f = "OneMinusDestinationAlpha" -> 255 - dest.a
EvaluateBlendEquation(equation, src, sf, dest, df) ==
  IF equation = "Add" THEN AtMost(255, (src * sf + dest * df) \div 255)
                      ELSE AtLeast(0, (dest * df - src * sf) \div 255)

Blend(regs, src, dest) ==
  LET b == regs.blend
      rgb(f, c) == LookupFactorRGB(f, src, dest, regs.blend_constant, c)
      a(f) == LookupFactorA(f, src, dest)
  IN  [c \in Comp |-> IF c = "a" THEN EvaluateBlendEquation(b.equation_a, src.a, a(b.source_a), dest.a, a(b.dest_a))
                                 ELSE EvaluateBlendEquation(b.equation_rgb, src[c], rgb(b.source_rgb, c), dest[c], rgb(b.dest_rgb, c))]
LogicOp(op, src, dest) == IF op = "Set" THEN src ELSE dest

\* bits of a component in memory; a component without bits is read as 255
Bits(format) ==
  [c \in Comp |-> CASE format = "RGBA8" -> 8 [] format = "RGBA4" -> 4
                    [] format = "RGB565" -> (IF c = "g" THEN 6 ELSE IF c = "a" THEN 0 ELSE 5)
                    [] format = "RGBA5551" -> IF c = "a" THEN 1 ELSE 5]
GetPixel(format, memory) ==
  [c \in Comp |-> LET n == Bits(format)[c] IN
     CASE n = 0 -> 255 [] n = 1 -> 255 * memory[c] [] n = 8 -> memory[c]
       [] OTHER -> memory[c] * 2 ^ (8 - n) + memory[c] \div 2 ^ (2 * n - 8)]
DrawPixelRounded(format, color) ==
  [c \in Comp |-> LET n == Bits(format)[c] IN AtMost(2 ^ n - 1, (color[c] + (IF n = 8 THEN 0 ELSE 2 ^ (7 - n))) \div 2 ^ (8 - n))]
DrawPixel(format, color) == [c \in Comp |-> color[c] \div 2 ^ (8 - Bits(format)[c])]

\* the depth test: a fragment that fails it still changes the stencil value
DepthPassed(regs, z, depth) == ~regs.depth.enable \/ Compare(regs.depth.function, z, depth)
SetDepth(regs, z, depth) == IF regs.depth.enable /\ regs.fb.ds_write /\ regs.depth.write THEN z ELSE depth

ColorOutput(regs, src, memory) ==
  LET dest == GetPixel(regs.fb.format, memory)
      blended == IF regs.blend.enable THEN Blend(regs, src, dest) ELSE LogicOp(regs.logic_op, src, dest)
  IN  IF ~regs.fb.color_write THEN memory
      ELSE DrawPixel(regs.fb.format, [c \in Comp |-> IF c \in regs.mask THEN blended[c] ELSE dest[c]])

\* the body of the loop over the pixels of a triangle
ProcessFragment(regs, frag, pixel) ==
  LET st == regs.stencil
      color == Combiners(regs, frag)
      stencil(op) == IF st.enabled THEN [pixel EXCEPT !.stencil = ApplyStencilOp(op, st.mask_out, @, st.reference)] ELSE pixel
  IN  IF regs.alpha.enable /\ regs.alpha.function # "Always" /\ AlphaTestFailed(color.a, regs.alpha.reference, regs.alpha.function)
      THEN pixel
      ELSE IF st.enabled /\ ~Compare(st.function, st.reference & st.mask_in, pixel.stencil & st.mask_in)
      THEN stencil(st.fail)
      ELSE IF ~DepthPassed(regs, frag.z, pixel.depth)
      THEN stencil(st.depth_fail)
      ELSE [stencil(st.pass) EXCEPT !.depth = SetDepth(regs, frag.z, @), !.color = ColorOutput(regs, color, @)]

\* what the rasterizer refuses: its switches that end in a throw, and write-only buffers
ValidatePipelineConfiguration(regs) ==
  /\ ~regs.fb.color_read /\ regs.fb.color_write =>
       IF regs.blend.enable THEN regs.blend.dest_rgb = "Zero" /\ regs.blend.dest_a = "Zero" ELSE regs.logic_op = "Set"
  /\ ~regs.fb.ds_read => /\ ~regs.fb.ds_write
                         /\ ~(regs.depth.enable /\ regs.depth.function # "Always")
                         /\ ~regs.stencil.enabled
RasterizerImplements(regs) ==
  /\ ValidatePipelineConfiguration(regs)
  /\ \A i \in DOMAIN regs.stages : {regs.stages[i].color_op, regs.stages[i].alpha_op} \cap {"Dot3RGB", "Dot3RGBA"} = {}
  /\ \A i \in DOMAIN regs.stages, n \in 1 .. 3 : "Texture3" \notin {regs.stages[i].color_source[n], regs.stages[i].alpha_source[n]}
  /\ regs.alpha.enable => regs.alpha.function \in {"Always", "NotEqual", "GreaterThan"}
  /\ regs.stencil.enabled => regs.fb.has_stencil
  /\ regs.depth.enable => regs.depth.function # "LessThanOrEqual"
  /\ ~regs.blend.enable => regs.logic_op \in {"Set", "Noop"}
  /\ regs.blend.enable =>
       {regs.blend.source_rgb, regs.blend.dest_rgb} \cap {"ConstantColor", "ConstantAlpha", "SourceAlphaSaturate"} = {}
  /\ regs.blend.enable => {regs.blend.source_a, regs.blend.dest_a} \cap 
       {"SourceColor", "ConstantColor", "OneMinusConstantColor", "ConstantAlpha", "OneMinusConstantAlpha", "SourceAlphaSaturate"} = {}

-----------------------------------------------------------------------------
(* The fragment shader that is generated: variables with their swizzles, and
   constant data apart from them in a buffer of uniforms. *)
TextureText(regs) == [t \in {"Texture0", "Texture1", "Texture2"} |-> IF t \in regs.textures THEN "sample" ELSE "zero"]

GetSourceColor(source) ==
  CASE source = "PrimaryColor" -> "in_color" [] source = "PrimaryFragmentColor" -> "lit_color_primary"
    [] source = "SecondaryFragmentColor" -> "lit_color_secondary"
    [] source = "CombinerBuffer" -> "combiner_buffer" [] source = "Constant" -> "tev_const"
    [] source = "Previous" -> "combiner_output" [] OTHER -> source
GetSourceAlpha(source) == GetSourceColor(source)
GetModifiedColor(m, name) == [name |-> name, minus |-> m.minus, swizzle |-> [c \in RGB |-> IF m.of = "rgb" THEN c ELSE m.of]]
GetModifiedAlpha(m, name) == [name |-> name, minus |-> m.minus, swizzle |-> m.of]

StageText(regs, i) ==
  LET s == regs.stages[i]
  IN  [rgb_in |-> [n \in 1 .. 3 |-> GetModifiedColor(s.color_modifier[n], GetSourceColor(s.color_source[n]))],
       a_in |-> [n \in 1 .. 3 |-> GetModifiedAlpha(s.alpha_modifier[n], GetSourceAlpha(s.alpha_source[n]))],
       rgb_op |-> s.color_op, a_op |-> s.alpha_op,
       store_rgb |-> i > 1 /\ (i - 1) \in regs.update_rgb, store_a |-> i > 1 /\ (i - 1) \in regs.update_a,
       multiplier |-> IF s.scale_rgb # 1 \/ s.scale_a # 1 THEN <<s.scale_rgb, s.scale_a>> ELSE <<>>]

\* functions whose failing fragments are found by the opposite comparison
AlphaTestText(alpha) ==
  LET opposite == [NotEqual |-> "Equal", LessThan |-> "GreaterThanOrEqual", LessThanOrEqual |-> "GreaterThan",
                   GreaterThan |-> "LessThanOrEqual", GreaterThanOrEqual |-> "LessThan"]
  IN  IF alpha.enable /\ alpha.function # "Always" THEN <<opposite[alpha.function], alpha.reference>> ELSE <<>>

\* statements about one light: the names that each declares and uses
LightText(l) ==
  LET st(declares, uses) == <<[declares |-> declares, uses |-> uses]>>
      when(p, text) == IF p THEN text ELSE <<>>
      spot == ~l.spot_disabled /\ (~l.d0_disabled \/ ~l.d1_disabled)
      geo == (~l.d0_disabled /\ l.geometric0) \/ (~l.d1_disabled /\ l.geometric1)
      specular(geometric) == st({}, {"specular", "half_vector"} \cup (IF spot THEN {"spot"} ELSE {}) \cup (IF geometric THEN {"geo_factor"} ELSE {}))
      fresnel == l.last /\ ~l.fr_disabled /\ (l.fresnel_primary \/ l.fresnel_secondary)
  IN  st({"light_vector"}, {}) \o st({"half_vector"}, {"view", "light_vector"}) \o st({"half_vector_length_sq"}, {"half_vector"})
      \o st({"diffuse_dot"}, {"normal", "light_vector"}) \o st({}, {"lit_color_primary", "diffuse_dot"}) \o st({"specular"}, {})
      \o when(spot, st({"spot"}, {"normal", "half_vector"}))
      \o when(geo, st({"geo_factor"}, {"half_vector_length_sq", "diffuse_dot"}))
      \o when(~l.d0_disabled, specular(l.geometric0)) \o when(~l.d1_disabled, specular(l.geometric1))
      \o when(l.clamp_highlights, st({}, {"diffuse_dot", "specular"}))
      \o when(fresnel, st({"fresnel"}, {"normal", "half_vector"}) \o
                       when(l.fresnel_primary, st({}, {"lit_color_primary", "fresnel"})) \o
                       when(l.fresnel_secondary, st({}, {"lit_color_secondary", "fresnel"})))
      \o st({}, {"lit_color_secondary", "specular"})

GenerateFragmentShader(regs) ==
  [textures |-> TextureText(regs),
   light |-> IF regs.lighting.disabled THEN <<>> ELSE LightText(regs.lighting),
   stages |-> [i \in DOMAIN regs.stages |-> StageText(regs, i)],
   discard |-> AlphaTestText(regs.alpha)]

\* GLSL has unsigned integers: a difference must not go below zero
Dot3(x, y) ==
  LET udot(f, g) == f["r"] * g["r"] + f["g"] * g["g"] + f["b"] * g["b"]
      sum == udot([c \in RGB |-> x[c] + y[c]], [c \in RGB |-> 2])
  IN  AtMost(255, AtLeast(sum, (4 * udot(x, y)) \div 255 + 3 * 255) - sum)
CombineRGB(op, in1, in2, in3, c) ==
  CASE op = "Replace" -> in1[c]
    [] op = "Modulate" -> (in1[c] * in2[c]) \div 255
    [] op = "Add" -> AtMost(255, in1[c] + in2[c])
    [] op = "AddSigned" -> AtMost(255, AtLeast(127, in1[c] + in2[c]) - 127)
    [] op = "Subtract" -> AtLeast(in2[c], in1[c]) - in2[c]
    [] op \in {"Dot3RGB", "Dot3RGBA"} -> Dot3(in1, in2)
    [] op = "MultiplyThenAdd" -> AtMost(255, (in1[c] * in2[c] + 255 * in3[c]) \div 255)
    [] op = "AddThenMultiply" -> AtMost(255, ((in1[c] + in2[c]) * in3[c]) \div 255)
    [] op = "Lerp" -> (in1[c] * in3[c] + in2[c] * (255 - in3[c])) \div 255
CombineA(op, in, rgb1, rgb2) ==
  CASE op = "Replace" -> in[1]
    [] op = "Modulate" -> (in[1] * in[2]) \div 255
    [] op = "Add" -> AtMost(255, in[1] + in[2])
    [] op = "AddSigned" -> AtMost(255, AtLeast(127, in[1] + in[2]) - 127)
    [] op = "Lerp" -> (in[1] * in[3] + in[2] * (255 - in[3])) \div 255
    [] op = "Subtract" -> AtLeast(in[2], in[1]) - in[2]
    [] op = "Dot3RGBA" -> Dot3(rgb1, rgb2)
    [] op = "MultiplyThenAdd" -> AtMost(255, (in[1] * in[2] + 255 * in[3]) \div 255)
    [] op = "AddThenMultiply" -> AtMost(255, ((in[1] + in[2]) * in[3]) \div 255)

\* running the text of one stage with the values of the variables
RunStage(text, i, env) ==
  LET s == text.stages[i]
      value(name) == IF name = "tev_const" THEN env.tev_const[i] ELSE env[name]
      rgb(n) == [c \in RGB |-> LET e == s.rgb_in[n] IN IF e.minus THEN 255 - value(e.name)[e.swizzle[c]] ELSE value(e.name)[e.swizzle[c]]]
      a == [n \in 1 .. 3 |-> LET e == s.a_in[n] IN IF e.minus THEN 255 - value(e.name)[e.swizzle] ELSE value(e.name)[e.swizzle]]
      out == [c \in Comp |-> IF c = "a" THEN CombineA(s.a_op, a, rgb(1), rgb(2)) ELSE CombineRGB(s.rgb_op, rgb(1), rgb(2), rgb(3), c)]
  IN  [env EXCEPT !.combiner_buffer = [c \in Comp |-> IF (IF c = "a" THEN s.store_a ELSE s.store_rgb) THEN env.combiner_output[c] ELSE @[c]],
                  !.combiner_output = IF s.multiplier = <<>> THEN out
                                      ELSE [c \in Comp |-> AtMost(255, out[c] * s.multiplier[IF c = "a" THEN 2 ELSE 1])]]
RunFragmentShader(text, regs, frag) ==
  LET env == [combiner_buffer |-> regs.buffer_init, combiner_output |-> regs.buffer_init, in_color |-> frag.primary,
              lit_color_primary |-> IF text.light = <<>> THEN [Black EXCEPT !.a = 255] ELSE frag.lit,
              lit_color_secondary |-> IF text.light = <<>> THEN [Black EXCEPT !.a = 255] ELSE frag.specular,
              tev_const |-> [i \in DOMAIN regs.stages |-> regs.stages[i].constant],
              Texture0 |-> Black, Texture1 |-> Black, Texture2 |-> Black, Texture3 |-> Black]
      sampled == [x \in DOMAIN env |-> IF x \in DOMAIN text.textures /\ text.textures[x] = "sample" THEN frag.texture[x] ELSE env[x]]
      after[i \in 0 .. Len(text.stages)] == IF i = 0 THEN sampled ELSE RunStage(text, i, after[i - 1])
      color == after[Len(text.stages)].combiner_output
  IN  [color |-> color, discard |-> text.discard # <<>> /\ Compare(text.discard[1], color.a, text.discard[2])]

-----------------------------------------------------------------------------
(* Pipelines: a hash of registers finds one, or one is created from them. *)
DepthStencilEnabled(regs) == regs.fb.ds_read
WriteOnly(regs) == ~regs.depth.enable /\ regs.fb.ds_write /\ regs.depth.write
EnableStencil(regs) == regs.fb.has_stencil /\ regs.stencil.enabled
DepthStencilInfo(regs) ==
  [test |-> DepthStencilEnabled(regs) /\ (regs.depth.enable \/ WriteOnly(regs)),
   write |-> DepthStencilEnabled(regs) /\ regs.fb.ds_write /\ regs.depth.write,
   function |-> IF DepthStencilEnabled(regs) /\ ~WriteOnly(regs) THEN regs.depth.function ELSE "Always",
   stencil |-> IF EnableStencil(regs) THEN regs.stencil ELSE [enabled |-> FALSE]]

HashOfFactors(regs) == IF regs.blend.enable THEN <<regs.blend>> ELSE <<regs.logic_op>>
HashOfBlend(regs) == IF regs.blend.enable THEN <<regs.blend, regs.blend_constant>> ELSE <<regs.logic_op>>
PipelineStateHash(regs, text) ==
  LET info == DepthStencilInfo(regs)
  IN  [shader |-> text, cull |-> regs.cull_mode, alphablend |-> regs.blend.enable, topology |-> regs.topology,
       flags |-> IF DepthStencilEnabled(regs)
                 THEN <<regs.depth.enable, regs.fb.ds_write /\ regs.depth.write, regs.depth.function>> ELSE <<>>,
       blend |-> HashOfBlend(regs),
       depth |-> IF info.test THEN <<info.write, info.function>> ELSE <<>>,
       stencil |-> IF EnableStencil(regs) THEN <<regs.stencil>> ELSE <<>>]

CreatePipeline(regs, text) ==
  [shader |-> text, cull |-> regs.cull_mode, topology |-> regs.topology, depth_stencil |-> DepthStencilInfo(regs),
   components |-> IF regs.fb.color_write THEN regs.mask ELSE {},
   blend |-> IF regs.blend.enable THEN <<regs.blend, regs.blend_constant>> ELSE <<>>,
   logic_op |-> IF regs.blend.enable THEN "none" ELSE regs.logic_op]

\* what the functions FromPicaState map; they refuse the rest
StencilFunctions == {"Never", "Always", "Equal", "NotEqual", "LessThan", "GreaterThan"}
StencilOps == {"Keep", "Zero", "Replace", "IncrementAndClamp", "DecrementAndClamp", "Invert"}
DepthFunctions == {"Never", "Always", "LessThan", "LessThanOrEqual", "GreaterThan", "GreaterThanOrEqual"}
BlendFactors == {"Zero", "One", "SourceColor", "DestinationColor", "SourceAlpha", "OneMinusSourceAlpha", "DestinationAlpha",
                 "OneMinusDestinationAlpha", "ConstantColor", "OneMinusConstantColor", "ConstantAlpha", "OneMinusConstantAlpha",
                 "SourceAlphaSaturate"}
LogicOps == {"Copy", "Set", "Noop"}
VulkanImplements(regs) ==
  LET st == regs.stencil
      b == regs.blend
  IN  /\ st.enabled => regs.fb.has_stencil
      /\ EnableStencil(regs) => DepthStencilEnabled(regs) /\ {st.fail, st.depth_fail, st.pass} \subseteq StencilOps /\ st.function \in StencilFunctions
      /\ DepthStencilEnabled(regs) /\ ~WriteOnly(regs) => regs.depth.function \in DepthFunctions
      /\ IF b.enable THEN {b.source_rgb, b.dest_rgb, b.source_a, b.dest_a} \subseteq BlendFactors ELSE regs.logic_op \in LogicOps
      /\ \A i \in DOMAIN regs.stages : regs.stages[i].alpha_op # "Dot3RGB"
      /\ regs.alpha.enable => regs.alpha.function \notin {"Never", "Equal"}

\* the fixed functions of the device, for a pixel of format RGBA8
DeviceFactor(f, src, dest, constant, c) ==
  CASE f = "Zero" -> 0 [] f = "One" -> 255 [] f = "SourceColor" -> src[c] [] f = "DestinationColor" -> dest[c]
    [] f = "SourceAlpha" -> src.a [] f = "OneMinusSourceAlpha" -> 255 - src.a
    [] f = "DestinationAlpha" -> dest.a [] f = "OneMinusDestinationAlpha" -> 255 - dest.a
    [] f = "OneMinusConstantColor" -> 255 - constant[c] [] f = "OneMinusConstantAlpha" -> 255 - constant.a
DeviceBlend(pipeline, src, dest) ==
  LET b == pipeline.blend[1]
      term(x, f, c) == x[c] * DeviceFactor(f, src, dest, pipeline.blend[2], c)
      rounded(x) == (2 * x + 255) \div 510
      of(equation, s, d) == IF equation = "Add" THEN AtMost(255, rounded(s + d)) ELSE AtLeast(0, rounded(d - s))
  IN  [c \in Comp |-> IF c = "a" THEN of(b.equation_a, term(src, b.source_a, c), term(dest, b.dest_a, c))
                                 ELSE of(b.equation_rgb, term(src, b.source_rgb, c), term(dest, b.dest_rgb, c))]
DeviceLogicOp(op, src, dest) == [c \in Comp |-> CASE op = "Copy" -> src[c] [] op = "Set" -> 255 [] op = "Noop" -> dest[c]]
DeviceDraw(pipeline, regs, frag, pixel) ==
  LET out == RunFragmentShader(pipeline.shader, regs, frag)
      ds == pipeline.depth_stencil
      st == ds.stencil
      stencil(op) == IF st.enabled
                     THEN [pixel EXCEPT !.stencil = (ApplyStencilOp(op, 255, @, st.reference) & st.mask_out) | (@ & (255 - st.mask_out))]
                     ELSE pixel
      color == IF pipeline.blend = <<>> THEN DeviceLogicOp(pipeline.logic_op, out.color, pixel.color)
               ELSE DeviceBlend(pipeline, out.color, pixel.color)
  IN  IF out.discard THEN pixel
      ELSE IF st.enabled /\ ~Compare(st.function, st.reference & st.mask_in, pixel.stencil & st.mask_in) THEN stencil(st.fail)
      ELSE IF ds.test /\ ~Compare(ds.function, frag.z, pixel.depth) THEN stencil(st.depth_fail)
      ELSE [(IF st.enabled THEN stencil(st.pass) ELSE pixel)
              EXCEPT !.depth = IF ds.test /\ ds.write THEN frag.z ELSE @,
                     !.color = [c \in Comp |-> IF c \in pipeline.components THEN color[c] ELSE @[c]]]

-----------------------------------------------------------------------------
Nothing == [done |-> FALSE]
Init == px = [cache |-> {}, regs |-> Nothing, pipeline |-> Nothing, drawn |-> Nothing]

\* a draw call finds or creates its pipeline
Lookup ==
  /\ px.regs = Nothing
  /\ \E family \in Families : \E regs \in family :
       LET text == GenerateFragmentShader(regs)
           hash == PipelineStateHash(regs, text)
           found == {e \in px.cache : e.hash = hash}
           new == [hash |-> hash, pipeline |-> CreatePipeline(regs, text)]
       IN  /\ VulkanImplements(regs)
           /\ found = {} => Cardinality(px.cache) < MaxPipelines
           /\ px' = [px EXCEPT !.regs = regs,
                               !.pipeline = IF found = {} THEN new.pipeline ELSE (CHOOSE e \in found : TRUE).pipeline,
                               !.cache = IF found = {} THEN @ \cup {new} ELSE @]

\* the same fragment on the same pixel in both renderers, if the other one implements it
Draw ==
  /\ px.regs # Nothing /\ px.drawn = Nothing
  /\ RasterizerImplements(px.regs)
  /\ \E frag \in Fragments, pixel \in Pixels :
       LET dest == [pixel EXCEPT !.color = DrawPixel(px.regs.fb.format, @)]
       IN  px' = [px EXCEPT !.drawn = [done |-> TRUE, before |-> dest, software |-> ProcessFragment(px.regs, frag, dest),
                                       device |-> DeviceDraw(px.pipeline, px.regs, frag, pixel)]]

\* the registers change before the next draw
Submit == px.regs # Nothing /\ px' = [px EXCEPT !.regs = Nothing, !.pipeline = Nothing, !.drawn = Nothing]

Next == Lookup \/ Draw \/ Submit
Spec == Init /\ [][Next]_vars

-----------------------------------------------------------------------------
\* where the rasterizer is known to do something else: lit colors, the clamp of AddThenMultiply,
\* the logic operation Set, and writing depth without a depth test
Deviates(regs) ==
  \/ \E i \in DOMAIN regs.stages :
       \/ \E n \in 1 .. 3 : {regs.stages[i].color_source[n], regs.stages[i].alpha_source[n]}
                               \cap {"PrimaryFragmentColor", "SecondaryFragmentColor"} # {}
       \/ regs.stages[i].alpha_op = "AddThenMultiply"
  \/ ~regs.blend.enable /\ regs.logic_op = "Set"
  \/ WriteOnly(regs)
Near(x, y) == \A c \in Comp : x[c] - y[c] \in -1 .. 1

(* Both renderers leave the same pixel, up to the rounding of a blend: the *)
(* stages, whose buffer lags behind by one, the tests with their stencil   *)
(* updates, and the blend (ProcessTriangleInternal, GenerateFragmentShader, *)
(* FromPicaState).  A component that is not written keeps its bits,        *)
(* although the rasterizer converts the pixel from its format and back     *)
(* (GetPixel, DrawPixel).                                                  *)
PixelsAgree ==
  px.drawn.done =>
    /\ \A c \in Comp \ px.regs.mask : px.drawn.software.color[c] = px.drawn.before.color[c]
    /\ px.regs.fb.format = "RGBA8" /\ ~Deviates(px.regs) /\ px.pipeline.components = CreatePipeline(px.regs, <<>>).components =>
         /\ px.drawn.software.depth = px.drawn.device.depth
         /\ px.drawn.software.stencil = px.drawn.device.stencil
         /\ Near(px.drawn.software.color, px.drawn.device.color)

(* Whatever was drawn before, the pipeline that the hash finds is the one  *)
(* that the registers describe, but for its color mask, which the hash     *)
(* leaves out; the shader of it declares what it uses (Lookup).            *)
PipelineCurrent ==
  px.regs # Nothing =>
    /\ [px.pipeline EXCEPT !.components = {}] = [CreatePipeline(px.regs, GenerateFragmentShader(px.regs)) EXCEPT !.components = {}]
    /\ \A i \in DOMAIN px.pipeline.shader.light :
         px.pipeline.shader.light[i].uses \subseteq
           {"view", "normal", "lit_color_primary", "lit_color_secondary"} \cup UNION {px.pipeline.shader.light[j].declares : j \in 1 .. i - 1}
=============================================================================
