----------------------------- MODULE MCFragment -----------------------------
(* Registers to draw with: one part of them varies at a time.              *)
EXTENDS Integers, Sequences, FiniteSets, TLC

Color(r, g, b, a) == [r |-> r, g |-> g, b |-> b, a |-> a]
Plain(of) == [of |-> of, minus |-> FALSE]
Stage(op, aop, sources, asources, modifiers, amodifiers, srgb, sa) ==
  [color_source |-> sources, color_modifier |-> modifiers, color_op |-> op, scale_rgb |-> srgb,
   alpha_source |-> asources, alpha_modifier |-> amodifiers, alpha_op |-> aop, scale_a |-> sa,
   constant |-> Color(200, 3, 127, 90)]
PlainRGB == <<Plain("rgb"), Plain("rgb"), Plain("rgb")>>
PlainA == <<Plain("a"), Plain("a"), Plain("a")>>
Pass == Stage("Replace", "Replace", <<"Previous", "Previous", "Previous">>, <<"Previous", "Previous", "Previous">>, PlainRGB, PlainA, 1, 1)
Textured == Stage("Replace", "Replace", <<"Texture0", "Previous", "Previous">>, <<"Texture0", "Previous", "Previous">>, PlainRGB, PlainA, 1, 1)

Factor(sr, dr, sa, da, er, ea) == [enable |-> TRUE, source_rgb |-> sr, dest_rgb |-> dr, source_a |-> sa, dest_a |-> da,
                                   equation_rgb |-> er, equation_a |-> ea]
Opaque == Factor("One", "Zero", "One", "Zero", "Add", "Add")
NoBlend == [Opaque EXCEPT !.enable = FALSE]
NoStencil == [enabled |-> FALSE, function |-> "Always", reference |-> 5, mask_in |-> 255, mask_out |-> 255,
              fail |-> "Keep", depth_fail |-> "Keep", pass |-> "Keep"]
NoLight == [disabled |-> TRUE]
Base ==
  [stages |-> <<Textured, Pass, Pass>>, buffer_init |-> Color(9, 90, 180, 255), update_rgb |-> {}, update_a |-> {},
   textures |-> {"Texture0"}, alpha |-> [enable |-> FALSE, function |-> "Always", reference |-> 90],
   stencil |-> NoStencil, depth |-> [enable |-> FALSE, function |-> "Always", write |-> FALSE],
   blend |-> Opaque, blend_constant |-> Color(10, 20, 30, 40), logic_op |-> "Copy", mask |-> {"r", "g", "b", "a"},
   fb |-> [color_read |-> TRUE, color_write |-> TRUE, ds_read |-> TRUE, ds_write |-> TRUE, has_stencil |-> TRUE, format |-> "RGBA8"],
   cull_mode |-> "KeepAll", topology |-> "List", lighting |-> NoLight]

Operations == {"Replace", "Modulate", "Add", "AddSigned", "Lerp", "Subtract", "Dot3RGB", "Dot3RGBA", "MultiplyThenAdd", "AddThenMultiply"}
SourceSets == {<<"Texture0", "PrimaryColor", "Constant">>, <<"Constant", "Texture1", "PrimaryColor">>, <<"PrimaryColor", "CombinerBuffer", "Texture0">>}
ModifierSets == {<<PlainRGB, PlainA>>, <<<<[of |-> "rgb", minus |-> TRUE], Plain("a"), Plain("g")>>, <<Plain("b"), [of |-> "a", minus |-> TRUE], Plain("r")>>>>}
\* the first stage varies, the next ones keep, add or read back what the buffer holds
Stages ==
  {[Base EXCEPT !.stages = <<Stage(op, aop, s, s, m[1], m[2], k, 5 - k), second, third>>, !.update_rgb = u, !.update_a = {1, 2} \ u] :
     op \in Operations, aop \in {"Lerp", "AddSigned", "Dot3RGBA"}, s \in SourceSets, m \in ModifierSets, k \in {1, 4},
     u \in {{1}}, second \in {Pass},
     third \in {Stage("Add", "Subtract", <<"CombinerBuffer", "Previous", "Previous">>, <<"Previous", "CombinerBuffer", "Previous">>, PlainRGB, PlainA, 1, 1)}}
Lagging ==
  {[Base EXCEPT !.stages = <<Stage("Add", "Add", <<a, "PrimaryColor", a>>, <<a, "PrimaryColor", a>>, PlainRGB, PlainA, 1, 2),
                             Stage(op, op, <<b, "Constant", b>>, <<c, "Constant", b>>, PlainRGB, PlainA, 2, 1),
                             Stage("Modulate", "Replace", <<b, c, b>>, <<c, b, b>>, PlainRGB, PlainA, 1, 1)>>,
               !.update_rgb = u, !.update_a = v] :
     a \in {"Texture0"}, b \in {"CombinerBuffer", "Previous"}, c \in {"CombinerBuffer", "Previous"},
     op \in {"Subtract", "Modulate"}, u \in SUBSET {1, 2}, v \in SUBSET {1, 2}}
Functions8 == {"Never", "Always", "Equal", "NotEqual", "LessThan", "LessThanOrEqual", "GreaterThan", "GreaterThanOrEqual"}
Alpha == {[Base EXCEPT !.alpha = [enable |-> e, function |-> f, reference |-> r]] : e \in BOOLEAN, f \in Functions8, r \in {0, 90, 255}}
Depth == {[Base EXCEPT !.depth = [enable |-> e, function |-> f, write |-> w], !.fb.ds_read = r, !.fb.ds_write = d] :
            e \in BOOLEAN, f \in Functions8 \ {"Equal", "NotEqual"}, w \in BOOLEAN, r \in BOOLEAN, d \in BOOLEAN}
Stencil == {[Base EXCEPT !.stencil = [NoStencil EXCEPT !.enabled = TRUE, !.function = f, !.mask_in = mi, !.mask_out = mo, !.fail = x, !.depth_fail = y, !.pass = z],
                         !.depth = [enable |-> e, function |-> "LessThan", write |-> TRUE], !.fb.has_stencil = h] :
              f \in {"Always", "Equal", "LessThan", "GreaterThan", "LessThanOrEqual"}, mi \in {255, 6}, mo \in {255, 240}, h \in BOOLEAN, e \in BOOLEAN,
              x \in {"Replace", "DecrementAndClamp"}, y \in {"Invert"}, z \in {"Zero", "IncrementAndClamp", "IncrementAndWrap"}}
RGBFactors == {"Zero", "One", "SourceColor", "DestinationColor", "SourceAlpha", "OneMinusDestinationAlpha", "OneMinusConstantColor", "OneMinusConstantAlpha"}
AFactors == {"Zero", "One", "DestinationColor", "OneMinusSourceAlpha", "DestinationAlpha"}
Blending == {[Base EXCEPT !.blend = Factor(x, y, z, "One", e, g), !.blend_constant = c, !.mask = m] :
               x \in RGBFactors, y \in {"One", "OneMinusSourceAlpha"}, z \in AFactors, e \in {"Add"}, g \in {"Add", "ReverseSubtract"},
               c \in {Color(10, 20, 30, 40)}, m \in {{"r", "g", "b", "a"}}}
Formats == {[Base EXCEPT !.blend = b, !.logic_op = l, !.mask = m, !.fb.format = f, !.fb.color_read = r, !.fb.color_write = w] :
              b \in {NoBlend, Factor("SourceAlpha", "OneMinusSourceAlpha", "One", "Zero", "Add", "Add")}, l \in {"Set", "Noop", "Copy"},
              m \in {{"r", "g", "b", "a"}, {"r"}, {"g", "a"}}, f \in {"RGBA8", "RGB565", "RGBA5551", "RGBA4"}, r \in BOOLEAN, w \in BOOLEAN}
Lights == {[Base EXCEPT !.lighting = [disabled |-> FALSE, spot_disabled |-> s, d0_disabled |-> d, d1_disabled |-> e, geometric0 |-> g, geometric1 |-> h,
                                      clamp_highlights |-> TRUE, last |-> l, fr_disabled |-> f, fresnel_primary |-> p, fresnel_secondary |-> ~p],
                        !.stages[1].color_source[1] = "PrimaryFragmentColor"] :
             s \in BOOLEAN, d \in BOOLEAN, e \in BOOLEAN, g \in BOOLEAN, h \in BOOLEAN, l \in BOOLEAN, f \in BOOLEAN, p \in BOOLEAN}
Others == {[Base EXCEPT !.cull_mode = c, !.topology = t, !.blend_constant = k] :
             c \in {"KeepAll", "KeepClockWise"}, t \in {"List", "Strip"}, k \in {Color(10, 20, 30, 40), Color(0, 0, 0, 0)}}
MCFamilies == {Stages, Lagging, Alpha, Depth, Stencil, Blending, Formats, Lights, Others}

Fragment1 == [primary |-> Color(255, 128, 1, 90), lit |-> Color(7, 7, 7, 7), specular |-> Color(8, 8, 8, 8), z |-> 10,
              texture |-> [Texture0 |-> Color(64, 255, 130, 200), Texture1 |-> Color(1, 2, 3, 4), Texture2 |-> Color(0, 0, 0, 0)]]
MCFragments == {Fragment1, [Fragment1 EXCEPT !.texture["Texture0"] = Color(254, 0, 77, 90), !.z = 30]}
MCPixels == {[color |-> Color(100, 250, 3, 120), depth |-> 10, stencil |-> 5], [color |-> Color(255, 0, 129, 255), depth |-> 20, stencil |-> 0]}
=============================================================================
