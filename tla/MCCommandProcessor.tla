------------------------- MODULE MCCommandProcessor -------------------------
(* CommandProcessor with lists of a few uploads, draws and jumps. *)
EXTENDS CommandProcessor

Block(id, values) == [id |-> id, mask |-> Full, group |-> FALSE, values |-> values]
Group(id, values) == [id |-> id, mask |-> Full, group |-> TRUE, values |-> values]
Partial(id, values) == [id |-> id, mask |-> 4, group |-> FALSE, values |-> values]

\* what programs put into their lists
Pieces == {<<Block(lut_write_index, <<3>>), Block(456, <<1, 2>>), Group(456, <<3, 5>>)>>,
           <<Partial(457, <<6, 7>>), Block(458, <<8, 9>>)>>,
           <<Group(uniform_setup, <<33, 1, 2, 3, 4>>)>>,
           <<Block(uniform_setup, <<2>>), Block(705, <<5, 6, 7, 8, 9, 10>>)>>,
           <<Block(uniform_setup, <<0>>), Group(705, <<5, 6, 7>>), Block(705, <<11>>), Group(706, <<12, 13>>)>>,
           <<Group(sink_index, <<2, 5, 6, 7>>), Block(564, <<8, 9, 10>>)>>,
           <<Block(program_offset, <<1>>), Block(716, <<7, 8, 9>>)>>,
           <<Block(program_offset, <<1>>), Group(717, <<9, 8>>)>>,
           <<Block(swizzle_offset, <<0>>), Block(726, <<5, 6, 7, 9>>)>>,
           <<Partial(vs_bool_uniforms, <<6>>), Block(vs_main_offset, <<1>>)>>,
           <<Group(vs_bool_uniforms, <<0, 3>>)>>,
           <<Block(558, <<1>>)>>,
           <<Block(sink_index, <<Immediate>>), Block(563, <<1, 2, 3, 4, 5, 6>>), Block(565, <<7, 8, 9>>)>>,
           <<Block(sink_index, <<Immediate>>), Block(triangle_topology, <<1>>),
             Block(563, <<1, 2, 3, 4, 5, 6, 7, 8, 9, 10, 11, 12, 13>>), Block(564, <<14, 15>>)>>,
           <<Block(triangle_topology, <<2>>), Block(max_attribute, <<1>>)>>,
           <<Block(triangle_topology, <<0>>), Block(nop_draw, <<1>>)>>,
           <<Block(trigger_irq, <<0>>)>>}
Odd == {<<Block(563, <<1, 2>>)>>, <<Partial(563, <<1, 2>>)>>, <<Partial(706, <<1, 2>>)>>,
        <<Block(lut_write_index, <<8>>), Block(456, <<1>>)>>, <<Block(5, <<1>>)>>}

\* uploads of uniforms that lack words, with floats of 32 and of 24 bits
Short == {<<Block(uniform_setup, <<1>>), Block(705, <<5, 6>>)>>,
          <<Group(uniform_setup, <<33, 1, 2>>)>>}

Size(b) == Align(1 + Len(b.values))
Start(bs, k) == FoldLeft(LAMBDA n, b : n + Size(b), 0, SubSeq(bs, 1, k - 1))
Total(bs) == Start(bs, Len(bs) + 1)

Header(b) == [id |-> b.id, mask |-> b.mask, extra |-> Len(b.values) - 1, group |-> b.group]
At(b, k) == IF k = 1 THEN 0 ELSE k               \* the header is the second word
WordsOf(b) == <<b.values[1], Header(b)>> \o Tail(b.values) \o (IF Len(b.values) % 2 = 0 THEN <<0>> ELSE <<>>)

Memory(bs) == LET ws == FlattenSeq([k \in DOMAIN bs |-> WordsOf(bs[k])])
              IN  [a \in 0 .. Len(ws) - 1 |-> ws[a + 1]]
Writes(bs, k) == [j \in DOMAIN bs[k].values |->
                    [id |-> IF bs[k].group THEN bs[k].id + j - 1 ELSE bs[k].id, value |-> bs[k].values[j],
                     mask |-> bs[k].mask, at |-> Start(bs, k) + At(bs[k], j)]]
Stream(bs, ks) == FlattenSeq([j \in DOMAIN ks |-> Writes(bs, ks[j])])

Plain(bs) == [words |-> Memory(bs), size |-> Total(bs), stream |-> Stream(bs, [k \in DOMAIN bs |-> k])]

\* a list that goes on with a second one before its last block
Jumping(first, second) ==
  LET jump(a) == <<Group(568, <<Total(second) \div 2>>), Group(570, <<a>>), Block(572, <<1>>), Block(0, <<1>>)>>
      bs == first \o jump(Total(first \o jump(0)) \div 2) \o second
      skipped == Len(first) + 4
      run == SelectSeq([k \in DOMAIN bs |-> k], LAMBDA k : k # skipped)
  IN  [words |-> Memory(bs), size |-> Total(first) + Total(jump(0)), stream |-> Stream(bs, run)]

MCImages == {Plain(p \o q \o r) : p \in Pieces, q \in Pieces \union Short, r \in Pieces \union Odd}
              \union {Jumping(p, q) : p \in Pieces, q \in Pieces \union Odd \union Short}
=============================================================================
