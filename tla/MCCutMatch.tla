----------------------------- MODULE MCCutMatch -----------------------------
(* Old gates are 1 to 10, golden gates 11 to 20: the constants, three      *)
(* inputs, three gates of inputs, one above them and the root.             *)
EXTENDS CutMatch

MCOld == 1 .. 10
MCGol == 11 .. 20

MCShapes == [three |-> [mid |-> <<6, 7>>, root |-> <<9, 8>>],
             wide |-> [mid |-> <<6, 8>>, root |-> <<6, 7, 8>>],
             input |-> [mid |-> <<7, 8>>, root |-> <<4, 9>>],
             shared |-> [mid |-> <<6, 7>>, root |-> <<9, 6>>],
             zero |-> [mid |-> <<8, 7>>, root |-> <<9, 1>>],
             one |-> [mid |-> <<8, 7>>, root |-> <<9, 2>>]]

MCPins(t, q, off) ==
  [i \in 1 .. (IF t \in {"BUF", "NOT"} THEN 1 ELSE Len(q)) |-> q[i] + off]

MCSide(off, shape, mid, root) ==
  [types |-> <<"CONST0", "CONST1", "PI", "PI", "PI", "AND", "OR", "XOR", mid, root>>,
   fanins |-> <<<<>>, <<>>, <<>>, <<>>, <<>>, <<3 + off, 4 + off>>, <<4 + off, 5 + off>>,
                <<3 + off, 5 + off>>, MCPins(mid, MCShapes[shape].mid, off),
                MCPins(root, MCShapes[shape].root, off)>>]

MCNetlist(s, s2, inner) ==
  [type |-> s.types \o s2.types, fanin |-> s.fanins \o s2.fanins, root |-> <<10, 20>>,
   merged |-> {<<h, h + 10>> : h \in 1 .. 5 \union inner}, consts |-> {11, 12}]

MCTypes == {<<"AND", "OR">>, <<"NOR", "AND">>, <<"OR", "XNOR">>, <<"NAND", "BUF">>}
MCTypesGol == {<<"AND", "OR">>, <<"OR", "NAND">>, <<"XOR", "XNOR">>, <<"NOT", "NOR">>,
               <<"XNOR", "NOT">>}

MCNetlists(shapesOld, shapesGol) ==
  {MCNetlist(MCSide(0, s, t1[1], t1[2]), MCSide(10, s2, t2[1], t2[2]), inner) :
     s \in shapesOld, s2 \in shapesGol, t1 \in MCTypes, t2 \in MCTypesGol, inner \in {{}, {7}}}

MCAll == MCNetlists({"three", "wide", "input"}, {"three", "wide", "input", "zero"})
MCOne == MCNetlists({"three", "zero"}, {"one"})

MCOrders ==
  {<<<<6, 16>>, <<7, 17>>, <<8, 18>>, <<9, 19>>, <<8, 11>>, <<4, 12>>, <<6, 18>>, <<7, 16>>, <<9, 16>>>>,
   <<<<9, 17>>, <<8, 12>>, <<8, 16>>, <<7, 18>>, <<6, 17>>, <<6, 11>>, <<7, 12>>>>,
   <<>>}
=============================================================================
