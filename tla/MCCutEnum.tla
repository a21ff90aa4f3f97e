----------------------------- MODULE MCCutEnum ------------------------------
(* Every netlist of five gates with at most two fanins each, whose gates   *)
(* are all in the cone of the root, with every set of merged gates.        *)
EXTENDS CutEnum

MCPins(g) ==
  {<<>>} \union {<<h>> : h \in 1 .. (g - 1)}
  \union {q \in (1 .. (g - 1)) \X (1 .. (g - 1)) : q[1] < q[2]}

MCFanins ==
  {f \in {<<p1, p2, p3, p4, p5>> : p1 \in MCPins(1), p2 \in MCPins(2), p3 \in MCPins(3),
                                   p4 \in MCPins(4), p5 \in MCPins(5)} :
     \A g \in Gate \ {Root} : \E h \in Gate : g \in Range(f[h])}
=============================================================================
