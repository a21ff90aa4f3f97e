----------------------------- MODULE MCPatchGate ------------------------------
(* The first gate is any with up to three pins, the second a small one.    *)
EXTENDS PatchGate

MCNames == Constants \union {"a", "b", "c"}
MCPins(n) == [1 .. n -> MCNames]
MCKind(kind, types, pins) == [kind : {kind}, type : types, pins : pins]

MCFirst == MCKind("part", Wide, MCPins(2) \union MCPins(3))
             \union MCKind("part", {"BUF", "NOT"}, MCPins(1))
             \union MCKind("all", {"BUF"}, MCPins(1))
MCSecond == MCKind("part", {"XNOR"}, {<<Zero, One>>, <<"a", Zero>>, <<"a", "b">>})
              \union MCKind("inv", {"NOT"}, {<<"a">>})
MCPatches == [inputs : {1, 3}, gates : {<<g>> : g \in MCFirst}
                \union {<<g, h>> : g \in MCFirst, h \in MCSecond}]
=============================================================================
