---------------------------- MODULE MCPatchMarks ----------------------------
(* Old gates a (an input), k (a constant), m, y and z, with y and z the    *)
(* outputs.  Golden gates x, which computes what m computes, c and d.      *)
(* Every selection of pairs that leaves no loop is an initial state: m is  *)
(* merged with x, so its pins have none.  z reads a on two pins, of which  *)
(* the second never has a pair (addRecPair stops at the first).            *)
EXTENDS PatchMarks

CONSTANTS a, k, m, y, z, dy, dz, x, c, d

MCOld == {a, k, m, y, z, dy, dz}
MCGol == {x, c, d}
MCFanin == (a :> <<>>) @@ (k :> <<>>) @@ (m :> <<a>>) @@ (y :> <<a, m, k>>) @@ (z :> <<a, y, k, a>>)
           @@ (dy :> <<y>>) @@ (dz :> <<z>>)
           @@ (x :> <<>>) @@ (c :> <<x>>) @@ (d :> <<c, x>>)
MCLevel == (a :> 0) @@ (k :> 0) @@ (m :> 1) @@ (y :> 2) @@ (z :> 3) @@ (dy :> 4) @@ (dz :> 4)
MCPOs == <<dy, dz>>
MCMapped == (x :> m) @@ (c :> c) @@ (d :> d)

MCRecsOf == [p \in Pins |->
               CASE p = <<y, 1>> -> {c, x}
                 [] p = <<y, 2>> -> {d}
                 [] p = <<z, 1>> -> {c, d}
                 [] p = <<z, 2>> -> {d}
                 [] p = <<z, 3>> -> {c}
                 [] p = <<dy, 1>> -> {d}
                 [] p = <<dz, 1>> -> {c, d}
                 [] OTHER -> {}]
=============================================================================
