---------------------------- MODULE MCRecPairs ------------------------------
(* Old gates a, b, y, w, z with the outputs y and z: y reads a twice and z *)
(* reads a, w and y.  Golden gates c, f, d, e, h for the pairs; h reads d  *)
(* and e.  The cuts share pins, overlap in their cones and offer a second  *)
(* pair for a gate, so that pins keep their first pair and gates have two. *)
(* Two backward cuts patch the fanins of h to the same old gate; the third *)
(* has two patches that close a loop with the pairs of the third cut,      *)
(* though neither does alone.                                              *)
EXTENDS RecPairs

CONSTANTS a, b, y, w, z, dy, dz, c, f, d, e, h

MCOld == {a, b, y, w, z, dy, dz}
MCGol == {c, f, d, e, h}
MCFanin == (a :> <<>>) @@ (b :> <<>>) @@ (y :> <<a, a>>) @@ (w :> <<b>>) @@ (z :> <<a, w, y>>)
           @@ (dy :> <<y>>) @@ (dz :> <<z>>)
           @@ (c :> <<>>) @@ (f :> <<>>) @@ (d :> <<c, c>>) @@ (e :> <<f>>) @@ (h :> <<d, e>>)
MCLevel == (a :> 1) @@ (b :> 1) @@ (y :> 2) @@ (w :> 2) @@ (z :> 3) @@ (dy :> 4) @@ (dz :> 4)
MCPOs == <<<<dy, y, d>>, <<dz, z, h>>>>

MCMerged == {<<b, c>>, <<c, b>>}

MCCuts ==
  {[cone |-> {w, z}, pairs |-> <<<<a, c>>, <<b, c>>, <<y, d>>>>],
   [cone |-> {y, z}, pairs |-> <<<<a, d>>>>],
   [cone |-> {y, w}, pairs |-> <<<<a, d>>, <<b, e>>>>]}

MCBwdCuts ==
  {[cone |-> {h}, pairs |-> <<<<d, b>>>>],
   [cone |-> {h}, pairs |-> <<<<e, b>>>>],
   [cone |-> {d, e}, pairs |-> <<<<c, w>>, <<f, y>>>>]}
=============================================================================
