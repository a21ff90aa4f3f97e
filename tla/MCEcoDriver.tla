---------------------------- MODULE MCEcoDriver -----------------------------
(* Three costs, so that a search finds a cheaper, an equal or a dearer      *)
(* patch; two indices for each loop, so that each wraps round; two similar *)
(* pairs.  Fewer rounds are asked for by the first try than by ecoPo.      *)
EXTENDS EcoDriver

MCCost == {1, 2, 3}
MCSimArr == <<1, 3>>
MCEcoDims == <<2, 2, 2>>
MCPreDims == <<2, 1, 2>>
=============================================================================
