----------------------------- MODULE GateFunction -----------------------------
(***************************************************************************)
(* What the gates of a netlist compute from the values v of their fanins:  *)
(* the reference for the modules that encode, match or write gates.        *)
(***************************************************************************)
EXTENDS Integers, Sequences, FiniteSets

Odd(v) == Cardinality({i \in DOMAIN v : v[i]}) % 2 = 1

Function(t, v) ==
  CASE t = "AND" -> \A i \in DOMAIN v : v[i]
    [] t = "NAND" -> \E i \in DOMAIN v : ~v[i]
    [] t = "OR" -> \E i \in DOMAIN v : v[i]
    [] t = "NOR" -> \A i \in DOMAIN v : ~v[i]
    [] t = "XOR" -> Odd(v)
    [] t = "XNOR" -> ~Odd(v)
    [] t = "BUF" -> v[1]
    [] t = "NOT" -> ~v[1]
=============================================================================
