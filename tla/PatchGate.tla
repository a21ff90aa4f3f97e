------------------------------ MODULE PatchGate -------------------------------
(***************************************************************************)
(* How the gates of the patch file are written, and what they cost.  Once  *)
(* the marks have said what each pin reads (PatchMarks), a pin may read a  *)
(* constant; then the gate is written as a smaller one.  The cost of the   *)
(* patch is added up in the order of the file: its nets, each gate as it   *)
(* is written, and the net of the constant when one was written.           *)
(*                                                                         *)
(* A gate that is wanted has a kind: "part" is written by                  *)
(* outputGateInPatch, "all" is an output that the patch drives with the    *)
(* net of another gate, "inv" the complement of an input.  Its pins are    *)
(* the names that getPatchFaninName2 and getMappedFaninName return.        *)
(***************************************************************************)
EXTENDS GateFunction, SequencesExt

CONSTANTS
  Names,    \* what pins read: the nets and the constants
  Patches   \* what is to be written: records with inputs, the number of
            \* input nets, and gates, the wanted gates in file order

Zero == "1'b0"
One == "1'b1"
Constants == {Zero, One}
Wide == {"AND", "NAND", "OR", "NOR", "XOR", "XNOR"}
Types == Wide \union {"BUF", "NOT"}

(* The parser gives a buffer and an inverter one pin and every gate some;  *)
(* an output is driven by one net, and inputs are no constants.            *)
ASSUME PatchGateAssumption ==
  \A p \in Patches :
    /\ p.inputs \in Nat
    /\ p.gates \in Seq([kind : {"part", "all", "inv"}, type : Types, pins : Seq(Names) \ {<<>>}])
    /\ \A k \in DOMAIN p.gates :
         /\ p.gates[k].type \notin Wide => Len(p.gates[k].pins) = 1
         /\ p.gates[k].kind = "all" => p.gates[k].type = "BUF"
         /\ p.gates[k].kind = "inv" =>
              p.gates[k].type = "NOT" /\ p.gates[k].pins[1] \notin Constants

VARIABLES
  patch,     \* what is to be written
  written,   \* the gates in the file: each a type and the names it reads
  cost,      \* NtkMgr::_cost; it is unsigned, but no step takes it below 0
  useConst,  \* NtkMgr::_useConst
  pc

vars == <<patch, written, cost, useConst, pc>>

Init ==
  /\ patch \in Patches
  /\ written = <<>>
  /\ cost = 0
  /\ useConst = FALSE
  /\ pc = "nets"

(* The wires, outputs, inputs and inverted inputs.                         *)
DeclareNets ==
  /\ pc = "nets"
  /\ cost' = cost + patch.inputs + Len(patch.gates)
  /\ useConst' = FALSE
  /\ pc' = "gates"
  /\ UNCHANGED <<patch, written>>

Wanted == patch.gates[Len(written) + 1]
More(kind) == pc = "gates" /\ Len(written) < Len(patch.gates) /\ Wanted.kind = kind

Gate(t, pins) == [type |-> t, pins |-> pins]
ConstGate(one) == Gate(IF one THEN "NOT" ELSE "BUF", <<Zero>>)

-----------------------------------------------------------------------------
(* "all patched to"                                                        *)
WriteAll ==
  /\ More("all")
  /\ written' = Append(written,
                  IF Wanted.pins[1] = One THEN ConstGate(TRUE) ELSE Gate("BUF", Wanted.pins))
  /\ useConst' = (useConst \/ Wanted.pins[1] \in Constants)
  /\ cost' = cost - 1
  /\ UNCHANGED <<patch, pc>>

WriteInverter ==
  /\ More("inv")
  /\ written' = Append(written, Gate("NOT", Wanted.pins))
  /\ cost' = cost - 1
  /\ UNCHANGED <<patch, useConst, pc>>

-----------------------------------------------------------------------------
(* outputGateInPatch                                                       *)

KeepNet(nets, n) == IF n \in Constants THEN nets ELSE Append(nets, n)
Rest(pins) == FoldLeft(KeepNet, <<>>, pins)
OddOnes(pins) == Cardinality({i \in DOMAIN pins : pins[i] = One}) % 2 = 1

(* Whether the constants leave no gate, for a gate that reads some: then   *)
(* the value.  A gate without any other pin is constant.                   *)
IsConst(t, pins) ==
  \/ Rest(pins) = <<>>
  \/ t \in {"AND", "NAND"} /\ Zero \in Range(pins)
  \/ t \in {"OR", "NOR"} /\ One \in Range(pins)

ConstValue(t, pins) ==
  CASE t = "BUF" -> Zero \notin Range(pins)
    [] t = "NOT" -> Zero \in Range(pins)
    [] t = "AND" -> Zero \notin Range(pins)
    [] t = "NAND" -> Zero \in Range(pins)
    [] t = "OR" -> One \in Range(pins)
    [] t = "NOR" -> One \notin Range(pins)
    [] t = "XOR" -> OddOnes(pins)
    [] t = "XNOR" -> ~OddOnes(pins)

(* Mutant: the ones that an xor reads are dropped like zeros.              *)
NewType_NoParity(t, pins) ==
  IF Len(Rest(pins)) = 1
  THEN (IF t \in {"NAND", "NOR", "XNOR"} THEN "NOT" ELSE "BUF")
  ELSE t

(* Otherwise the type that is left for the other pins.                     *)
NewType(t, pins) ==
  LET inverted == t \in {"NAND", "NOR"} \/ (t = "XOR" /\ OddOnes(pins))
                                        \/ (t = "XNOR" /\ ~OddOnes(pins))
  IN IF Len(Rest(pins)) = 1 THEN (IF inverted THEN "NOT" ELSE "BUF")
     ELSE IF t \in {"XOR", "XNOR"} THEN (IF inverted THEN "XNOR" ELSE "XOR")
     ELSE t

WriteWhole ==
  /\ More("part")
  /\ Constants \intersect Range(Wanted.pins) = {}
  /\ written' = Append(written, Gate(Wanted.type, Wanted.pins))
  /\ cost' = cost - 2 + Len(Wanted.pins)
  /\ UNCHANGED <<patch, useConst, pc>>

(* Mutant: the constant that is written is not noted.                      *)
WriteConst_Unnoted ==
  /\ More("part")
  /\ Constants \intersect Range(Wanted.pins) # {}
  /\ IsConst(Wanted.type, Wanted.pins)
  /\ written' = Append(written, ConstGate(ConstValue(Wanted.type, Wanted.pins)))
  /\ cost' = cost - 2 + 1
  /\ UNCHANGED <<patch, useConst, pc>>

WriteConst ==
  /\ More("part")
  /\ Constants \intersect Range(Wanted.pins) # {}
  /\ IsConst(Wanted.type, Wanted.pins)
  /\ written' = Append(written, ConstGate(ConstValue(Wanted.type, Wanted.pins)))
  /\ cost' = cost - 2 + 1
  /\ useConst' = TRUE
  /\ UNCHANGED <<patch, pc>>

WriteRest ==
  /\ More("part")
  /\ Constants \intersect Range(Wanted.pins) # {}
  /\ ~IsConst(Wanted.type, Wanted.pins)
  /\ written' = Append(written, Gate(NewType(Wanted.type, Wanted.pins), Rest(Wanted.pins)))
  /\ cost' = cost - 2 + Len(Rest(Wanted.pins))
  /\ UNCHANGED <<patch, useConst, pc>>

Finish ==
  /\ pc = "gates"
  /\ Len(written) = Len(patch.gates)
  /\ cost' = cost + (IF useConst THEN 1 ELSE 0)
  /\ pc' = "done"
  /\ UNCHANGED <<patch, written, useConst>>

Next ==
  \/ DeclareNets \/ WriteAll \/ WriteInverter \/ WriteWhole \/ WriteConst \/ WriteRest
  \/ Finish

Spec == Init /\ [][Next]_vars

-----------------------------------------------------------------------------

NamesIn(pins) == Range(pins) \ Constants
ValuesOf(a, pins) ==
  [i \in DOMAIN pins |-> IF pins[i] \in Constants THEN pins[i] = One ELSE a[pins[i]]]

(* Whatever the nets carry, the gate that is written computes what the     *)
(* gate that was wanted computes with the constants it reads.              *)
GatesRight ==
  \A k \in DOMAIN written :
    LET wanted == patch.gates[k]
    IN \A a \in [NamesIn(wanted.pins) -> BOOLEAN] :
         Function(written[k].type, ValuesOf(a, written[k].pins))
           = Function(wanted.type, ValuesOf(a, wanted.pins))

NamesRead == UNION {Range(written[k].pins) : k \in DOMAIN written}
GateCost(sum, g) == sum + Len(g.pins) - 2

(* The cost by which patches are compared is that of the file: one for     *)
(* each net in it, the constant's too, and for each gate what it reads     *)
(* less two.  "1'b1" is never in the file.                                 *)
CostRight ==
  pc = "done" =>
    /\ One \notin NamesRead
    /\ cost = patch.inputs + Len(patch.gates) + Cardinality(NamesRead \intersect {Zero})
                + FoldLeft(GateCost, 0, written)
=============================================================================
