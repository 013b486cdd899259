------------------------------ MODULE MCDevice ------------------------------
(***************************************************************************)
(* Small instances of Device.  Each run chooses the scripts of its         *)
(* writers among the definitions below.                                    *)
(***************************************************************************)
EXTENDS DeviceInv, TLC

CONSTANTS mon0, mon1, d1, d2, d3, i1, i2, w1, w2, f1, f2, f3, f4

Line(first, name) == [first |-> first, name |-> name]

CatLine == Line("read", NULL)
ClearLine == Line("-", NULL)
AddLine(n) == Line("+", n)
RemoveLine(n) == Line("-", n)

(* Two writers that bring one device up each; the other reads first or     *)
(* writes nonsense.                                                        *)
OnlyAdds == [w \in Writers |-> IF w = w1 THEN {AddLine(mon0)}
                               ELSE {Line("", mon1), CatLine, Line("+", NULL)}]

(* One writer that does everything.                                        *)
AllLines == {AddLine(mon0), AddLine(mon1), RemoveLine(mon0), ClearLine, CatLine,
             Line("+", NULL)}
Everything == [w \in Writers |-> AllLines]

(* The lines that race with each other.                                    *)
Conflicts == [w \in Writers |-> {AddLine(mon0), RemoveLine(mon0), ClearLine}]

(* One writer adds, the other reads.                                       *)
AddAndRead == [w \in Writers |-> IF w = w1 THEN {AddLine(mon0)} ELSE {CatLine}]

(* One writer adds, the other removes.                                     *)
AddAndRemove == [w \in Writers |-> IF w = w1 THEN {AddLine(mon0)} ELSE {RemoveLine(mon0)}]

(* One process writes commands, or adds, or each name is added once, where *)
(* the theorems ask for it.                                                *)
ASSUME CommandsApart ==
    /\ Script \in {Everything, AddAndRead} => OneMayDo(Writers, Commands)
    /\ Script = AddAndRemove => OneMayDo(Writers, {"add"})
    /\ Script = OnlyAdds => AddsOnce

Once == [w \in Writers |-> 1]
Twice == [w \in Writers |-> 2]
ThreeTimes == [w \in Writers |-> 3]

(* Frames are alike, and so are devices and CPUs: sound where no liveness  *)
(* property is checked and no thread is singled out.                       *)
Symmetric == Permutations(Frames) \cup Permutations(Irqs) \cup Permutations(Devs)
=============================================================================
