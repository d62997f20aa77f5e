----------------------------- MODULE MC_GcWeak ------------------------------
(* One table is an ephemeron or not, one has weak values or is weak in both, one
   is strong, and refers to the others. *)
EXTENDS GcWeak
CONSTANTS eph, weak, plain

MCModes == [t \in Tabs |-> CASE t = eph -> {{}, {"k"}} [] t = weak -> {{"v"}, {"k", "v"}}
                             [] OTHER -> {{}}]
MCFields == [t : {eph}, k : {weak, plain}, v : {weak} \cup Strs]
            \cup [t : {weak}, k : {plain} \cup Strs, v : Objs \ {weak}]
            \cup [t : {plain}, k : Strs, v : {eph, weak}]
=============================================================================
