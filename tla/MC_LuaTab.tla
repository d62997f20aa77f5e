----------------------------- MODULE MC_LuaTab -----------------------------
(* Hash values and groups of keys for TLC: a and b collide, c and d do, an
   integer hashes to itself. *)
EXTENDS LuaTab
CONSTANTS a, b, c, d

MCHash == [k \in Keys |-> CASE k \in {a, b} -> 0 [] k \in {c, d} -> 3
                            [] OTHER -> k]

MCGroups == {Strs, {a} \cup Ints}
=============================================================================
