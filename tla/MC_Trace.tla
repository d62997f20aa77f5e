------------------------------ MODULE MC_Trace ------------------------------
EXTENDS Trace, TLC

CONSTANTS loop, iter, func, ret, call, loops, recurses

\* Loops and the call of a C function are in one function, another one recurses.
KindOf ==
  LET kind == (loop :> "loop") @@ (iter :> "itern") @@ (func :> "func")
              @@ (ret :> "ret") @@ (call :> "call")
  IN [p \in Pcs |-> kind[p]]
ProtoOf == [p \in Pcs |-> IF p \in {func, ret} THEN recurses ELSE loops]
EventMasks == {{}, {"call"}, {"ret"}, {"line"}}
=============================================================================
