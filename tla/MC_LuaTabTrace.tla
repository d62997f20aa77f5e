-------------------------- MODULE MC_LuaTabTrace --------------------------
EXTENDS LuaTabTrace, MC_LuaTab
=============================================================================
