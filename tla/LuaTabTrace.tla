---------------------------- MODULE LuaTabTrace ----------------------------
(***************************************************************************)
(* A compiled trace that refers to a node of the table by its position.    *)
(* lj_record.c specializes a lookup of a constant string key to the node   *)
(* where the key was found (IR_HREFK); the trace guards only that the hash *)
(* part has the same size and that this node still has this key.           *)
(***************************************************************************)
EXTENDS LuaTab

VARIABLE href   \* the recorded reference: key, node and size of the hash part

NoHref == [key |-> Nil, node |-> Nil, hsize |-> 0]

\* rec_idx_key: the live node of the key, otherwise a dead one.
Record(k) ==
  LET live == FindLive(tab, k)
      n == IF live # Nil THEN live ELSE FindAny(tab, k) IN
  /\ n # Nil
  /\ href' = [key |-> k, node |-> n, hsize |-> tab.hsize]
  /\ UNCHANGED vars

\* The guards of the trace (IR_EQ on hmask, IR_HREFK) hold.
Guarded == /\ href # NoHref
           /\ tab.hsize = href.hsize
           /\ tab.node[href.node].key = href.key

\* IR_HSTORE through the reference.
TraceStore(v) ==
  /\ Guarded
  /\ tab' = [tab EXCEPT !.node[href.node].val = v]
  /\ Assigned(href.key, v)
  /\ UNCHANGED href

TraceNext ==
  \/ Operation /\ UNCHANGED href
  \/ \E k1 \in Strs, k2 \in Strs \cup {Nil} :
       /\ href.key \notin {k1, k2}  \* gc_traverse_trace marks the constants
       /\ Recycle(k1, k2) /\ UNCHANGED href
  \/ \E k \in Strs : Record(k)
  \/ \E v \in Vals \cup {Nil} : TraceStore(v)

TraceSpec == Init /\ href = NoHref /\ [][TraceNext]_<<vars, href>>

\* What the comment in rec_idx_key relies on ("the HREFK fast path below needs
\* the node address for a present key"): while the guards hold, the node a
\* trace refers to is the node of its key, so a load sees what was assigned.
HrefkIsKey == Guarded => At(tab, href.node) = content[href.key]

=============================================================================
