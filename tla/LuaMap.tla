------------------------------- MODULE LuaMap -------------------------------
(***************************************************************************)
(* What a Lua table promises its users, without array part, hash part or   *)
(* nodes: a function from keys to values, and a traversal that visits the  *)
(* keys in any order.  Clearing fields and assigning to existing ones is   *)
(* allowed during a traversal; assigning to an absent field ends what the  *)
(* traversal promises (seen becomes Nil).                                  *)
(***************************************************************************)
CONSTANTS Keys, Vals, Nil, All

VARIABLES content,   \* the value of every key, Nil for an absent one
          seen       \* the keys a traversal returned so far, Nil without one,
                     \* All when it has ended

Present == {k \in Keys : content[k] # Nil}

Init == /\ content = [k \in Keys |-> Nil]
        /\ seen = Nil

Assign(k, v) ==
  /\ content' = [content EXCEPT ![k] = v]
  /\ seen' = IF k \in Present THEN seen ELSE Nil

Wipe == /\ seen' = Nil
        /\ content' = [k \in Keys |-> Nil]

Grow == /\ seen' = Nil
        /\ UNCHANGED content

Start == /\ seen \in {Nil, All}
         /\ seen' = {}
         /\ UNCHANGED content

Visit(k) == /\ seen \notin {Nil, All}
            /\ k \in Present \ seen
            /\ seen' = seen \cup {k}
            /\ UNCHANGED content

Finish == /\ seen \notin {Nil, All}
          /\ Present \subseteq seen
          /\ seen' = All
          /\ UNCHANGED content

Next == \/ \E k \in Keys, v \in Vals \cup {Nil} : Assign(k, v)
        \/ \E k \in Keys : Visit(k)
        \/ Wipe \/ Grow \/ Start \/ Finish

Spec == Init /\ [][Next]_<<content, seen>>
=============================================================================
