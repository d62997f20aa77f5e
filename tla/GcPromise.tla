----------------------------- MODULE GcPromise -----------------------------
(***************************************************************************)
(* What a collector promises the program: memory comes and goes, but what  *)
(* can be reached stays as it is, and no finalizer is called for an object *)
(* in direct use.  Colors, lists, barriers and phases are not visible.     *)
(***************************************************************************)
CONSTANTS
  Obj,        \* objects
  Root,       \* the object the program starts from
  Findable,   \* objects found without a reference: interned strings, the
              \* open upvalue of a stack slot
  Shared      \* objects written without a reference to them: a stack, by way
              \* of the open upvalue of one of its slots

VARIABLES
  alloc,      \* allocated objects
  refs,       \* refs[o]: the objects o refers to
  pending     \* objects whose finalizer is going to be called

vars == <<alloc, refs, pending>>

(* S and all that can be reached from it through members of Via.           *)
Through(S, Via) ==
  Obj \ UNION {Obj \ T : T \in {U \in SUBSET Obj :
                 S \subseteq U /\ \A o \in U \cap Via : refs[o] \subseteq U}}

Reach(S) == Through(S, Obj)

Usable == Reach({Root})

Init ==
  /\ alloc = {Root}
  /\ refs = [o \in Obj |-> {}]
  /\ pending = {}

(* The program allocates objects, and redirects references from what it    *)
(* can use to what it can use.  It may drop a Findable object by itself.   *)
Run ==
  LET new  == alloc' \ alloc
      gone == alloc \ alloc'
  IN /\ gone \subseteq Findable \ Reach({Root} \cup pending)
     /\ \A o \in Obj : refs'[o] # refs[o] => o \in Usable \cup new \cup gone \cup Shared
     /\ \A o \in Obj : refs'[o] \ refs[o] \subseteq Usable \cup new \cup (Findable \cap alloc)
     /\ UNCHANGED pending

(* The collector separates objects for finalization that are not in use,   *)
(* or only by way of a pending object, and frees any objects that neither  *)
(* the program nor a finalizer can get at.                                 *)
Collect ==
  /\ pending \subseteq pending' /\ pending' \subseteq alloc
  /\ (pending' \ pending) \cap Through({Root}, Obj \ pending) = {}
  /\ alloc' \subseteq alloc
  /\ Reach({Root} \cup pending') \subseteq alloc'
  /\ refs' = [o \in Obj |-> IF o \in alloc' THEN refs[o] ELSE {}]

(* A finalizer is called, with the object, or was removed meanwhile.       *)
Call ==
  /\ \E o \in pending :
       /\ pending' = pending \ {o}
       /\ refs' \in {refs, [refs EXCEPT ![Root] = @ \cup {o}]}
  /\ UNCHANGED alloc

Next == Run \/ Collect \/ Call

Spec == Init /\ [][Next]_vars

=============================================================================
