------------------------------- MODULE Lifecycle -------------------------------
(***************************************************************************)
(* What a Connection promises about its lifecycle (the doc comment of      *)
(* close()): it is open, closing or closed; a close that fails makes it    *)
(* open again, and one that succeeds is final; operations are let in only  *)
(* while it is open, and may still be inside when it closes.               *)
(***************************************************************************)
CONSTANT Ops

VARIABLES
  phase,   \* "open", "closing" or "closed"
  inside   \* the operations that were let in and have not ended

vars == <<phase, inside>>

Init == phase = "open" /\ inside = {}

Begin == phase = "open" /\ phase' = "closing"
Fail == phase = "closing" /\ phase' = "open"
Succeed == phase = "closing" /\ phase' = "closed"

Enter(o) == phase = "open" /\ inside' = inside \cup {o}
Leave(o) == inside' = inside \ {o}

Next ==
  \/ (Begin \/ Fail \/ Succeed) /\ UNCHANGED inside
  \/ (\E o \in Ops : Enter(o) \/ Leave(o)) /\ UNCHANGED phase

Spec == Init /\ [][Next]_vars
=============================================================================
