--------------------------- MODULE CallbackContract ---------------------------
(***************************************************************************)
(* What a push subscription promises its three callbacks (the doc comment  *)
(* of Connection.subscribe_with): onData runs for the frames in order,     *)
(* none missing and none twice; onError at most once; onClose exactly      *)
(* once, after them, and nothing after it.                                 *)
(***************************************************************************)
EXTENDS Naturals, Sequences

VARIABLES
  frames,  \* sequence numbers of the frames onData was called with
  errors,  \* calls of onError
  closes   \* calls of onClose

vars == <<frames, errors, closes>>

Init == frames = <<>> /\ errors = 0 /\ closes = 0

Data ==
  /\ errors = 0 /\ closes = 0
  /\ frames' = Append(frames, Len(frames) + 1)
  /\ UNCHANGED <<errors, closes>>

Error ==
  /\ errors = 0 /\ closes = 0
  /\ errors' = 1
  /\ UNCHANGED <<frames, closes>>

Close ==
  /\ closes = 0
  /\ closes' = 1
  /\ UNCHANGED <<frames, errors>>

Next == Data \/ Error \/ Close

Spec == Init /\ [][Next]_vars
=============================================================================
