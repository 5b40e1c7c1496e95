----------------------------- MODULE FrameStream -----------------------------
(***************************************************************************)
(* What a pull subscription promises the program that calls nextFrame()    *)
(* (the doc comment of Subscription): the frames of the subscribed object  *)
(* in order, none missing and none twice; then at most one rejection; and  *)
(* null for ever after the rejection, the end of the stream or a cancel.   *)
(***************************************************************************)
EXTENDS Naturals, Sequences

VARIABLES
  answered,    \* sequence numbers of the frames answered, in order
  rejections,  \* calls that were rejected
  ended        \* a call was rejected or answered with null

vars == <<answered, rejections, ended>>

Init == answered = <<>> /\ rejections = 0 /\ ended = FALSE

(* A call resolves with the next frame. *)
Yield ==
  /\ ~ended
  /\ answered' = Append(answered, Len(answered) + 1)
  /\ UNCHANGED <<rejections, ended>>

(* A call is rejected with LAMINAR_502 or LAMINAR_500. *)
Reject ==
  /\ ~ended
  /\ rejections' = rejections + 1
  /\ ended' = TRUE
  /\ UNCHANGED answered

(* A call resolves with null; once ended, every call does. *)
End ==
  /\ ended' = TRUE
  /\ UNCHANGED <<answered, rejections>>

Next == Yield \/ Reject \/ End

Spec == Init /\ [][Next]_vars
=============================================================================
