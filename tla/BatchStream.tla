----------------------------- MODULE BatchStream -----------------------------
(***************************************************************************)
(* What a streaming query promises the program that calls nextBatch() (the *)
(* doc comment of QueryStream): batches in the order the query produced    *)
(* them, none twice, then null for ever.  Batches may be missing: the      *)
(* core's broadcast buffer overwrites what a slow reader has not taken.    *)
(***************************************************************************)
EXTENDS Naturals, Sequences

VARIABLES
  answered,  \* numbers of the batches answered, in order
  ended      \* a call was answered with null

vars == <<answered, ended>>

Init == answered = <<>> /\ ended = FALSE

Follows(n) == answered = <<>> \/ n > answered[Len(answered)]

(* A call resolves with a later batch than any before. *)
Yield ==
  /\ ~ended
  /\ answered' # <<>>
  /\ LET n == answered'[Len(answered')]
     IN Follows(n) /\ answered' = Append(answered, n)
  /\ UNCHANGED ended

(* A call resolves with null. *)
End == ended' = TRUE /\ UNCHANGED answered

Next == Yield \/ End

Spec == Init /\ [][Next]_vars
=============================================================================
