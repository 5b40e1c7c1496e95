------------------------ MODULE PullSubscription_proofs ------------------------
(***************************************************************************)
(* Theorems about PullSubscription, for every number of concurrent calls,  *)
(* every channel capacity and every number of frames.                      *)
(***************************************************************************)
EXTENDS PullSubscription, PortalReader_proofs

(* The type invariant is inductive by itself. *)
LEMMA TypeInit == Init => TypeOK
  <1> SUFFICES ASSUME Init PROVE TypeOK
    OBVIOUS
  <1>1. ReaderTypeOK
    BY ReaderTypeInit DEF Init
  <1>2. got \in [Calls -> Message] /\ delivered \in Seq(Nat)
    BY MessageFacts, EmptySeq DEF Init
  <1> QED
    BY <1>1, <1>2 DEF Init, TypeOK

LEMMA TypeStep == TypeOK /\ [Next]_vars => TypeOK'
  <1> SUFFICES ASSUME TypeOK, [Next]_vars PROVE TypeOK'
    OBVIOUS
  <1> USE DEF TypeOK
  <1>1. CASE Subscribe
    BY <1>1, ReaderTypeStep DEF Subscribe, callVars
  <1>2. CASE SubscribeFails
    BY <1>2 DEF SubscribeFails, readerVars, callVars, ReaderTypeOK
  <1>3. CASE Cancel
    BY <1>3 DEF Cancel, callVars, ReaderTypeOK
  <1>4. CASE Drop
    BY <1>4, RoomLeft DEF Drop, callVars, ReaderTypeOK
  <1>5. CASE Background
    BY <1>5, ReaderTypeStep DEF Background, callVars
  <1>6. ASSUME NEW c \in Calls, CallStep(c) PROVE TypeOK'
    <2>1. CASE NextFrame(c)
      BY <2>1 DEF NextFrame, readerVars, ReaderTypeOK
    <2>2. CASE Lock(c)
      BY <2>2 DEF Lock, readerVars, ReaderTypeOK
    <2>3. CASE Receive(c)
      <3>1. /\ Head(chan) \in Message
            /\ Tail(chan) \in Seq(Message) /\ Len(Tail(chan)) <= ChanCap
        BY <2>3, RoomLeft DEF Receive
      <3> QED
        BY <2>3, <3>1 DEF Receive, ReaderTypeOK
    <2>4. CASE ReceiveNone(c)
      BY <2>4, MessageFacts DEF ReceiveNone, readerVars, ReaderTypeOK
    <2>5. CASE Settle(c)
      <3>1. AnswerFrame(c) \/ AnswerError(c) \/ AnswerNull(c)
        BY <2>5 DEF Settle
      <3>2. delivered' \in Seq(Nat)
        <4>1. got[c].seq \in Nat
          BY DEF Message
        <4>2. Append(delivered, got[c].seq) \in Seq(Nat)
          BY <4>1
        <4>3. delivered' \in {delivered, Append(delivered, got[c].seq)}
          BY <3>1 DEF AnswerFrame, AnswerError, AnswerNull
        <4> QED
          BY <4>2, <4>3
      <3>3. errors' \in Nat
        <4>1. errors' \in {errors, errors + 1}
          BY <3>1 DEF AnswerFrame, AnswerError, AnswerNull
        <4> QED
          BY <4>1
      <3>4. active' \in BOOLEAN /\ over' \in BOOLEAN
        BY <3>1, Zenon DEF AnswerFrame, AnswerError, AnswerNull
      <3> QED
        BY <2>5, <3>2, <3>3, <3>4 DEF Settle, readerVars, ReaderTypeOK
    <2>6. CASE Resolve(c)
      BY <2>6 DEF Resolve, readerVars, ReaderTypeOK
    <2> QED
      BY <1>6, <2>1, <2>2, <2>3, <2>4, <2>5, <2>6 DEF CallStep
  <1>7. CASE UNCHANGED vars
    BY <1>7 DEF vars, readerVars, callVars, ReaderTypeOK
  <1> QED
    BY <1>1, <1>2, <1>3, <1>4, <1>5, <1>6, <1>7 DEF Next

(* Every variable of the subscription keeps its type. *)
THEOREM TypeCorrect == Spec => []TypeOK
  BY TypeInit, TypeStep, PTL DEF Spec

-----------------------------------------------------------------------------
(* What has been taken from the channel changes with the calls only. *)
LEMMA TakenType ==
  ASSUME TypeOK
  PROVE  Taken \in Nat /\ EndTaken \in BOOLEAN
  BY LenProperties DEF TypeOK, Taken, EndTaken

LEMMA TakenQuiet ==
  ASSUME UNCHANGED callVars
  PROVE  /\ Taken' = Taken /\ EndTaken' = EndTaken
         /\ LockOK => LockOK'
         /\ HandOK => HandOK'
  BY DEF callVars, Taken, EndTaken, InHand, LastInHand, LockOK, Holds, HandOK

(* A step that keeps the stream in order and leaves the calls alone. *)
LEMMA StreamQuiet ==
  ASSUME TypeOK, StreamOK(Taken, EndTaken), UNCHANGED callVars,
         OpenPortal \/ Engine \/ Reader
  PROVE  StreamOK(Taken, EndTaken)'
  <1>1. PICK n \in Nat : n = Taken
    BY TakenType
  <1>2. PICK e \in BOOLEAN : e = EndTaken
    BY TakenType
  <1>3. StreamOK(n, e)
    BY <1>1, <1>2
  <1>4. StreamOK(n, e)'
    BY <1>3, StreamStep DEF TypeOK
  <1>5. Taken' = n /\ EndTaken' = e
    BY <1>1, <1>2, TakenQuiet
  <1> QED
    BY <1>4, <1>5

(* Once the stream is complete it stays so. *)
LEMMA CompleteStable ==
  ASSUME TypeOK, [Next]_vars, Complete
  PROVE  Complete'
  <1> USE DEF Complete, TypeOK, ReaderTypeOK
  <1>1. CASE Subscribe
    BY <1>1 DEF Subscribe, OpenPortal
  <1>2. CASE SubscribeFails
    BY <1>2 DEF SubscribeFails, readerVars
  <1>3. CASE Cancel
    BY <1>3 DEF Cancel
  <1>4. CASE Drop
    BY <1>4 DEF Drop
  <1>5. CASE Background
    BY <1>5, CompleteStep DEF Background
  <1>6. ASSUME NEW c \in Calls, CallStep(c) PROVE Complete'
    BY <1>6 DEF CallStep, NextFrame, Lock, Receive, ReceiveNone, Settle, Resolve, readerVars
  <1>7. CASE UNCHANGED vars
    BY <1>7 DEF vars, readerVars
  <1> QED
    BY <1>1, <1>2, <1>3, <1>4, <1>5, <1>6, <1>7 DEF Next

-----------------------------------------------------------------------------
(* The inductive invariant: no frame is lost, duplicated or reordered on its *)
(* way, and the stream ends once.                                            *)
IndInv == TypeOK /\ StreamIntact

LEMMA InvInit == Init => IndInv
  <1> SUFFICES ASSUME Init PROVE StreamIntact
    BY TypeInit DEF IndInv
  <1>1. \A c \in Calls : ~Holds(c) /\ ~InHand(c) /\ ~LastInHand(c)
    BY DEF Init, Holds, InHand, LastInHand
  <1>2. Len(delivered) = 0
    BY EmptySeq DEF Init
  <1>3. Taken = 0 /\ EndTaken = FALSE
    BY <1>1, <1>2 DEF Init, Taken, EndTaken
  <1>4. StreamOK(Taken, EndTaken)
    BY <1>3, StreamInit DEF Init
  <1>5. LockOK /\ HandOK /\ HandleOK
    BY <1>1 DEF Init, ReaderInit, LockOK, HandOK, HandleOK
  <1>6. CloseOK
    BY <1>1, ClosedInit DEF Init, CloseOK
  <1> QED
    BY <1>4, <1>5, <1>6 DEF StreamIntact

(* Steps of the engine and the reader, and the opening of the portal. *)
LEMMA BackgroundStep ==
  ASSUME IndInv, [Next]_vars, UNCHANGED callVars, HandleOK',
         OpenPortal \/ Engine \/ Reader
  PROVE  StreamIntact'
  <1> USE DEF IndInv, StreamIntact
  <1>1. StreamOK(Taken, EndTaken)'
    BY StreamQuiet
  <1>2. LockOK' /\ HandOK'
    BY TakenQuiet
  <1>3. Complete => Complete'
    BY CompleteStable
  <1>4. /\ \A c \in Calls : LastInHand(c)' <=> LastInHand(c)
        /\ UNCHANGED <<got, over, errors>>
    BY DEF callVars, LastInHand
  <1>5. ClosedOK'
    BY ClosedStep DEF CloseOK, TypeOK
  <1>6. CloseOK'
    BY <1>3, <1>4, <1>5 DEF CloseOK
  <1> QED
    BY <1>1, <1>2, <1>6

(* Only the call that holds the receiver can have a message in hand. *)
LEMMA Holder ==
  ASSUME IndInv, NEW c \in Calls, Holds(c)
  PROVE  /\ \A d \in Calls : d # c => ~Holds(d) /\ ~InHand(d) /\ ~LastInHand(d)
         /\ Taken = Len(delivered) + IF InHand(c) THEN 1 ELSE 0
         /\ EndTaken <=> over \/ LastInHand(c)
  <1>1. \A d \in Calls : d # c => ~Holds(d)
    BY DEF IndInv, StreamIntact, LockOK
  <1>2. \A d \in Calls : d # c => ~InHand(d) /\ ~LastInHand(d)
    BY <1>1 DEF Holds, InHand, LastInHand
  <1> QED
    BY <1>1, <1>2 DEF Taken, EndTaken

LEMMA ReceiveStep ==
  ASSUME IndInv, TypeOK', NEW c \in Calls, Receive(c)
  PROVE  StreamIntact'
  <1> USE DEF IndInv
  <1>1. Holds(c) /\ ~InHand(c) /\ ~LastInHand(c)
    BY DEF Receive, Holds, InHand, LastInHand
  <1>2. /\ call'[c] = "settling" /\ got'[c] = Head(chan)
        /\ \A d \in Calls : d # c => call'[d] = call[d] /\ got'[d] = got[d]
        /\ chan # <<>> /\ chan' = Tail(chan)
        /\ UNCHANGED <<engine, appended, cursor, reader, hand, rxOpen, token,
                       handle, active, delivered, errors, over>>
    BY DEF Receive, TypeOK
  <1>3. \A d \in Calls : d # c => ~Holds(d)' /\ ~InHand(d)' /\ ~LastInHand(d)'
    BY <1>1, <1>2, Holder DEF Holds, InHand, LastInHand
  <1>4. /\ InHand(c)' <=> IsFrame(Head(chan))
        /\ LastInHand(c)' <=> ~IsFrame(Head(chan))
    BY <1>2 DEF InHand, LastInHand
  <1>5. PICK n \in Nat : n = Len(delivered) /\ n = Taken
    BY <1>1, Holder, LenProperties DEF TypeOK
  <1>6. PICK e \in BOOLEAN : e = EndTaken
    BY TakenType
  <1>7. StreamOK(n, e)
    BY <1>5, <1>6 DEF StreamIntact
  <1>8. /\ ~e /\ Head(chan) \in Message /\ Head(chan).kind # "none"
        /\ IsFrame(Head(chan)) => Head(chan).seq = n + 1 /\ StreamOK(n + 1, FALSE)'
        /\ ~IsFrame(Head(chan)) => StreamOK(n, TRUE)'
    BY <1>2, <1>7, StreamTake DEF TypeOK
  <1>9. ~over
    BY <1>6, <1>8 DEF EndTaken
  <1>10. StreamOK(Taken, EndTaken)'
    <2>1. CASE IsFrame(Head(chan))
      <3>1. Taken' = n + 1 /\ EndTaken' = FALSE
        BY <1>2, <1>3, <1>4, <1>5, <1>9, <2>1 DEF Taken, EndTaken
      <3> QED
        BY <1>8, <2>1, <3>1
    <2>2. CASE ~IsFrame(Head(chan))
      <3>1. \A d \in Calls : ~InHand(d)'
        BY <1>3, <1>4, <2>2
      <3>2. Taken' = n
        <4>1. Len(delivered') = n
          BY <1>2, <1>5
        <4>2. Taken' = Len(delivered') + 0
          BY <3>1 DEF Taken
        <4> QED
          BY <4>1, <4>2
      <3>3. EndTaken' = TRUE
        BY <1>4, <2>2 DEF EndTaken
      <3> QED
        BY <1>8, <2>2, <3>2, <3>3
    <2> QED
      BY <2>1, <2>2
  <1>11. LockOK'
    BY <1>3 DEF LockOK
  <1>12. HandOK'
    BY <1>2, <1>3, <1>4, <1>5, <1>8, <1>9 DEF HandOK
  <1>13. CloseOK'
    <2>1. /\ Complete' <=> Complete
          /\ Head(chan).kind = "closed" => Complete
          /\ ClosedOK'
      BY <1>2, ClosedTake DEF StreamIntact, CloseOK, TypeOK
    <2> QED
      BY <1>2, <1>3, <1>9, <2>1 DEF StreamIntact, CloseOK
  <1>14. HandleOK'
    BY <1>1, <1>2 DEF StreamIntact, HandleOK, Holds
  <1> QED
    BY <1>10, <1>11, <1>12, <1>13, <1>14 DEF StreamIntact

LEMMA ReceiveNoneStep ==
  ASSUME IndInv, TypeOK', NEW c \in Calls, ReceiveNone(c)
  PROVE  StreamIntact'
  <1> USE DEF IndInv
  <1>1. Holds(c) /\ ~InHand(c) /\ ~LastInHand(c)
    BY DEF ReceiveNone, Holds, InHand, LastInHand
  <1>2. /\ call'[c] = "settling" /\ got'[c] = None
        /\ \A d \in Calls : d # c => call'[d] = call[d] /\ got'[d] = got[d]
        /\ reader = "done" /\ chan = <<>>
        /\ UNCHANGED <<readerVars, handle, active, delivered, errors, over>>
    BY DEF ReceiveNone, Disconnected, TypeOK
  <1>3. \A d \in Calls : d # c => ~Holds(d)' /\ ~InHand(d)' /\ ~LastInHand(d)'
    BY <1>1, <1>2, Holder DEF Holds, InHand, LastInHand
  <1>4. ~InHand(c)' /\ LastInHand(c)'
    BY <1>2, MessageFacts DEF InHand, LastInHand
  <1>5. over
    <2>1. rxOpen
      BY <1>1 DEF StreamIntact, HandleOK, Holds
    <2>2. EndTaken
      BY <1>2, <2>1 DEF StreamIntact, StreamOK, LastOK
    <2> QED
      BY <1>1, <2>2, Holder
  <1>6. Taken' = Taken /\ EndTaken' = EndTaken
    BY <1>1, <1>2, <1>3, <1>4, <1>5, Holder DEF Taken, EndTaken
  <1>7. StreamOK(Taken, EndTaken)'
    BY <1>2, <1>6 DEF StreamIntact, StreamOK, EndsOK, ChanOK, CursorOK, LastOK, readerVars
  <1>8. LockOK' /\ HandOK'
    BY <1>2, <1>3, <1>4, <1>5, MessageFacts DEF LockOK, HandOK
  <1>9. CloseOK'
    BY <1>2, <1>3, <1>4, MessageFacts DEF StreamIntact, CloseOK, ClosedOK, Complete, readerVars
  <1>10. HandleOK'
    BY <1>1, <1>2 DEF StreamIntact, HandleOK, Holds, readerVars
  <1> QED
    BY <1>7, <1>8, <1>9, <1>10 DEF StreamIntact

(* What Settle(c) does, and that the lock holder is alone in doing it. *)
LEMMA SettleFacts ==
  ASSUME IndInv, NEW c \in Calls, Settle(c)
  PROVE  /\ Holds(c) /\ (InHand(c) <=> IsFrame(got[c])) /\ (LastInHand(c) <=> ~IsFrame(got[c]))
         /\ \A d \in Calls : ~Holds(d)' /\ ~InHand(d)' /\ ~LastInHand(d)'
         /\ UNCHANGED <<readerVars, handle, got>>
         /\ handle \notin {"pending", "dropped"}
         /\ AnswerFrame(c) \/ AnswerError(c) \/ AnswerNull(c)
  <1> USE DEF IndInv
  <1>1. /\ call[c] = "settling" /\ call'[c] = "resolving"
        /\ \A d \in Calls : d # c => call'[d] = call[d]
        /\ UNCHANGED <<readerVars, handle, got>>
        /\ AnswerFrame(c) \/ AnswerError(c) \/ AnswerNull(c)
    BY DEF Settle, TypeOK
  <1>2. Holds(c) /\ (InHand(c) <=> IsFrame(got[c])) /\ (LastInHand(c) <=> ~IsFrame(got[c]))
    BY <1>1 DEF Holds, InHand, LastInHand
  <1>3. \A d \in Calls : ~Holds(d)' /\ ~InHand(d)' /\ ~LastInHand(d)'
    BY <1>1, <1>2, Holder DEF Holds, InHand, LastInHand
  <1>4. handle \notin {"pending", "dropped"}
    BY <1>1 DEF StreamIntact, HandleOK
  <1> QED
    BY <1>1, <1>2, <1>3, <1>4

LEMMA SettleStep ==
  ASSUME IndInv, TypeOK', NEW c \in Calls, Settle(c)
  PROVE  StreamIntact'
  <1> USE DEF IndInv
  <1>1. Taken' = Len(delivered') /\ (EndTaken' <=> over')
    <2>1. Len(delivered') \in Nat
      BY LenProperties DEF TypeOK
    <2> QED
      BY <2>1, SettleFacts DEF Taken, EndTaken
  <1>2. /\ Taken = Len(delivered) + IF IsFrame(got[c]) THEN 1 ELSE 0
        /\ EndTaken <=> over \/ ~IsFrame(got[c])
    BY SettleFacts, Holder
  <1>3. Taken' = Taken /\ (EndTaken' <=> EndTaken)
    <2>1. CASE AnswerFrame(c)
      <3>1. IsFrame(got[c]) /\ delivered' = Append(delivered, got[c].seq) /\ over' = over
        BY <2>1 DEF AnswerFrame
      <3>2. Len(delivered') = Len(delivered) + 1
        BY <3>1 DEF TypeOK
      <3> QED
        BY <1>1, <1>2, <3>1, <3>2
    <2>2. CASE AnswerError(c) \/ AnswerNull(c)
      <3>1. ~IsFrame(got[c]) /\ delivered' = delivered /\ over'
        BY <2>2 DEF AnswerError, AnswerNull, IsFrame
      <3>2. Len(delivered) \in Nat
        BY LenProperties DEF TypeOK
      <3> QED
        BY <1>1, <1>2, <3>1, <3>2
    <2> QED
      BY <2>1, <2>2, SettleFacts
  <1>4. StreamOK(Taken, EndTaken)'
    BY <1>3, SettleFacts DEF StreamIntact, StreamOK, EndsOK, ChanOK, CursorOK, LastOK, readerVars
  <1>5. LockOK' /\ HandOK'
    BY SettleFacts DEF LockOK, HandOK
  <1>6. over' /\ errors' = 0 => Complete
    <2>1. CASE AnswerFrame(c)
      BY <2>1 DEF AnswerFrame, StreamIntact, CloseOK
    <2>2. CASE AnswerError(c)
      BY <2>2 DEF AnswerError, TypeOK
    <2>3. CASE AnswerNull(c)
      <3>1. LastInHand(c)
        BY <2>3, SettleFacts DEF AnswerNull, IsFrame
      <3>2. got[c].kind = "closed" => Complete
        BY <3>1 DEF StreamIntact, CloseOK
      <3>3. got[c].kind = "none" => over
        BY <3>1 DEF StreamIntact, HandOK
      <3> QED
        BY <2>3, <3>2, <3>3 DEF AnswerNull, StreamIntact, CloseOK
    <2> QED
      BY <2>1, <2>2, <2>3, SettleFacts
  <1>7. CloseOK'
    BY <1>6, SettleFacts DEF StreamIntact, CloseOK, ClosedOK, Complete, readerVars
  <1>8. HandleOK'
    <2>1. over' => ~active'
      BY SettleFacts, Zenon DEF AnswerFrame, AnswerError, AnswerNull, StreamIntact, HandleOK
    <2> QED
      BY <2>1, SettleFacts DEF StreamIntact, HandleOK, readerVars
  <1> QED
    BY <1>4, <1>5, <1>7, <1>8 DEF StreamIntact

(* Steps that move a call without touching a message. *)
LEMMA MoveStep ==
  ASSUME IndInv, TypeOK', NEW c \in Calls, NextFrame(c) \/ Lock(c) \/ Resolve(c)
  PROVE  StreamIntact'
  <1> USE DEF IndInv
  <1>1. /\ call[c] # "settling" /\ call'[c] # "settling" /\ handle \notin {"pending", "dropped"}
        /\ \A d \in Calls : d # c => call'[d] = call[d]
        /\ UNCHANGED <<readerVars, handle, active, got, delivered, errors, over>>
    BY DEF NextFrame, Lock, Resolve, TypeOK, StreamIntact, HandleOK
  <1>2. \A d \in Calls : (InHand(d)' <=> InHand(d)) /\ (LastInHand(d)' <=> LastInHand(d))
    BY <1>1 DEF InHand, LastInHand
  <1>3. Taken' = Taken /\ EndTaken' = EndTaken
    BY <1>1, <1>2 DEF Taken, EndTaken
  <1>4. StreamOK(Taken, EndTaken)'
    BY <1>1, <1>3 DEF StreamIntact, StreamOK, EndsOK, ChanOK, CursorOK, LastOK, readerVars
  <1>5. LockOK'
    <2>1. CASE Lock(c)
      BY <1>1, <2>1 DEF Lock, LockOK, Holds
    <2>2. CASE NextFrame(c) \/ Resolve(c)
      <3>1. \A d \in Calls : Holds(d)' => Holds(d)
        BY <1>1, <2>2 DEF NextFrame, Resolve, Holds, TypeOK
      <3> QED
        BY <3>1 DEF StreamIntact, LockOK
    <2> QED
      BY <2>1, <2>2
  <1>6. HandOK' /\ CloseOK' /\ HandleOK'
    BY <1>1, <1>2 DEF StreamIntact, HandOK, CloseOK, ClosedOK, Complete, HandleOK, readerVars
  <1> QED
    BY <1>3, <1>4, <1>5, <1>6 DEF StreamIntact

LEMMA DropStep ==
  ASSUME IndInv, TypeOK', Drop
  PROVE  StreamIntact'
  <1> USE DEF IndInv
  <1>1. /\ \A d \in Calls : call[d] = "idle"
        /\ chan' = <<>> /\ ~rxOpen' /\ token' /\ handle' = "dropped"
        /\ UNCHANGED <<engine, appended, cursor, reader, hand, active, callVars>>
    BY DEF Drop
  <1>2. PICK n \in Nat : n = Taken
    BY TakenType
  <1>3. PICK e \in BOOLEAN : e = EndTaken
    BY TakenType
  <1>4. StreamOK(n, e)
    BY <1>2, <1>3 DEF StreamIntact
  <1>5. StreamOK(n, e)'
    BY <1>1, <1>4, StreamDrop
  <1>6. StreamOK(Taken, EndTaken)'
    BY <1>1, <1>2, <1>3, <1>5, TakenQuiet
  <1>7. LockOK' /\ HandOK'
    BY <1>1, TakenQuiet DEF StreamIntact
  <1>8. CloseOK'
    BY <1>1 DEF CloseOK, ClosedOK, Complete
  <1>9. HandleOK'
    BY <1>1 DEF StreamIntact, HandleOK, callVars
  <1> QED
    BY <1>6, <1>7, <1>8, <1>9 DEF StreamIntact

LEMMA CancelStep ==
  ASSUME IndInv, TypeOK', Cancel \/ SubscribeFails \/ UNCHANGED vars
  PROVE  StreamIntact'
  <1> USE DEF IndInv
  <1>1. /\ UNCHANGED <<engine, appended, cursor, reader, hand, chan, rxOpen, callVars>>
        /\ token => token'
        /\ active' => active
        /\ handle' = "dropped" <=> handle = "dropped"
        /\ handle' = "pending" => handle = "pending"
    BY DEF Cancel, SubscribeFails, vars, readerVars
  <1>2. Taken' = Taken /\ EndTaken' = EndTaken /\ LockOK' /\ HandOK'
    BY <1>1, TakenQuiet DEF StreamIntact
  <1>3. StreamOK(Taken, EndTaken)'
    BY <1>1, <1>2 DEF StreamIntact, StreamOK, EndsOK, ChanOK, CursorOK, LastOK
  <1>4. CloseOK' /\ HandleOK'
    BY <1>1 DEF StreamIntact, CloseOK, ClosedOK, Complete, HandleOK, callVars, LastInHand
  <1> QED
    BY <1>2, <1>3, <1>4 DEF StreamIntact

LEMMA InvStep == IndInv /\ [Next]_vars => IndInv'
  <1> SUFFICES ASSUME IndInv, [Next]_vars PROVE StreamIntact'
    BY TypeStep DEF IndInv
  <1>0. TypeOK'
    BY TypeStep DEF IndInv
  <1>1. CASE Subscribe
    <2>1. HandleOK'
      BY <1>1 DEF Subscribe, OpenPortal, callVars, IndInv, StreamIntact, HandleOK
    <2> QED
      BY <1>1, <2>1, BackgroundStep DEF Subscribe
  <1>2. CASE Background
    <2>1. HandleOK'
      BY <1>2 DEF Background, Engine, Append1, EngineStops, Reader, PullFrame, SeeCancel,
                  Send, SendFails, ClosePortal, callVars, IndInv, StreamIntact, HandleOK
    <2> QED
      BY <1>2, <2>1, BackgroundStep DEF Background
  <1>3. CASE SubscribeFails \/ Cancel \/ UNCHANGED vars
    BY <1>0, <1>3, CancelStep
  <1>4. CASE Drop
    BY <1>0, <1>4, DropStep
  <1>5. ASSUME NEW c \in Calls, CallStep(c) PROVE StreamIntact'
    BY <1>0, <1>5, ReceiveStep, ReceiveNoneStep, SettleStep, MoveStep DEF CallStep
  <1> QED
    BY <1>1, <1>2, <1>3, <1>4, <1>5 DEF Next

LEMMA Invariance == Spec => []IndInv
  BY InvInit, InvStep, PTL DEF Spec

(* The stream from portal to program stays intact: no frame is lost,         *)
(* duplicated or reordered, one call at a time takes from the channel, and   *)
(* nothing follows the end.                                                  *)
THEOREM StreamStaysIntact == Spec => []StreamIntact
  BY Invariance, PTL DEF IndInv

(* Once a call was answered with null or rejected, isActive() is false.      *)
THEOREM InactiveWhenOver == Spec => []InactiveOnceOver
  <1>1. IndInv => InactiveOnceOver
    BY DEF IndInv, StreamIntact, HandleOK, InactiveOnceOver, IsActive
  <1> QED
    BY <1>1, Invariance, PTL

(* Without a cancel, null means that every entry of the object was delivered.*)
THEOREM NullIsComplete == Spec => []NullMeansComplete
  <1>1. IndInv => NullMeansComplete
    <2> SUFFICES ASSUME IndInv, over, errors = 0, ~token
                 PROVE  engine = "ended" /\ Len(delivered) = appended
      BY DEF NullMeansComplete
    <2>1. rxOpen
      BY DEF IndInv, StreamIntact, HandleOK
    <2>2. engine = "ended" /\ cursor = appended
      BY DEF IndInv, StreamIntact, CloseOK, Complete
    <2>3. cursor = Taken
      BY <2>1 DEF IndInv, StreamIntact, StreamOK, LastOK, EndTaken
    <2>4. Taken = Len(delivered)
      <3>1. \A c \in Calls : ~InHand(c)
        BY DEF IndInv, StreamIntact, HandOK
      <3>2. Len(delivered) \in Nat
        BY LenProperties DEF IndInv, TypeOK
      <3> QED
        BY <3>1, <3>2 DEF Taken
    <2> QED
      BY <2>2, <2>3, <2>4
  <1> QED
    BY <1>1, Invariance, PTL

(* The answers of any number of concurrent nextFrame() calls implement       *)
(* FrameStream: every step of the subscription is one of its steps or none.  *)
THEOREM ImplementsFrameStream == Spec => Contract
  <1>1. Init => FS!Init
    BY DEF Init, FS!Init
  <1>2. IndInv /\ [Next]_vars => [FS!Next]_FS!vars
    <2> SUFFICES ASSUME IndInv, [Next]_vars PROVE [FS!Next]_FS!vars
      OBVIOUS
    <2>1. ASSUME NEW c \in Calls, Settle(c) PROVE FS!Next
      <3>1. CASE AnswerFrame(c)
        <4>1. ~over /\ got[c].seq = Len(delivered) + 1
          BY <2>1, <3>1, SettleFacts DEF AnswerFrame, IndInv, StreamIntact, HandOK
        <4> QED
          BY <3>1, <4>1 DEF AnswerFrame, FS!Next, FS!Yield
      <3>2. CASE AnswerError(c)
        <4>1. ~over
          BY <2>1, <3>2, SettleFacts DEF AnswerError, IsFrame, IndInv, StreamIntact, HandOK
        <4> QED
          BY <3>2, <4>1, Zenon DEF AnswerError, FS!Next, FS!Reject
      <3>3. CASE AnswerNull(c)
        BY <3>3, Zenon DEF AnswerNull, FS!Next, FS!End
      <3> QED
        BY <2>1, <3>1, <3>2, <3>3, SettleFacts
    <2>2. ASSUME NEW c \in Calls, CallStep(c), ~Settle(c) PROVE UNCHANGED FS!vars
      BY <2>2 DEF CallStep, NextFrame, Lock, Receive, ReceiveNone, Resolve, FS!vars
    <2>3. CASE Subscribe \/ SubscribeFails \/ Cancel \/ Drop \/ Background \/ UNCHANGED vars
      BY <2>3 DEF Subscribe, SubscribeFails, Cancel, Drop, Background, vars, callVars, FS!vars
    <2> QED
      BY <2>1, <2>2, <2>3 DEF Next
  <1> QED
    BY <1>1, <1>2, Invariance, PTL DEF Spec, Contract, FS!Spec
=============================================================================
