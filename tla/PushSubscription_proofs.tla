------------------------ MODULE PushSubscription_proofs ------------------------
(***************************************************************************)
(* Theorems about PushSubscription, for every set of close() calls, every  *)
(* channel capacity and every number of frames, and whether or not         *)
(* handlers wait for a close().                                            *)
(***************************************************************************)
EXTENDS PushSubscription, PortalReader_proofs

(* The inductive invariant: nothing is lost, repeated or reordered between   *)
(* the portal and the callbacks, and each comes in its turn.                 *)
IndInv == TypeOK /\ OneHandlerAtATime /\ StreamIntact

(* Every variable keeps its type.  A step of the task needs the invariant:    *)
(* what it takes from the channel is a message with a number.                *)
LEMMA TypeInit == Init => TypeOK
  <1> SUFFICES ASSUME Init PROVE TypeOK
    OBVIOUS
  <1>1. ReaderTypeOK
    BY ReaderTypeInit DEF Init
  <1>2. item \in Message /\ delivered \in Seq(Nat)
    BY MessageFacts, EmptySeq DEF Init
  <1> QED
    BY <1>1, <1>2 DEF Init, TypeOK

LEMMA TypeTask == IndInv /\ (TaskStep \/ SeeClose) => TypeOK'
  <1> SUFFICES ASSUME IndInv, TaskStep \/ SeeClose PROVE TypeOK'
    OBVIOUS
  <1> USE DEF IndInv, TypeOK, handleVars, eventVars
  <1>1. CASE OpenOk
    BY <1>1, ReaderTypeStep DEF OpenOk
  <1>2. CASE OpenFails \/ ReaderGone \/ SeeClose \/ OnDataFails
    BY <1>2 DEF OpenFails, ReaderGone, SeeClose, OnDataFails, readerVars, ReaderTypeOK
  <1>3. CASE TakeMessage
    <2>1. /\ Head(chan) \in Message
          /\ Tail(chan) \in Seq(Message) /\ Len(Tail(chan)) <= ChanCap
      BY <1>3, RoomLeft DEF TakeMessage
    <2>2. AfterTaking(Head(chan)) \in {"data", "error", "select"}
      <3>1. Head(chan) = chan[1] /\ 1 \in 1..Len(chan)
        BY <1>3, EmptySeq DEF TakeMessage, ReaderTypeOK
      <3>2. ChanOK(Taken)
        BY <1>3 DEF TakeMessage, StreamIntact, InFlightOK, Over, StreamOK
      <3>3. Head(chan).kind \in Kind /\ Head(chan).kind # "none"
        BY <2>1, <3>1, <3>2 DEF Message, ChanOK
      <3> QED
        BY <3>3 DEF AfterTaking, Kind, IsFrame
    <2> QED
      BY <1>3, <2>1, <2>2 DEF TakeMessage, ReaderTypeOK
  <1>4. CASE OnData \/ OnDataThrows
    <2>1. item.seq \in Nat
      BY DEF Message
    <2>2. Append(delivered, item.seq) \in Seq(Nat)
      BY <2>1
    <2>3. CASE OnData
      <3>1. awaits' \in Closers \cup {NoCloser} /\ closer' \in [Closers -> {"idle",
              "called", "taking", "joining", "joined", "skipping", "waited", "skipped"}]
        BY <2>3 DEF OnData, AwaitsClose
      <3> QED
        BY <2>2, <2>3, <3>1 DEF OnData, readerVars, ReaderTypeOK
    <2>4. CASE OnDataThrows
      BY <2>2, <2>4 DEF OnDataThrows, readerVars, ReaderTypeOK
    <2> QED
      BY <1>4, <2>3, <2>4
  <1>5. CASE EmitError \/ OnClose
    BY <1>5 DEF EmitError, OnClose, readerVars, ReaderTypeOK
  <1>6. CASE Ending \/ Return
    <2>1. <<>> \in Seq(Message) /\ Len(<<>>) <= ChanCap
      BY RoomLeft
    <2>2. ReaderTypeOK'
      BY <1>6, <2>1 DEF Ending, Return, ReaderTypeOK
    <2> QED
      BY <1>6, <2>2 DEF Ending, Return
  <1> QED
    BY <1>1, <1>2, <1>3, <1>4, <1>5, <1>6 DEF TaskStep

LEMMA TypeStep == IndInv /\ [Next]_vars => TypeOK'
  <1> SUFFICES ASSUME IndInv, [Next]_vars PROVE TypeOK'
    OBVIOUS
  <1> USE DEF IndInv, TypeOK
  <1>1. CASE Background
    BY <1>1, ReaderTypeStep DEF Background, Idle, handleVars, taskVars, eventVars
  <1>2. CASE TaskStep \/ SeeClose
    BY <1>2, TypeTask
  <1>3. ASSUME NEW resolved \in BOOLEAN, HandlerSettles(resolved) PROVE TypeOK'
    BY <1>3 DEF HandlerSettles, readerVars, handleVars, eventVars, ReaderTypeOK
  <1>4. ASSUME NEW k \in Closers, CallClose(k) \/ CloseStep(k) PROVE TypeOK'
    <2>1. UNCHANGED <<readerVars, jsAlive, handle, taskVars, eventVars>>
      BY <1>4, Zenon DEF CloseStep, CallClose, FireClose, TakeHandle, Join, ResolveClose
    <2>2. closeToken' \in BOOLEAN /\ active' \in BOOLEAN /\ joinHandle' \in BOOLEAN
      BY <1>4, Zenon DEF CloseStep, CallClose, FireClose, TakeHandle, Join, ResolveClose
    <2>3. closer' \in [Closers -> {"idle", "called", "taking", "joining", "joined",
                                   "skipping", "waited", "skipped"}]
      BY <1>4 DEF CloseStep, CallClose, FireClose, TakeHandle, Join, ResolveClose
    <2> QED
      BY <2>1, <2>2, <2>3 DEF readerVars, taskVars, eventVars, ReaderTypeOK
  <1>5. CASE Drop \/ ConsumerGone
    <2>1. UNCHANGED <<readerVars, closer, taskVars, eventVars>>
      BY <1>5, Zenon DEF Drop, ConsumerGone
    <2>2. /\ closeToken' \in BOOLEAN /\ active' \in BOOLEAN /\ joinHandle' \in BOOLEAN
          /\ jsAlive' \in BOOLEAN
      BY <1>5, Zenon DEF Drop, ConsumerGone
    <2>3. handle' \in {"held", "dropped"}
      BY <1>5, Zenon DEF Drop, ConsumerGone
    <2> QED
      BY <2>1, <2>2, <2>3 DEF readerVars, taskVars, eventVars, ReaderTypeOK
  <1>6. CASE UNCHANGED vars
    BY <1>6 DEF vars, readerVars, handleVars, taskVars, eventVars, ReaderTypeOK
  <1> QED
    BY <1>1, <1>2, <1>3, <1>4, <1>5, <1>6 DEF Next

-----------------------------------------------------------------------------
(* What has been taken from the channel changes with the task only. *)
LEMMA TakenType ==
  ASSUME TypeOK
  PROVE  Taken \in Nat /\ EndTaken \in BOOLEAN
  BY LenProperties DEF TypeOK, Taken, EndTaken

(* Steps of the engine and of the reader, while the task stands still, and   *)
(* the opening of the portal.                                                *)
LEMMA StreamQuiet ==
  ASSUME TypeOK, StreamOK(Taken, EndTaken),
         Taken' = Taken, EndTaken' = EndTaken,
         OpenPortal \/ Engine \/ Reader
  PROVE  StreamOK(Taken, EndTaken)'
  <1>1. PICK n \in Nat : n = Taken
    BY TakenType
  <1>2. PICK e \in BOOLEAN : e = EndTaken
    BY TakenType
  <1>3. StreamOK(n, e)
    BY <1>1, <1>2
  <1>4. StreamOK(n, e)'
    BY <1>3, StreamStep DEF TypeOK
  <1> QED
    BY <1>1, <1>2, <1>4

(* Steps that leave reader, channel and item alone. *)
LEMMA StreamStill ==
  ASSUME StreamOK(Taken, EndTaken), Taken' = Taken, EndTaken' = EndTaken,
         UNCHANGED <<cursor, reader, hand, chan, rxOpen>>
  PROVE  StreamOK(Taken, EndTaken)'
  BY DEF StreamOK, EndsOK, ChanOK, CursorOK, LastOK

LEMMA InvInit == Init => IndInv
  <1> SUFFICES ASSUME Init PROVE OneHandlerAtATime /\ StreamIntact
    BY TypeInit DEF IndInv
  <1>1. Len(delivered) = 0 /\ task = "opening" /\ item = None
    BY EmptySeq DEF Init
  <1>2. Taken = 0 /\ EndTaken = FALSE
    BY <1>1 DEF Taken, EndTaken
  <1>3. InFlightOK
    BY <1>2, StreamInit DEF Init, InFlightOK
  <1>4. ItemOK /\ TaskOK /\ OneHandlerAtATime
    BY <1>1, <1>2 DEF Init, ReaderInit, ItemOK, TaskOK, OneHandlerAtATime
  <1>5. EndOK
    BY <1>1, ClosedInit, MessageFacts DEF Init, EndOK, Over
  <1> QED
    BY <1>3, <1>4, <1>5 DEF StreamIntact

-----------------------------------------------------------------------------
(* One lemma for each kind of step. *)
LEMMA BackgroundStep ==
  ASSUME IndInv, TypeOK', Background
  PROVE  IndInv'
  <1> USE DEF IndInv, StreamIntact
  <1>1. /\ UNCHANGED <<handleVars, taskVars, eventVars>>
        /\ Engine \/ Reader
    BY DEF Background, Idle
  <1>2. Taken' = Taken /\ EndTaken' = EndTaken
    BY <1>1 DEF taskVars, eventVars, Taken, EndTaken
  <1>3. InFlightOK'
    BY <1>1, <1>2, StreamQuiet DEF InFlightOK, handleVars, taskVars
  <1>4. UNCHANGED <<rxOpen, token>>
    BY <1>1 DEF Engine, Append1, EngineStops, Reader, PullFrame, SeeCancel, Send, SendFails,
                ClosePortal
  <1>5. ItemOK' /\ TaskOK' /\ OneHandlerAtATime'
    BY <1>1, <1>2, <1>4 DEF ItemOK, TaskOK, OneHandlerAtATime, handleVars, taskVars, eventVars
  <1>6. ClosedOK' /\ (Complete => Complete')
    BY <1>1, ClosedStep, CompleteStep DEF EndOK, TypeOK
  <1>7. engine = "ended" => UNCHANGED <<engine, appended>>
    BY <1>1 DEF Engine, Append1, EngineStops, Reader, PullFrame, SeeCancel, Send, SendFails,
                ClosePortal
  <1>8. EndOK'
    BY <1>1, <1>6, <1>7 DEF EndOK, handleVars, taskVars, eventVars
  <1> QED
    BY <1>3, <1>5, <1>8

LEMMA OpenOkStep ==
  ASSUME IndInv, TypeOK', OpenOk
  PROVE  IndInv'
  <1> USE DEF IndInv, StreamIntact
  <1>1. /\ task = "opening" /\ task' = "select" /\ item = None
        /\ UNCHANGED <<handleVars, item, unsettled, awaits, threw, eventVars>>
        /\ OpenPortal
    BY DEF OpenOk, ItemOK
  <1>2. Taken' = Taken /\ EndTaken' = EndTaken /\ ~EndTaken
    BY <1>1 DEF eventVars, Taken, EndTaken
  <1>3. InFlightOK'
    BY <1>1, <1>2, StreamQuiet DEF InFlightOK, Over
  <1>4. UNCHANGED <<rxOpen, token>>
    BY <1>1 DEF OpenPortal
  <1>5. ItemOK' /\ TaskOK' /\ OneHandlerAtATime'
    BY <1>1, <1>2, <1>4 DEF ItemOK, TaskOK, OneHandlerAtATime, Over, handleVars, eventVars
  <1>6. ClosedOK'
    BY <1>1, ClosedStep DEF EndOK, TypeOK
  <1>7. EndOK'
    BY <1>1, <1>6, MessageFacts DEF EndOK, Over
  <1> QED
    BY <1>3, <1>5, <1>7

LEMMA TakeMessageStep ==
  ASSUME IndInv, TypeOK', TakeMessage
  PROVE  IndInv'
  <1> USE DEF IndInv, StreamIntact
  <1>1. /\ task = "select" /\ chan # <<>> /\ chan' = Tail(chan)
        /\ item' = Head(chan) /\ task' = AfterTaking(Head(chan))
        /\ UNCHANGED <<engine, appended, cursor, reader, hand, rxOpen, token,
                       handleVars, unsettled, threw, eventVars>>
    BY DEF TakeMessage
  <1>2. PICK n \in Nat : n = Len(delivered) /\ n = Taken
    BY <1>1, TakenType DEF Taken, TypeOK
  <1>3. PICK e \in BOOLEAN : e = EndTaken
    BY TakenType
  <1>4. StreamOK(n, e)
    BY <1>1, <1>2, <1>3 DEF InFlightOK, Over
  <1>5. /\ ~e /\ Head(chan) \in Message /\ Head(chan).kind # "none"
        /\ IsFrame(Head(chan)) => Head(chan).seq = n + 1 /\ StreamOK(n + 1, FALSE)'
        /\ ~IsFrame(Head(chan)) => StreamOK(n, TRUE)'
    BY <1>1, <1>4, StreamTake DEF TypeOK
  <1>6. /\ Complete' <=> Complete
        /\ Head(chan).kind = "closed" => Complete
        /\ ClosedOK'
    BY <1>1, ClosedTake DEF EndOK, TypeOK
  <1>7. CASE IsFrame(Head(chan))
    <2>1. task' = "data"
      BY <1>1, <1>7 DEF AfterTaking, IsFrame
    <2>2. Len(delivered') = n
      BY <1>1, <1>2 DEF eventVars
    <2>3. Taken' = n + 1 /\ EndTaken' = FALSE
      BY <1>1, <1>7, <2>1, <2>2 DEF Taken, EndTaken
    <2>4. InFlightOK'
      BY <1>5, <1>7, <2>3 DEF InFlightOK
    <2>5. ItemOK'
      BY <1>1, <1>5, <1>7, <2>1, <2>2 DEF ItemOK
    <2>6. TaskOK' /\ OneHandlerAtATime'
      BY <1>1, <2>1 DEF TaskOK, OneHandlerAtATime, Over, handleVars, eventVars
    <2>7. EndOK'
      BY <1>1, <1>6, <1>7, <2>1 DEF EndOK, Over, IsFrame
    <2> QED
      BY <2>4, <2>5, <2>6, <2>7
  <1>8. CASE ~IsFrame(Head(chan))
    <2>1. /\ task' \in {"error", "select"}
          /\ task' = "select" => Head(chan).kind = "closed"
      <3>1. Head(chan).kind \in {"lagged", "failed", "closed"}
        BY <1>5, <1>8 DEF Message, Kind, IsFrame
      <3> QED
        BY <1>1, <1>8, <3>1 DEF AfterTaking, IsFrame
    <2>2. Len(delivered') = n
      BY <1>1, <1>2 DEF eventVars
    <2>3. Taken' = n /\ EndTaken' = TRUE
      BY <1>1, <1>5, <1>8, <2>1, <2>2, MessageFacts DEF Taken, EndTaken
    <2>4. InFlightOK'
      BY <1>5, <1>8, <2>3 DEF InFlightOK
    <2>5. ItemOK'
      BY <1>1, <2>1 DEF ItemOK
    <2>6. TaskOK' /\ OneHandlerAtATime'
      BY <1>1, <2>1 DEF TaskOK, OneHandlerAtATime, Over, handleVars, eventVars
    <2>7. EndOK'
      BY <1>1, <1>6, <2>1 DEF EndOK, Over
    <2> QED
      BY <2>4, <2>5, <2>6, <2>7
  <1> QED
    BY <1>7, <1>8

(* The channel is disconnected: the stream has ended, or lag or a failure    *)
(* would have been reported.                                                 *)
LEMMA ReaderGoneStep ==
  ASSUME IndInv, TypeOK', ReaderGone
  PROVE  IndInv'
  <1> USE DEF IndInv, StreamIntact
  <1>1. /\ task = "select" /\ task' = "ending" /\ reader = "done" /\ chan = <<>>
        /\ UNCHANGED <<readerVars, handleVars, item, unsettled, awaits, threw, eventVars>>
    BY DEF ReaderGone, Disconnected
  <1>2. Taken' = Taken /\ EndTaken' = EndTaken /\ Taken = Len(delivered)
    BY <1>1, TakenType DEF eventVars, Taken, EndTaken, TypeOK
  <1>3. InFlightOK'
    BY <1>1, <1>2, StreamStill DEF InFlightOK, Over, readerVars
  <1>4. ItemOK' /\ TaskOK' /\ OneHandlerAtATime'
    BY <1>1 DEF ItemOK, TaskOK, OneHandlerAtATime, Over, readerVars, handleVars, eventVars
  <1>5. engine = "ended" /\ Len(delivered) = appended
    <2>1. LastOK(Taken, EndTaken) /\ rxOpen /\ ~token
      BY <1>1 DEF InFlightOK, StreamOK, TaskOK, Over
    <2>2. EndTaken /\ cursor = Taken
      BY <1>1, <2>1 DEF LastOK
    <2>3. Complete
      BY <1>1, <2>2 DEF ItemOK, EndOK
    <2> QED
      BY <1>2, <2>1, <2>2, <2>3 DEF Complete
  <1>6. EndOK'
    BY <1>1, <1>5 DEF EndOK, ClosedOK, Complete, readerVars, eventVars
  <1> QED
    BY <1>3, <1>4, <1>6

(* Steps of the task that touch neither reader nor channel nor what was      *)
(* delivered.                                                                *)
LEMMA TurnStep ==
  ASSUME IndInv, TypeOK',
         OpenFails \/ SeeClose \/ OnDataFails \/ EmitError \/ OnClose
  PROVE  IndInv'
  <1> USE DEF IndInv, StreamIntact
  <1>1. /\ UNCHANGED <<readerVars, handleVars, item, unsettled, threw, delivered>>
        /\ task' \notin {"opening", "select", "data", "settle"}
    BY DEF OpenFails, SeeClose, OnDataFails, EmitError, OnClose, eventVars
  <1>2. task = "data" => ~jsAlive /\ task' = "ending"
    BY DEF OpenFails, SeeClose, OnDataFails, EmitError, OnClose
  <1>3. task # "data" => Taken' = Taken /\ EndTaken' = EndTaken
    BY <1>1 DEF Taken, EndTaken
  <1>4. task' \notin Over => task \notin Over
    BY DEF OpenFails, SeeClose, OnDataFails, EmitError, OnClose, Over
  <1>5. InFlightOK'
    BY <1>1, <1>2, <1>3, <1>4, StreamStill DEF InFlightOK, Over, readerVars, handleVars
  <1>6. ItemOK'
    BY <1>1 DEF ItemOK
  <1>7. task # "settle" /\ (task' = "done" <=> task = "done")
    BY DEF OpenFails, SeeClose, OnDataFails, EmitError, OnClose
  <1>8. TaskOK'
    BY <1>1, <1>7 DEF TaskOK, Over, readerVars, handleVars, eventVars,
          OpenFails, SeeClose, OnDataFails, EmitError, OnClose, TypeOK
  <1>9. OneHandlerAtATime'
    BY <1>1, <1>7 DEF OneHandlerAtATime
  <1>10. task' \in Over /\ errors' = 0 /\ ~closeToken' /\ jsAlive' /\ ~threw' =>
           task \in Over /\ errors = 0 /\ ~closeToken /\ jsAlive /\ ~threw
    BY <1>1 DEF Over, handleVars, eventVars, OpenFails, SeeClose, OnDataFails, EmitError,
                OnClose, TypeOK
  <1>11. EndOK'
    BY <1>1, <1>10 DEF EndOK, ClosedOK, Complete, readerVars
  <1> QED
    BY <1>5, <1>6, <1>8, <1>9, <1>11

(* onData is called: the frame that was taken is delivered. *)
LEMMA DataStep ==
  ASSUME IndInv, TypeOK', OnData \/ OnDataThrows
  PROVE  IndInv'
  <1> USE DEF IndInv, StreamIntact
  <1>1. /\ task = "data" /\ delivered' = Append(delivered, item.seq)
        /\ UNCHANGED <<readerVars, jsAlive, closeToken, item, errors, closes>>
        /\ task' = "settle" \/ (task' = "ending" /\ threw' /\ unsettled' = unsettled)
    BY DEF OnData, OnDataThrows, handleVars
  <1>2. \A k \in Closers : closer'[k] = closer[k] \/ closer'[k] = "called"
    BY DEF OnData, OnDataThrows, AwaitsClose, handleVars, TypeOK
  <1>3. Len(delivered') = Len(delivered) + 1
    <2>1. item.seq \in Nat
      BY DEF TypeOK, Message
    <2> QED
      BY <1>1, <2>1 DEF TypeOK
  <1>4. Taken' = Taken /\ EndTaken' = EndTaken
    <2>1. Len(delivered) \in Nat
      BY LenProperties DEF TypeOK
    <2> QED
      BY <1>1, <1>3, <2>1 DEF Taken, EndTaken
  <1>5. InFlightOK'
    BY <1>1, <1>4, StreamStill DEF InFlightOK, Over, readerVars
  <1>6. ItemOK'
    BY <1>1 DEF ItemOK
  <1>7. TaskOK'
    BY <1>1, <1>2 DEF TaskOK, Over, readerVars
  <1>8. OneHandlerAtATime'
    <2>1. unsettled = 0
      BY <1>1 DEF OneHandlerAtATime, TypeOK
    <2>2. unsettled' \in {0, 1} /\ (task' = "settle" \/ unsettled' = 0)
      BY <1>1, <2>1 DEF OnData, OnDataThrows
    <2> QED
      BY <2>2 DEF OneHandlerAtATime
  <1>9. EndOK'
    BY <1>1 DEF EndOK, ClosedOK, Complete, Over, readerVars
  <1> QED
    BY <1>5, <1>6, <1>7, <1>8, <1>9

LEMMA SettlesStep ==
  ASSUME IndInv, TypeOK', NEW resolved \in BOOLEAN, HandlerSettles(resolved)
  PROVE  IndInv'
  <1> USE DEF IndInv, StreamIntact
  <1>1. task = "settle" /\ unsettled = 1
    BY DEF HandlerSettles, OneHandlerAtATime, TypeOK
  <1>2. /\ task' \in {"select", "error"} /\ unsettled' = 0
        /\ UNCHANGED <<readerVars, handleVars, item, threw, eventVars>>
    BY <1>1 DEF HandlerSettles
  <1>3. Taken' = Taken /\ EndTaken' = EndTaken /\ ~EndTaken
    BY <1>1, <1>2 DEF Taken, EndTaken, ItemOK, eventVars
  <1>4. InFlightOK'
    BY <1>1, <1>2, <1>3, StreamStill DEF InFlightOK, Over, readerVars
  <1>5. ItemOK' /\ TaskOK' /\ OneHandlerAtATime'
    BY <1>1, <1>2, <1>3 DEF ItemOK, TaskOK, OneHandlerAtATime, Over, readerVars, handleVars,
                            eventVars
  <1>6. EndOK'
    BY <1>2 DEF EndOK, ClosedOK, Complete, Over, readerVars
  <1> QED
    BY <1>4, <1>5, <1>6

(* The task fires the reader's token, and later drops its channel. *)
LEMMA EndingStep ==
  ASSUME IndInv, TypeOK', Ending \/ Return
  PROVE  IndInv'
  <1> USE DEF IndInv, StreamIntact
  <1>1. /\ task \in Over /\ task' \in Over /\ task \notin {"data", "settle"}
        /\ task' \notin {"opening", "select", "data", "settle", "ending"}
        /\ UNCHANGED <<engine, appended, cursor, reader, hand, handleVars, item, unsettled,
                       threw, eventVars>>
        /\ token => token'
    BY DEF Ending, Return, Over
  <1>2. Taken' = Taken /\ EndTaken' = EndTaken
    BY <1>1 DEF Taken, EndTaken, eventVars, Over
  <1>3. InFlightOK'
    <2>1. CASE Ending
      BY <1>1, <1>2, <2>1, StreamStill DEF Ending, InFlightOK, handleVars
    <2>2. CASE Return
      <3>1. PICK n \in Nat : n = Taken
        BY TakenType
      <3>2. PICK e \in BOOLEAN : e = EndTaken
        BY TakenType
      <3>3. StreamOK(n, e) => StreamOK(n, e)'
        BY <1>1, <2>2, StreamDrop DEF Return
      <3> QED
        BY <1>1, <1>2, <3>1, <3>2, <3>3 DEF InFlightOK, handleVars
    <2> QED
      BY <2>1, <2>2
  <1>4. ItemOK'
    BY <1>1 DEF ItemOK
  <1>5. TaskOK'
    BY <1>1 DEF TaskOK, Ending, Return, Over, handleVars, eventVars
  <1>6. OneHandlerAtATime'
    BY <1>1 DEF OneHandlerAtATime, TypeOK
  <1>7. ClosedOK' /\ (Complete => Complete')
    <2>1. chan' = chan \/ chan' = <<>>
      BY DEF Ending, Return
    <2> QED
      BY <1>1, <2>1, EmptySeq DEF EndOK, ClosedOK, Complete
  <1>8. EndOK'
    BY <1>1, <1>7 DEF EndOK, handleVars, eventVars
  <1> QED
    BY <1>3, <1>4, <1>5, <1>6, <1>8

(* close() calls, and the end of the handle or of the environment: the       *)
(* task stands still.                                                        *)
LEMMA HandleStep ==
  ASSUME IndInv, TypeOK',
         (\E k \in Closers : CallClose(k) \/ CloseStep(k)) \/ Drop \/ ConsumerGone
           \/ UNCHANGED vars
  PROVE  IndInv'
  <1> USE DEF IndInv, StreamIntact
  <1>1. UNCHANGED <<readerVars, taskVars, eventVars>>
    BY Zenon DEF CloseStep, CallClose, FireClose, TakeHandle, Join, ResolveClose, Drop,
                 ConsumerGone, vars
  <1>2. (closeToken => closeToken') /\ (jsAlive' => jsAlive)
    <2>1. closeToken' \in {closeToken, TRUE} /\ jsAlive' \in {jsAlive, FALSE}
      <3>1. CASE (\E k \in Closers : CallClose(k) \/ CloseStep(k)) \/ Drop \/ ConsumerGone
        BY <3>1, Zenon DEF CloseStep, CallClose, FireClose, TakeHandle, Join, ResolveClose,
             Drop, ConsumerGone
      <3>2. CASE UNCHANGED vars
        BY <3>2 DEF vars, handleVars
      <3> QED
        BY <3>1, <3>2
    <2>2. ASSUME closeToken PROVE closeToken'
      BY <2>1, <2>2, Zenon
    <2>3. ASSUME ~jsAlive PROVE ~jsAlive'
      BY <2>1, <2>3, Zenon
    <2> QED
      BY <2>2, <2>3, Zenon
  <1>3. \A k \in Closers : closer'[k] \in {"joined", "waited"} =>
          closer[k] \in {"joined", "waited"} \/ task = "done"
    <2>1. CASE \E k \in Closers : CallClose(k) \/ CloseStep(k)
      BY <2>1 DEF CloseStep, CallClose, FireClose, TakeHandle, Join, ResolveClose, TypeOK
    <2>2. CASE Drop \/ ConsumerGone \/ UNCHANGED vars
      BY <2>2 DEF Drop, ConsumerGone, vars, handleVars
    <2> QED
      BY <2>1, <2>2
  <1>4. Taken' = Taken /\ EndTaken' = EndTaken
    BY <1>1 DEF taskVars, eventVars, Taken, EndTaken
  <1>5. InFlightOK'
    BY <1>1, <1>2, <1>4, StreamStill DEF InFlightOK, readerVars, taskVars
  <1>6. ItemOK' /\ OneHandlerAtATime'
    BY <1>1, <1>4 DEF ItemOK, OneHandlerAtATime, taskVars, eventVars
  <1>7. TaskOK'
    BY <1>1, <1>3 DEF TaskOK, readerVars, taskVars, eventVars
  <1>8. EndOK'
    BY <1>1, <1>2 DEF EndOK, ClosedOK, Complete, readerVars, taskVars, eventVars
  <1> QED
    BY <1>5, <1>6, <1>7, <1>8

LEMMA InvStep == IndInv /\ [Next]_vars => IndInv'
  <1> SUFFICES ASSUME IndInv, [Next]_vars PROVE IndInv'
    OBVIOUS
  <1>1. TypeOK'
    BY TypeStep
  <1>2. CASE Background
    BY <1>1, <1>2, BackgroundStep
  <1>3. CASE TaskStep \/ SeeClose
    BY <1>1, <1>3, OpenOkStep, TakeMessageStep, ReaderGoneStep, TurnStep, DataStep, EndingStep
       DEF TaskStep
  <1>4. ASSUME NEW resolved \in BOOLEAN, HandlerSettles(resolved) PROVE IndInv'
    BY <1>1, <1>4, SettlesStep
  <1>5. CASE (\E k \in Closers : CallClose(k) \/ CloseStep(k)) \/ Drop \/ ConsumerGone
               \/ UNCHANGED vars
    BY <1>1, <1>5, HandleStep
  <1> QED
    BY <1>2, <1>3, <1>4, <1>5 DEF Next

LEMMA Invariance == Spec => []IndInv
  BY InvInit, InvStep, PTL DEF Spec

(* Every variable of the subscription keeps its type. *)
THEOREM TypeCorrect == Spec => []TypeOK
  BY Invariance, PTL DEF IndInv

(* From the portal to the callbacks nothing is lost, repeated or reordered.  *)
THEOREM StreamStaysIntact == Spec => []StreamIntact
  BY Invariance, PTL DEF IndInv

(* The next frame waits for the promise of the last handler. *)
THEOREM HandlersDoNotOverlap == Spec => []OneHandlerAtATime
  BY Invariance, PTL DEF IndInv

(* A subscription that nobody closed and that ends without onError has       *)
(* delivered all of an object that has ended.                                *)
THEOREM SilentEnd == Spec => []SilentEndIsComplete
  <1>1. IndInv => SilentEndIsComplete
    BY DEF IndInv, StreamIntact, TaskOK, EndOK, Over, SilentEndIsComplete
  <1> QED
    BY <1>1, Invariance, PTL

(* No callback runs once the close() that waited for the task has resolved.  *)
THEOREM QuietAfterClose == Spec => NoCallbackAfterClose
  <1>1. IndInv /\ [Next]_vars =>
          [(\E k \in Closers : closer[k] = "waited") => UNCHANGED eventVars]_vars
    <2> SUFFICES ASSUME IndInv, [Next]_vars, NEW k \in Closers, closer[k] = "waited"
                 PROVE  UNCHANGED eventVars
      OBVIOUS
    <2>1. task = "done"
      BY DEF IndInv, StreamIntact, TaskOK
    <2>2. CASE TaskStep \/ SeeClose
      BY <2>1, <2>2 DEF TaskStep, OpenOk, OpenFails, TakeMessage, ReaderGone, OnData, OnDataThrows,
           OnDataFails, EmitError, Ending, OnClose, Return, SeeClose
    <2>3. CASE Background \/ (\E r \in BOOLEAN : HandlerSettles(r)) \/ Drop \/ ConsumerGone
      BY <2>3, Zenon DEF Background, Idle, HandlerSettles, Drop, ConsumerGone
    <2>4. CASE \E j \in Closers : CallClose(j) \/ CloseStep(j)
      BY <2>4, Zenon DEF CloseStep, CallClose, FireClose, TakeHandle, Join, ResolveClose
    <2>5. CASE UNCHANGED vars
      BY <2>5, Zenon DEF vars
    <2> QED
      BY <2>2, <2>3, <2>4, <2>5 DEF Next
  <1> QED
    BY <1>1, Invariance, PTL DEF Spec, NoCallbackAfterClose

(* The callbacks implement CallbackContract: every step of the subscription  *)
(* is one of its steps or none.                                              *)
THEOREM ImplementsCallbackContract == Spec => Contract
  <1>1. Init => CC!Init
    BY DEF Init, CC!Init
  <1>2. IndInv /\ [Next]_vars => [CC!Next]_CC!vars
    <2> SUFFICES ASSUME IndInv, [Next]_vars PROVE [CC!Next]_CC!vars
      OBVIOUS
    <2>1. task \notin Over => errors = 0 /\ closes = 0
      BY DEF IndInv, StreamIntact, TaskOK, Over, TypeOK
    <2>2. CASE OnData \/ OnDataThrows
      <3>1. /\ task = "data" /\ delivered' = Append(delivered, item.seq)
            /\ UNCHANGED <<errors, closes>>
        BY <2>2 DEF OnData, OnDataThrows
      <3>2. item.seq = Len(delivered) + 1
        BY <3>1 DEF IndInv, StreamIntact, ItemOK
      <3> QED
        BY <2>1, <3>1, <3>2 DEF Over, CC!Next, CC!Data
    <2>3. CASE EmitError
      <3>1. /\ task \notin Over /\ UNCHANGED <<delivered, closes>>
            /\ errors' \in {errors, errors + 1}
        BY <2>3 DEF EmitError, Over
      <3> QED
        BY <2>1, <3>1 DEF CC!Next, CC!Error, CC!vars
    <2>4. CASE OnClose
      <3>1. /\ task = "onClose" /\ UNCHANGED <<delivered, errors>>
            /\ closes' \in {closes, closes + 1}
        BY <2>4 DEF OnClose
      <3>2. closes = 0
        BY <3>1 DEF IndInv, StreamIntact, TaskOK, TypeOK
      <3> QED
        BY <3>1, <3>2 DEF CC!Next, CC!Close, CC!vars
    <2>5. CASE SeeClose \/ OpenOk \/ OpenFails \/ TakeMessage \/ ReaderGone \/ OnDataFails
                 \/ Ending \/ Return
      BY <2>5 DEF SeeClose, OpenOk, OpenFails, TakeMessage, ReaderGone, OnDataFails, Ending,
           Return, eventVars, CC!vars
    <2>6. CASE Background \/ (\E r \in BOOLEAN : HandlerSettles(r)) \/ Drop \/ ConsumerGone
                 \/ (\E j \in Closers : CallClose(j) \/ CloseStep(j)) \/ UNCHANGED vars
      <3>1. UNCHANGED eventVars
        BY <2>6, Zenon DEF Background, Idle, HandlerSettles, Drop, ConsumerGone, CloseStep,
             CallClose, FireClose, TakeHandle, Join, ResolveClose, vars
      <3> QED
        BY <3>1 DEF eventVars, CC!vars
    <2> QED
      BY <2>2, <2>3, <2>4, <2>5, <2>6 DEF Next, TaskStep
  <1> QED
    BY <1>1, <1>2, Invariance, PTL DEF Spec, Contract, CC!Spec
=============================================================================
