-------------------------- MODULE QueryStream_proofs --------------------------
(***************************************************************************)
(* Theorems about QueryStream, for every number of concurrent calls, every *)
(* channel and ring capacity and every number of batches.                  *)
(***************************************************************************)
EXTENDS QueryStream, SequenceTheorems, TLAPS

(* Every variable keeps its type. *)
LEMMA TypeInit == Init => TypeOK
  <1> SUFFICES ASSUME Init PROVE TypeOK
    OBVIOUS
  <1>1. chan \in Seq(Nat) /\ Len(chan) <= ChanCap /\ delivered \in Seq(Nat)
    <2>1. Len(<<>>) = 0 /\ <<>> \in Seq(Nat)
      BY EmptySeq
    <2> QED
      BY <2>1, ChanCapAssumption DEF Init
  <1>2. call \in [Calls -> {"idle", "locking", "receiving", "resolving"}]
    BY DEF Init
  <1> QED
    BY <1>1, <1>2 DEF Init, TypeOK, None

LEMMA RingType ==
  ASSUME TypeOK, cursor < produced
  PROVE  NextInRing \in Nat /\ NextInRing > cursor /\ NextInRing <= produced
  BY BufCapAssumption DEF TypeOK, NextInRing

LEMMA TypeStep == TypeOK /\ [Next]_vars => TypeOK'
  <1> SUFFICES ASSUME TypeOK, [Next]_vars PROVE TypeOK'
    OBVIOUS
  <1> USE DEF TypeOK, queryVars, readerVars, callVars, None
  <1>1. CASE Produce \/ Finish \/ CancelQuery
    BY <1>1 DEF Produce, Finish, CancelQuery
  <1>2. CASE PullBatch
    BY <1>2, RingType DEF PullBatch
  <1>3. CASE PullEnd \/ SendFails \/ CancelHandle
    BY <1>3 DEF PullEnd, SendFails, CancelHandle
  <1>4. CASE Send
    <2>1. Append(chan, hand) \in Seq(Nat) /\ Len(Append(chan, hand)) = Len(chan) + 1
      BY AppendProperties
    <2>2. Len(chan) \in Nat
      BY LenProperties
    <2>3. Len(chan') <= ChanCap
      BY <1>4, <2>1, <2>2, ChanCapAssumption DEF Send
    <2> QED
      BY <1>4, <2>1, <2>3 DEF Send
  <1>5. CASE Cancel \/ Drop
    <2>1. Len(<<>>) <= ChanCap /\ <<>> \in Seq(Nat)
      BY EmptySeq, ChanCapAssumption
    <2> QED
      BY <1>5, <2>1 DEF Cancel, Drop
  <1>6. ASSUME NEW c \in Calls, CallStep(c) PROVE TypeOK'
    <2>1. CASE NextBatch(c) \/ Lock(c) \/ ReceiveNone(c) \/ Resolve(c)
      BY <2>1 DEF NextBatch, Lock, ReceiveNone, Resolve
    <2>2. CASE Receive(c)
      <3>1. Head(chan) \in Nat /\ Tail(chan) \in Seq(Nat) /\ Len(Tail(chan)) <= ChanCap
        <4>1. Len(chan) \in Nat /\ chan # <<>>
          BY <2>2, LenProperties DEF Receive
        <4>2. Head(chan) \in Nat /\ Tail(chan) \in Seq(Nat) /\ Len(Tail(chan)) = Len(chan) - 1
          BY <4>1, HeadTailProperties
        <4> QED
          BY <4>1, <4>2, ChanCapAssumption
      <3>2. delivered' \in Seq(Nat)
        <4>1. Append(delivered, Head(chan)) \in Seq(Nat)
          BY <3>1
        <4>2. delivered' \in {delivered, Append(delivered, Head(chan))}
          BY <2>2, Zenon DEF Receive
        <4> QED
          BY <4>1, <4>2
      <3>3. over' \in BOOLEAN
        BY <2>2, Zenon DEF Receive
      <3> QED
        BY <2>2, <3>1, <3>2, <3>3 DEF Receive
    <2> QED
      BY <1>6, <2>1, <2>2 DEF CallStep
  <1>7. CASE UNCHANGED vars
    BY <1>7 DEF vars
  <1> QED
    BY <1>1, <1>2, <1>3, <1>4, <1>5, <1>6, <1>7 DEF Next

(* Every variable of the stream keeps its type. *)
THEOREM TypeCorrect == Spec => []TypeOK
  BY TypeInit, TypeStep, PTL DEF Spec

-----------------------------------------------------------------------------
(* The inductive invariant: every batch is delivered, queued, in hand or     *)
(* lost, in order, and the None message comes last and for a cause.          *)
IndInv == TypeOK /\ StreamIntact

LEMMA InvInit == Init => IndInv
  <1> SUFFICES ASSUME Init PROVE StreamIntact
    BY TypeInit DEF IndInv
  <1>1. Len(chan) = 0 /\ Len(delivered) = 0 /\ LastDelivered = 0
    BY EmptySeq DEF Init, LastDelivered
  <1> QED
    BY <1>1 DEF Init, None, StreamIntact, OrderOK, EndOK, CountOK, CauseOK, Left, InHand,
           NoneQueued

(* The last batch delivered has a number, and so have the lengths. *)
LEMMA Lengths ==
  ASSUME TypeOK
  PROVE  /\ Len(chan) \in Nat /\ Len(delivered) \in Nat /\ LastDelivered \in Nat
         /\ \A i \in 1..Len(chan) : chan[i] \in Nat
  <1>1. Len(chan) \in Nat /\ Len(delivered) \in Nat
    BY LenProperties DEF TypeOK
  <1>2. delivered # <<>> => delivered[Len(delivered)] \in Nat
    BY <1>1, EmptySeq, ElementOfSeq DEF TypeOK
  <1> QED
    BY <1>1, <1>2, ElementOfSeq DEF TypeOK, LastDelivered

(* Steps of the query itself, of a call that takes nothing, and cancel(). *)
LEMMA AroundStep ==
  ASSUME IndInv, TypeOK',
         \/ Produce \/ Finish \/ CancelQuery \/ Cancel \/ UNCHANGED vars
         \/ \E c \in Calls : NextBatch(c) \/ Lock(c) \/ Resolve(c)
  PROVE  IndInv'
  <1> USE DEF IndInv, StreamIntact
  <1>1. /\ UNCHANGED <<readerVars, chan, rxOpen, handle, delivered, over>>
        /\ token => token'
    BY DEF Produce, Finish, CancelQuery, Cancel, NextBatch, Lock, Resolve, vars, queryVars,
           callVars
  <1>2. LastDelivered' = LastDelivered /\ (Left' <=> Left)
    BY <1>1 DEF LastDelivered, Left, readerVars
  <1>3. handle = "dropped" => call' = call
    BY DEF Produce, Finish, CancelQuery, Cancel, NextBatch, Lock, Resolve, vars, callVars, EndOK
  <1>4. OrderOK' /\ EndOK' /\ CountOK'
    BY <1>1, <1>2, <1>3 DEF OrderOK, EndOK, CountOK, InHand, NoneQueued, readerVars
  <1>5. CauseOK'
    <2>1. CASE Produce \/ Finish \/ CancelQuery
      BY <1>1, <1>2, <2>1 DEF Produce, Finish, CancelQuery, CauseOK, readerVars
    <2>2. CASE Cancel \/ UNCHANGED vars \/ \E c \in Calls : NextBatch(c) \/ Lock(c) \/ Resolve(c)
      <3>1. UNCHANGED queryVars
        BY <2>2 DEF Cancel, vars, NextBatch, Lock, Resolve
      <3> QED
        BY <1>1, <1>2, <3>1 DEF CauseOK, readerVars, queryVars
    <2> QED
      BY <2>1, <2>2
  <1> QED
    BY <1>4, <1>5

LEMMA PullBatchStep ==
  ASSUME IndInv, TypeOK', PullBatch
  PROVE  IndInv'
  <1> USE DEF IndInv, StreamIntact
  <1>1. /\ reader = "select" /\ reader' = "send" /\ ~Left /\ ~Left'
        /\ hand' = NextInRing /\ cursor' = NextInRing
        /\ lost' = lost + (NextInRing - (cursor + 1))
        /\ UNCHANGED <<chan, rxOpen, token, handle, call, delivered, over>>
    BY DEF PullBatch, Left, callVars
  <1>2. NextInRing \in Nat /\ NextInRing > cursor
    BY RingType DEF PullBatch
  <1>3. LastDelivered' = LastDelivered
    BY <1>1 DEF LastDelivered
  <1>4. OrderOK'
    <2>1. \A i \in 1..Len(chan) : chan[i] < NextInRing
      <3> SUFFICES ASSUME NEW i \in 1..Len(chan) PROVE chan[i] < NextInRing
        OBVIOUS
      <3>1. chan[i] \in Nat /\ cursor \in Nat
        BY Lengths DEF TypeOK
      <3>2. chan[i] # None => chan[i] <= cursor
        BY DEF OrderOK
      <3> QED
        BY <1>2, <3>1, <3>2 DEF None
    <2> QED
      BY <1>1, <1>2, <1>3, <2>1, Lengths DEF OrderOK, TypeOK
  <1>5. EndOK'
    BY <1>1 DEF EndOK
  <1>6. CountOK'
    <2>1. InHand = 0 /\ InHand' = 1 /\ NoneQueued = 0 /\ NoneQueued' = 0
      BY <1>1, <1>2 DEF InHand, NoneQueued, None, TypeOK
    <2> QED
      BY <1>1, <1>2, <2>1, Lengths DEF CountOK, TypeOK
  <1>7. CauseOK'
    BY <1>1, <1>2 DEF CauseOK, None, TypeOK
  <1> QED
    BY <1>4, <1>5, <1>6, <1>7

LEMMA PullEndStep ==
  ASSUME IndInv, TypeOK', PullEnd
  PROVE  IndInv'
  <1> USE DEF IndInv, StreamIntact
  <1>1. /\ reader = "select" /\ reader' = "send" /\ ~Left /\ ~Left' /\ hand' = None
        /\ UNCHANGED <<query, produced, cursor, lost, chan, rxOpen, token, handle, call,
                       delivered, over>>
        /\ Ends
    BY DEF PullEnd, Left, queryVars, callVars
  <1>2. LastDelivered' = LastDelivered
    BY <1>1 DEF LastDelivered
  <1>3. OrderOK' /\ EndOK' /\ CountOK'
    BY <1>1, <1>2 DEF OrderOK, EndOK, CountOK, InHand, NoneQueued
  <1>4. CauseOK'
    BY <1>1 DEF CauseOK, Ends
  <1> QED
    BY <1>3, <1>4

LEMMA SendStep ==
  ASSUME IndInv, TypeOK', Send
  PROVE  IndInv'
  <1> USE DEF IndInv, StreamIntact
  <1>1. /\ reader = "send" /\ rxOpen /\ ~Left /\ chan' = Append(chan, hand)
        /\ reader' = IF hand = None THEN "closing" ELSE "select"
        /\ UNCHANGED <<query, produced, cursor, lost, hand, rxOpen, token, handle, call,
                       delivered, over>>
    BY DEF Send, Left, queryVars, callVars
  <1>2. /\ Len(chan') = Len(chan) + 1 /\ chan'[Len(chan) + 1] = hand
        /\ \A i \in 1..Len(chan) : chan'[i] = chan[i]
    BY <1>1 DEF TypeOK
  <1>3. chan' # <<>>
    BY <1>2, Lengths, EmptySeq DEF TypeOK
  <1>4. LastDelivered' = LastDelivered /\ (Left' <=> hand = None)
    BY <1>1 DEF LastDelivered, Left
  <1>5. \A i \in 1..Len(chan') : i \in 1..Len(chan) \/ i = Len(chan) + 1
    BY <1>2, Lengths
  <1>6. \A i \in 1..Len(chan) : chan[i] # None
    BY <1>1 DEF EndOK
  <1>7. ~over
    BY <1>1 DEF EndOK
  <1>8. OrderOK'
    <2>1. \A i \in 1..Len(chan') : chan'[i] # None => LastDelivered < chan'[i] /\ chan'[i] <= cursor
      BY <1>1, <1>2, <1>5, Lengths DEF OrderOK, TypeOK
    <2>2. \A i, j \in 1..Len(chan') :
            i < j => chan'[i] # None /\ (chan'[j] # None => chan'[i] < chan'[j])
      BY <1>1, <1>2, <1>5, <1>6, Lengths DEF OrderOK
    <2>3. reader' # "send"
      BY <1>1
    <2> QED
      BY <1>1, <1>4, <2>1, <2>2, <2>3 DEF OrderOK
  <1>9. EndOK'
    BY <1>1, <1>2, <1>3, <1>4, <1>5, <1>6, <1>7 DEF EndOK
  <1>10. CountOK'
    <2>1. /\ NoneQueued = 0 /\ InHand' = 0
          /\ (NoneQueued' = 1 /\ InHand = 0) \/ (NoneQueued' = 0 /\ InHand = 1)
      BY <1>1, <1>4, <1>7 DEF InHand, NoneQueued
    <2>3. cursor + NoneQueued = lost + Len(delivered) + Len(chan) + InHand
      BY <1>1 DEF CountOK
    <2>4. cursor' = cursor /\ lost' = lost /\ delivered' = delivered
      BY <1>1, Zenon
    <2>5. cursor \in Nat /\ lost \in Nat
      BY DEF TypeOK
    <2>6. Len(chan) \in Nat /\ Len(delivered) \in Nat /\ Len(chan') = Len(chan) + 1
      BY <1>2, Lengths
    <2>7. cursor + NoneQueued' = lost + Len(delivered) + Len(chan') + InHand'
      <3>1. CASE NoneQueued' = 1 /\ InHand = 0
        BY <2>1, <2>3, <2>5, <2>6, <3>1
      <3>2. CASE NoneQueued' = 0 /\ InHand = 1
        BY <2>1, <2>3, <2>5, <2>6, <3>2
      <3> QED
        BY <2>1, <3>1, <3>2
    <2> QED
      BY <2>4, <2>7 DEF CountOK
  <1>11. CauseOK'
    BY <1>1, <1>4 DEF CauseOK
  <1> QED
    BY <1>8, <1>9, <1>10, <1>11

(* The reader ends: the receiver is gone, or the None message is queued. *)
LEMMA LeaveStep ==
  ASSUME IndInv, TypeOK', SendFails \/ CancelHandle
  PROVE  IndInv'
  <1> USE DEF IndInv, StreamIntact
  <1>1. /\ Left' /\ reader' # "send"
        /\ UNCHANGED <<produced, cursor, lost, hand, chan, rxOpen, token, handle, call,
                       delivered, over>>
        /\ (reader = "send" /\ ~rxOpen) \/ (Left /\ reader # "send")
        /\ query' = query \/ (Left /\ query = "running")
    BY DEF SendFails, CancelHandle, Left, queryVars, callVars
  <1>2. LastDelivered' = LastDelivered
    BY <1>1 DEF LastDelivered
  <1>3. OrderOK' /\ EndOK' /\ CountOK'
    BY <1>1, <1>2 DEF OrderOK, EndOK, CountOK, InHand, NoneQueued
  <1>4. CauseOK'
    BY <1>1 DEF CauseOK, EndOK
  <1> QED
    BY <1>3, <1>4

LEMMA ReceiveStep ==
  ASSUME IndInv, TypeOK', NEW c \in Calls, Receive(c)
  PROVE  IndInv' /\ ~over /\ (Head(chan) # None => Head(chan) > LastDelivered)
  <1> USE DEF IndInv, StreamIntact
  <1>1. /\ call[c] = "receiving" /\ chan # <<>> /\ chan' = Tail(chan)
        /\ UNCHANGED <<query, produced, cursor, lost, reader, hand, rxOpen, token, handle>>
    BY DEF Receive, queryVars, readerVars
  <1>2. /\ Len(chan') = Len(chan) - 1 /\ Len(chan) > 0 /\ Head(chan) = chan[1]
        /\ \A i \in 1..Len(chan') : i + 1 \in 1..Len(chan) /\ chan'[i] = chan[i + 1]
        /\ chan' = <<>> <=> Len(chan') = 0
    <2>1. chan \in Seq(Nat) /\ chan' \in Seq(Nat)
      BY DEF TypeOK
    <2>2. Len(chan) \in Nat /\ Len(chan) > 0
      BY <1>1, <2>1, EmptySeq
    <2>3. /\ Len(chan') = Len(chan) - 1
          /\ \A i \in 1..Len(chan') : chan'[i] = chan[i + 1]
      BY <1>1, <2>1, HeadTailProperties
    <2>4. Head(chan) = chan[1]
      BY <2>1
    <2>5. \A i \in 1..Len(chan') : i + 1 \in 1..Len(chan)
      BY <2>2, <2>3
    <2>6. chan' = <<>> <=> Len(chan') = 0
      BY <2>1, EmptySeq
    <2> QED
      BY <2>2, <2>3, <2>4, <2>5, <2>6
  <1>3. ~over /\ handle # "dropped" /\ rxOpen
    BY <1>1 DEF EndOK, TypeOK
  <1>4. 1 \in 1..Len(chan) /\ chan[1] \in Nat
    BY <1>2, Lengths
  <1>5. CASE Head(chan) = None
    <2>1. over' = TRUE /\ delivered' = delivered
      BY <1>5, Zenon DEF Receive
    <2>2. Len(chan) = 1 /\ Left
      <3>1. Len(chan) > 1 => 2 \in 1..Len(chan) /\ 1 < 2
        BY Lengths
      <3>2. Len(chan) <= 1
        BY <1>2, <1>4, <1>5, <3>1, Lengths DEF OrderOK
      <3> QED
        BY <1>2, <1>4, <1>5, <3>2, Lengths DEF EndOK
    <2>3. chan' = <<>> /\ Len(chan') = 0
      BY <1>2, <2>2
    <2>4. LastDelivered' = LastDelivered /\ Left'
      BY <1>1, <2>1, <2>2 DEF LastDelivered, Left
    <2>5. OrderOK'
      <3>1. reader' # "send" /\ LastDelivered' <= cursor'
        BY <1>1, <2>2, <2>4 DEF OrderOK, Left
      <3>2. \A i \in 1..Len(chan') : FALSE
        BY <2>3
      <3> QED
        BY <3>1, <3>2 DEF OrderOK
    <2>6. EndOK'
      BY <1>1, <1>3, <2>1, <2>3, <2>4 DEF EndOK
    <2>7. CountOK'
      <3>1. NoneQueued = 1 /\ NoneQueued' = 0 /\ InHand = 0 /\ InHand' = 0
        BY <1>1, <1>3, <2>1, <2>2 DEF NoneQueued, InHand, Left
      <3>2. cursor + NoneQueued = lost + Len(delivered) + Len(chan) + InHand
        BY <1>3 DEF CountOK
      <3>3. cursor' = cursor /\ lost' = lost
        BY <1>1, Zenon
      <3>4. cursor \in Nat /\ lost \in Nat
        BY DEF TypeOK
      <3> QED
        BY <2>1, <2>2, <2>3, <3>1, <3>2, <3>3, <3>4, Lengths DEF CountOK
    <2>8. CauseOK'
      BY <1>1 DEF CauseOK, Left
    <2> QED
      BY <1>3, <1>5, <2>5, <2>6, <2>7, <2>8
  <1>6. CASE Head(chan) # None
    <2>1. over' = over /\ delivered' = Append(delivered, Head(chan))
      BY <1>6, Zenon DEF Receive
    <2>2. Len(delivered') = Len(delivered) + 1 /\ LastDelivered' = Head(chan)
      <3>1. /\ Head(chan) \in Nat
            /\ Len(delivered') = Len(delivered) + 1 /\ delivered'[Len(delivered) + 1] = Head(chan)
        BY <1>2, <1>4, <2>1 DEF TypeOK
      <3>2. delivered' # <<>>
        BY <3>1, Lengths, EmptySeq DEF TypeOK
      <3> QED
        BY <3>1, <3>2 DEF LastDelivered
    <2>3. LastDelivered < Head(chan) /\ Head(chan) <= cursor /\ (Left' <=> Left)
      BY <1>1, <1>2, <1>4, <1>6 DEF OrderOK, Left
    <2>4. OrderOK'
      <3>1. \A i \in 1..Len(chan') :
              chan'[i] # None => Head(chan) < chan'[i] /\ chan'[i] <= cursor
        BY <1>2, <1>4, Lengths DEF OrderOK
      <3>2. \A i, j \in 1..Len(chan') :
              i < j => chan'[i] # None /\ (chan'[j] # None => chan'[i] < chan'[j])
        <4> SUFFICES ASSUME NEW i \in 1..Len(chan'), NEW j \in 1..Len(chan'), i < j
                     PROVE  chan'[i] # None /\ (chan'[j] # None => chan'[i] < chan'[j])
          OBVIOUS
        <4>1. i + 1 \in 1..Len(chan) /\ j + 1 \in 1..Len(chan) /\ i + 1 < j + 1
          BY <1>2, Lengths
        <4>2. chan[i + 1] # None /\ (chan[j + 1] # None => chan[i + 1] < chan[j + 1])
          BY <4>1 DEF OrderOK
        <4> QED
          BY <1>2, <4>2
      <3>3. reader = "send" /\ hand # None =>
              hand = cursor /\ Head(chan) < hand /\ \A i \in 1..Len(chan') : chan'[i] < hand
        BY <1>2, <1>4 DEF OrderOK
      <3> QED
        BY <1>1, <2>2, <2>3, <3>1, <3>2, <3>3 DEF OrderOK
    <2>5. EndOK'
      <3>1. rxOpen /\ Left => chan' # <<>> /\ chan'[Len(chan')] = None
        <4> SUFFICES ASSUME rxOpen, Left PROVE chan' # <<>> /\ chan'[Len(chan')] = None
          OBVIOUS
        <4>1. chan[Len(chan)] = None
          BY <1>3 DEF EndOK
        <4>2. Len(chan) # 1
          BY <1>2, <1>6, <4>1
        <4>3. Len(chan') \in 1..Len(chan') /\ Len(chan') + 1 = Len(chan)
          BY <1>2, <4>2, Lengths
        <4> QED
          BY <1>2, <4>1, <4>3
      <3>2. \A i \in 1..Len(chan') : chan'[i] = None => Left
        BY <1>2 DEF EndOK
      <3> QED
        BY <1>1, <1>3, <2>1, <2>3, <3>1, <3>2 DEF EndOK
    <2>6. CountOK'
      <3>1. /\ NoneQueued' = NoneQueued /\ NoneQueued \in {0, 1}
            /\ InHand' = InHand /\ InHand \in {0, 1}
        BY <1>1, <2>1, <2>3 DEF NoneQueued, InHand
      <3>2. cursor + NoneQueued = lost + Len(delivered) + Len(chan) + InHand
        BY <1>3 DEF CountOK
      <3>3. cursor' = cursor /\ lost' = lost
        BY <1>1, Zenon
      <3>4. cursor \in Nat /\ lost \in Nat
        BY DEF TypeOK
      <3>5. /\ Len(chan) \in Nat /\ Len(delivered) \in Nat
            /\ Len(chan') = Len(chan) - 1 /\ Len(delivered') = Len(delivered) + 1
        BY <1>2, <2>2, Lengths
      <3>6. cursor + NoneQueued' = lost + Len(delivered') + Len(chan') + InHand'
        BY <3>1, <3>2, <3>4, <3>5
      <3> QED
        BY <3>3, <3>6 DEF CountOK
    <2>7. CauseOK'
      BY <1>1 DEF CauseOK, Left
    <2> QED
      BY <1>3, <1>6, <2>3, <2>4, <2>5, <2>6, <2>7
  <1> QED
    BY <1>5, <1>6

LEMMA ReceiveNoneStep ==
  ASSUME IndInv, TypeOK', NEW c \in Calls, ReceiveNone(c)
  PROVE  IndInv'
  <1> USE DEF IndInv, StreamIntact
  <1>1. /\ Left /\ chan = <<>> /\ over' = TRUE /\ call[c] = "receiving"
        /\ UNCHANGED <<query, produced, cursor, lost, reader, hand, chan, rxOpen, token, handle,
                       delivered>>
    BY DEF ReceiveNone, Left, queryVars, readerVars
  <1>2. handle # "dropped"
    BY <1>1 DEF EndOK
  <1>3. over /\ rxOpen
    BY <1>1, <1>2 DEF EndOK
  <1>4. LastDelivered' = LastDelivered /\ (Left' <=> Left)
    BY <1>1 DEF LastDelivered, Left
  <1>5. OrderOK' /\ EndOK' /\ CountOK' /\ CauseOK'
    BY <1>1, <1>2, <1>3, <1>4 DEF OrderOK, EndOK, CountOK, CauseOK, InHand, NoneQueued
  <1> QED
    BY <1>5

LEMMA DropStep ==
  ASSUME IndInv, TypeOK', Drop
  PROVE  IndInv'
  <1> USE DEF IndInv, StreamIntact
  <1>1. /\ \A c \in Calls : call[c] = "idle"
        /\ handle' = "dropped" /\ token' = TRUE /\ rxOpen' = FALSE /\ chan' = <<>>
        /\ UNCHANGED <<query, produced, cursor, lost, reader, hand, call, delivered, over>>
    BY DEF Drop, queryVars, readerVars, callVars
  <1>2. LastDelivered' = LastDelivered /\ (Left' <=> Left) /\ Len(chan') = 0
    BY <1>1, EmptySeq DEF LastDelivered, Left
  <1>3. OrderOK' /\ EndOK' /\ CountOK' /\ CauseOK'
    BY <1>1, <1>2 DEF OrderOK, EndOK, CountOK, CauseOK, InHand, NoneQueued
  <1> QED
    BY <1>3

LEMMA InvStep == IndInv /\ [Next]_vars => IndInv'
  <1> SUFFICES ASSUME IndInv, [Next]_vars PROVE IndInv'
    OBVIOUS
  <1>1. TypeOK'
    BY TypeStep DEF IndInv
  <1>2. ASSUME NEW c \in Calls, CallStep(c) PROVE IndInv'
    BY <1>1, <1>2, AroundStep, ReceiveStep, ReceiveNoneStep DEF CallStep
  <1> QED
    BY <1>1, <1>2, AroundStep, PullBatchStep, PullEndStep, SendStep, LeaveStep, DropStep DEF Next

LEMMA Invariance == Spec => []IndInv
  BY InvInit, InvStep, PTL DEF Spec

(* From the ring to the answers every batch is delivered, queued, in hand    *)
(* or counted as lost, in the query's order.                                 *)
THEOREM StreamStaysIntact == Spec => []StreamIntact
  BY Invariance, PTL DEF IndInv

(* null without a cancel means that the query came to its end and all that   *)
(* the ring did not overwrite was delivered.                                 *)
THEOREM NullIsComplete == Spec => []NullMeansComplete
  <1>1. IndInv => NullMeansComplete
    <2> SUFFICES ASSUME IndInv, over, ~token
                 PROVE  /\ query \in {"finished", "killed"}
                        /\ query = "finished" => Len(delivered) + lost = produced
      BY DEF NullMeansComplete
    <2> USE DEF IndInv, StreamIntact
    <2>1. chan = <<>> /\ Left /\ rxOpen
      BY DEF EndOK
    <2>2. query = "killed" \/ (query = "finished" /\ cursor = produced)
      BY <2>1 DEF CauseOK
    <2>3. cursor = lost + Len(delivered)
      BY <2>1, EmptySeq, Lengths DEF CountOK, Left, TypeOK, InHand, NoneQueued
    <2> QED
      BY <2>2, <2>3, Lengths DEF TypeOK
  <1> QED
    BY <1>1, Invariance, PTL

(* The answers of any number of concurrent nextBatch() calls implement       *)
(* BatchStream: every step of the stream is one of its steps or none.        *)
THEOREM ImplementsBatchStream == Spec => Contract
  <1>1. Init => BS!Init
    BY DEF Init, BS!Init
  <1>2. IndInv /\ [Next]_vars => [BS!Next]_BS!vars
    <2> SUFFICES ASSUME IndInv, [Next]_vars PROVE [BS!Next]_BS!vars
      OBVIOUS
    <2>1. ASSUME NEW c \in Calls, Receive(c) PROVE BS!Next
      <3>1. ~over /\ (Head(chan) # None => Head(chan) > LastDelivered)
        BY <2>1, ReceiveStep, TypeStep DEF IndInv
      <3>2. CASE Head(chan) = None
        BY <2>1, <3>2, Zenon DEF Receive, BS!Next, BS!End
      <3>3. CASE Head(chan) # None
        <4>1. over' = over /\ delivered' = Append(delivered, Head(chan))
          BY <2>1, <3>3, Zenon DEF Receive
        <4>2. Head(chan) \in Nat
          BY <2>1, HeadTailProperties DEF Receive, IndInv, TypeOK
        <4>3. delivered' # <<>> /\ delivered'[Len(delivered')] = Head(chan)
          BY <4>1, <4>2, Lengths, EmptySeq DEF IndInv, TypeOK
        <4>4. BS!Follows(Head(chan))
          BY <3>1, <3>3 DEF BS!Follows, LastDelivered
        <4> QED
          BY <3>1, <4>1, <4>3, <4>4 DEF BS!Next, BS!Yield
      <3> QED
        BY <3>2, <3>3
    <2>2. ASSUME NEW c \in Calls, ReceiveNone(c) PROVE BS!Next
      BY <2>2, Zenon DEF ReceiveNone, BS!Next, BS!End
    <2>3. ASSUME NEW c \in Calls, NextBatch(c) \/ Lock(c) \/ Resolve(c) PROVE UNCHANGED BS!vars
      BY <2>3 DEF NextBatch, Lock, Resolve, BS!vars
    <2>4. CASE \/ Produce \/ Finish \/ CancelQuery \/ PullBatch \/ PullEnd \/ Send \/ SendFails
               \/ CancelHandle \/ Cancel \/ Drop \/ UNCHANGED vars
      BY <2>4 DEF Produce, Finish, CancelQuery, PullBatch, PullEnd, Send, SendFails,
           CancelHandle, Cancel, Drop, vars, callVars, BS!vars
    <2> QED
      BY <2>1, <2>2, <2>3, <2>4 DEF Next, CallStep
  <1> QED
    BY <1>1, <1>2, Invariance, PTL DEF Spec, Contract, BS!Spec
=============================================================================
