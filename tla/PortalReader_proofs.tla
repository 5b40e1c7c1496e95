-------------------------- MODULE PortalReader_proofs --------------------------
(***************************************************************************)
(* Lemmas about the portal reader, for every channel capacity: each step   *)
(* of the engine, of the reader and of a consumer at the channel keeps the *)
(* stream in order.  The modules about the two kinds of subscription use   *)
(* them.                                                                   *)
(***************************************************************************)
EXTENDS PortalReader, SequenceTheorems, TLAPS

(* The messages the reader makes are messages, and of the kind they say.  *)
LEMMA MessageFacts ==
  /\ None \in Message /\ Lagged \in Message /\ Failed \in Message /\ Closed \in Message
  /\ \A n \in Nat : Frame(n) \in Message /\ IsFrame(Frame(n)) /\ Frame(n).seq = n /\ Frame(n).kind = "frame"
  /\ ~IsFrame(None) /\ ~IsFrame(Lagged) /\ ~IsFrame(Failed) /\ ~IsFrame(Closed)
  /\ None.kind = "none" /\ Lagged.kind = "lagged" /\ Failed.kind = "failed" /\ Closed.kind = "closed"
  <1> USE DEF None, Lagged, Failed, Closed, Frame
  <1>1. /\ None \in Message /\ Lagged \in Message /\ Failed \in Message /\ Closed \in Message
        /\ \A n \in Nat : Frame(n) \in Message
    BY DEF Message, Kind
  <1>2. /\ \A n \in Nat : Frame(n).kind = "frame" /\ Frame(n).seq = n
        /\ None.kind = "none" /\ Lagged.kind = "lagged"
        /\ Failed.kind = "failed" /\ Closed.kind = "closed"
    OBVIOUS
  <1> QED
    BY <1>1, <1>2 DEF IsFrame

(* An empty channel has room, and one from which a message was taken.       *)
LEMMA RoomLeft ==
  ASSUME ReaderTypeOK
  PROVE  /\ <<>> \in Seq(Message) /\ Len(<<>>) <= ChanCap
         /\ chan # <<>> =>
              /\ Head(chan) \in Message
              /\ Tail(chan) \in Seq(Message) /\ Len(Tail(chan)) <= ChanCap
  <1>1. Len(chan) \in Nat /\ Len(<<>>) = 0 /\ <<>> \in Seq(Message)
    BY EmptySeq, LenProperties DEF ReaderTypeOK
  <1>2. chan # <<>> => /\ Head(chan) \in Message /\ Tail(chan) \in Seq(Message)
                       /\ Len(Tail(chan)) = Len(chan) - 1
    BY HeadTailProperties DEF ReaderTypeOK
  <1> QED
    BY <1>1, <1>2, ChanCapAssumption DEF ReaderTypeOK

LEMMA ReaderTypeInit == ReaderInit => ReaderTypeOK
  <1> SUFFICES ASSUME ReaderInit PROVE ReaderTypeOK
    OBVIOUS
  <1>1. None \in Message
    BY MessageFacts
  <1>2. chan \in Seq(Message) /\ Len(chan) <= ChanCap
    <2>1. Len(<<>>) = 0 /\ <<>> \in Seq(Message)
      BY EmptySeq
    <2> QED
      BY <2>1, ChanCapAssumption DEF ReaderInit
  <1> QED
    BY <1>1, <1>2 DEF ReaderInit, ReaderTypeOK

(* The reader's variables keep their types.                                 *)
LEMMA ReaderTypeStep ==
  ASSUME ReaderTypeOK, OpenPortal \/ Engine \/ Reader
  PROVE  ReaderTypeOK'
  <1> USE DEF ReaderTypeOK
  <1>1. CASE OpenPortal
    BY <1>1 DEF OpenPortal
  <1>2. CASE Engine
    BY <1>2 DEF Engine, Append1, EngineStops
  <1>3. CASE PullFrame
    BY <1>3, MessageFacts DEF PullFrame
  <1>4. CASE SeeCancel
    BY <1>4, MessageFacts DEF SeeCancel
  <1>5. CASE Send
    <2>1. Append(chan, hand) \in Seq(Message) /\ Len(Append(chan, hand)) = Len(chan) + 1
      BY AppendProperties
    <2>2. Len(chan) \in Nat
      BY LenProperties
    <2>3. Len(chan') <= ChanCap
      BY <1>5, <2>1, <2>2, ChanCapAssumption DEF Send
    <2> QED
      BY <1>5, <2>1, <2>3, MessageFacts DEF Send
  <1>6. CASE SendFails
    BY <1>6, MessageFacts DEF SendFails
  <1>7. CASE ClosePortal
    BY <1>7 DEF ClosePortal
  <1> QED
    BY <1>1, <1>2, <1>3, <1>4, <1>5, <1>6, <1>7 DEF Reader

(* Nothing is in flight before the portal is opened. *)
LEMMA StreamInit ==
  ASSUME ReaderInit
  PROVE  StreamOK(0, FALSE)
  BY EmptySeq, MessageFacts DEF ReaderInit, StreamOK, EndsOK, ChanOK, CursorOK, LastOK

(* Engine and reader steps keep the stream in order, whatever the consumer *)
(* has taken from it.                                                      *)
LEMMA StreamStep ==
  ASSUME NEW n \in Nat, NEW e \in BOOLEAN,
         ReaderTypeOK, StreamOK(n, e),
         OpenPortal \/ Engine \/ Reader
  PROVE  StreamOK(n, e)'
  <1> USE DEF ReaderTypeOK, StreamOK, EndsOK
  <1>0. Len(chan) \in Nat
    BY LenProperties
  <1>1. CASE OpenPortal
    BY <1>0, <1>1 DEF OpenPortal, ChanOK, CursorOK, LastOK
  <1>2. CASE Engine
    <2>1. UNCHANGED <<cursor, reader, hand, chan, rxOpen>>
      BY <1>2 DEF Engine, Append1, EngineStops
    <2> QED
      BY <2>1 DEF ChanOK, CursorOK, LastOK
  <1>3. CASE PullFrame
    <2>1. PICK m \in {Frame(cursor + 1), Lagged, Failed, Closed} :
            /\ hand' = m
            /\ cursor' = IF IsFrame(m) THEN cursor + 1 ELSE cursor
      BY <1>3 DEF PullFrame
    <2>2. reader = "select" /\ reader' = "send" /\ UNCHANGED <<chan, rxOpen>>
      BY <1>3 DEF PullFrame
    <2>3. m.kind # "none" /\ (IsFrame(m) => m = Frame(cursor + 1) /\ m.seq = cursor + 1)
      BY <2>1, MessageFacts
    <2>4. EndsOK' /\ ChanOK(n)' /\ LastOK(n, e)'
      BY <2>1, <2>2, <2>3 DEF ChanOK, LastOK
    <2>5. rxOpen' => CursorOK(n)'
      BY <1>0, <2>1, <2>2, <2>3 DEF CursorOK
    <2> QED
      BY <2>4, <2>5
  <1>4. CASE SeeCancel
    <2>1. /\ hand' = Closed /\ Closed.kind # "none" /\ ~IsFrame(Closed)
          /\ reader = "select" /\ reader' = "send" /\ UNCHANGED <<cursor, chan, rxOpen>>
      BY <1>4, MessageFacts DEF SeeCancel
    <2> QED
      BY <1>0, <2>1 DEF ChanOK, CursorOK, LastOK
  <1>5. CASE Send
    <2>0. /\ Append(chan, hand) \in Seq(Message)
          /\ Len(Append(chan, hand)) = Len(chan) + 1
          /\ Append(chan, hand)[Len(chan) + 1] = hand
          /\ \A i \in 1..Len(chan) : Append(chan, hand)[i] = chan[i]
      OBVIOUS
    <2>1. /\ Len(Append(chan, hand)) = Len(chan) + 1
          /\ Append(chan, hand)[Len(chan) + 1] = hand
          /\ \A i \in 1..Len(chan) : Append(chan, hand)[i] = chan[i]
          /\ Append(chan, hand) # <<>>
      BY <1>0, <2>0, EmptySeq
    <2>2. /\ chan' = Append(chan, hand) /\ hand'.kind = "none" /\ hand.kind # "none"
          /\ reader = "send" /\ rxOpen
          /\ reader' = IF IsFrame(hand) THEN "select" ELSE "closing"
          /\ UNCHANGED <<cursor, rxOpen>>
      BY <1>5, MessageFacts DEF Send
    <2>3. \A i \in 1..Len(chan) : IsFrame(chan[i]) /\ chan[i].seq = n + i /\ chan[i].kind # "none"
      BY <2>2 DEF ChanOK
    <2>4. ~e /\ ~e'
      BY <2>2 DEF LastOK
    <2>5. ChanOK(n)'
      <3> SUFFICES ASSUME NEW i \in 1..Len(chan')
                   PROVE  /\ chan'[i].kind # "none"
                          /\ IsFrame(chan'[i]) => chan'[i].seq = n + i
                          /\ ~IsFrame(chan'[i]) => i = Len(chan') /\ reader' \in {"closing", "done"}
        BY DEF ChanOK
      <3>1. CASE i \in 1..Len(chan)
        BY <2>1, <2>2, <2>3, <3>1
      <3>2. CASE i = Len(chan) + 1
        BY <1>0, <2>1, <2>2, <3>2 DEF CursorOK
      <3> QED
        BY <1>0, <2>1, <2>2, <3>1, <3>2
    <2>6. CursorOK(n)'
      BY <1>0, <2>1, <2>2 DEF CursorOK
    <2>7. LastOK(n, e)'
      BY <1>0, <2>1, <2>2, <2>4 DEF LastOK, CursorOK
    <2>8. EndsOK'
      BY <2>2
    <2> QED
      BY <2>5, <2>6, <2>7, <2>8
  <1>6. CASE SendFails
    BY <1>6, EmptySeq, MessageFacts DEF SendFails, ChanOK, LastOK
  <1>7. CASE ClosePortal
    BY <1>7 DEF ClosePortal, ChanOK, CursorOK, LastOK
  <1> QED
    BY <1>1, <1>2, <1>3, <1>4, <1>5, <1>6, <1>7 DEF Reader

(* The consumer takes the oldest message: it is the next frame of the      *)
(* portal, or the message after which there is none.  The first lemma says *)
(* it with the channel's elements, the second with Head and Tail.          *)
LEMMA StreamShift ==
  ASSUME NEW n \in Nat, NEW e \in BOOLEAN,
         cursor \in Nat, StreamOK(n, e),
         Len(chan) \in Nat, Len(chan) > 0, chan # <<>>,
         Len(chan') = Len(chan) - 1,
         \A i \in 1..Len(chan') : chan'[i] = chan[i + 1],
         chan' = <<>> <=> Len(chan) = 1,
         UNCHANGED <<cursor, reader, hand, rxOpen>>
  PROVE  /\ ~e /\ chan[1].kind # "none"
         /\ IsFrame(chan[1]) => chan[1].seq = n + 1 /\ StreamOK(n + 1, FALSE)'
         /\ ~IsFrame(chan[1]) => StreamOK(n, TRUE)'
  <1> USE DEF StreamOK
  <1>1. 1 \in 1..Len(chan) /\ \A i \in 1..Len(chan') : i + 1 \in 1..Len(chan)
    OBVIOUS
  <1>2. ~e /\ rxOpen /\ rxOpen' /\ EndsOK'
    BY DEF EndsOK, LastOK
  <1>5. chan[1].kind # "none"
    BY <1>1 DEF ChanOK
  <1>3. ASSUME IsFrame(chan[1])
        PROVE  chan[1].seq = n + 1 /\ StreamOK(n + 1, FALSE)'
    <2>1. chan[1].seq = n + 1
      BY <1>1, <1>3 DEF ChanOK
    <2>2. ChanOK(n + 1)'
      <3> SUFFICES ASSUME NEW i \in 1..Len(chan')
                   PROVE  /\ chan'[i].kind # "none"
                          /\ IsFrame(chan'[i]) => chan'[i].seq = n + 1 + i
                          /\ ~IsFrame(chan'[i]) => i = Len(chan') /\ reader' \in {"closing", "done"}
        BY DEF ChanOK
      <3>1. /\ chan[i + 1].kind # "none"
            /\ IsFrame(chan[i + 1]) => chan[i + 1].seq = n + (i + 1)
            /\ ~IsFrame(chan[i + 1]) => i + 1 = Len(chan) /\ reader \in {"closing", "done"}
        BY <1>1 DEF ChanOK
      <3> QED
        BY <3>1
    <2>3. CursorOK(n + 1)'
      <3>1. n + 1 + Len(chan') = n + Len(chan)
        OBVIOUS
      <3>2. CursorOK(n)
        BY <1>2
      <3> QED
        BY <3>1, <3>2 DEF CursorOK
    <2>4. LastOK(n + 1, FALSE)'
      <3> SUFFICES ASSUME reader \in {"closing", "done"}
                   PROVE  /\ chan' # <<>> /\ ~IsFrame(chan'[Len(chan')])
                          /\ cursor = n + 1 + Len(chan') - 1
        BY DEF LastOK
      <3>1. ~IsFrame(chan[Len(chan)]) /\ cursor = n + Len(chan) - 1
        BY <1>2 DEF LastOK
      <3>2. Len(chan) # 1
        BY <1>3, <3>1
      <3>3. Len(chan') \in 1..Len(chan') /\ Len(chan') + 1 = Len(chan)
        BY <3>2
      <3>4. chan'[Len(chan')] = chan[Len(chan)]
        BY <3>3
      <3> QED
        BY <3>1, <3>2, <3>4
    <2> QED
      BY <1>2, <2>1, <2>2, <2>3, <2>4
  <1>4. ASSUME ~IsFrame(chan[1])
        PROVE  StreamOK(n, TRUE)'
    <2>1. Len(chan) = 1 /\ reader \in {"closing", "done"}
      BY <1>1, <1>4 DEF ChanOK
    <2>2. cursor = n
      BY <1>2, <2>1 DEF LastOK
    <2>3. chan' = <<>>
      BY <2>1
    <2>4. ChanOK(n)'
      <3>1. \A i \in 1..0 : FALSE
        OBVIOUS
      <3>2. Len(chan') = 0
        BY <2>1
      <3> QED
        BY <3>1, <3>2 DEF ChanOK
    <2>5. CursorOK(n)' /\ LastOK(n, TRUE)'
      BY <2>1, <2>2, <2>3 DEF CursorOK, LastOK
    <2> QED
      BY <1>2, <2>4, <2>5
  <1> QED
    BY <1>2, <1>3, <1>4, <1>5

LEMMA StreamTake ==
  ASSUME NEW n \in Nat, NEW e \in BOOLEAN,
         ReaderTypeOK, StreamOK(n, e),
         chan # <<>>, chan' = Tail(chan),
         UNCHANGED <<cursor, reader, hand, rxOpen>>
  PROVE  /\ ~e /\ Head(chan) \in Message /\ Head(chan).kind # "none"
         /\ IsFrame(Head(chan)) => Head(chan).seq = n + 1 /\ StreamOK(n + 1, FALSE)'
         /\ ~IsFrame(Head(chan)) => StreamOK(n, TRUE)'
  <1>0. chan \in Seq(Message) /\ cursor \in Nat
    BY DEF ReaderTypeOK
  <1>1. /\ Head(chan) \in Message /\ Tail(chan) \in Seq(Message)
        /\ Len(Tail(chan)) = Len(chan) - 1
        /\ \A i \in 1..Len(Tail(chan)) : Tail(chan)[i] = chan[i + 1]
    BY <1>0, HeadTailProperties
  <1>2. Len(chan) \in Nat /\ Len(chan) > 0
    BY <1>0, EmptySeq
  <1>3. Head(chan) = chan[1]
    BY <1>0
  <1>4. Tail(chan) = <<>> <=> Len(Tail(chan)) = 0
    BY <1>1, EmptySeq
  <1>5. chan' = <<>> <=> Len(chan) = 1
    BY <1>1, <1>2, <1>4
  <1>6. /\ ~e /\ chan[1].kind # "none"
        /\ IsFrame(chan[1]) => chan[1].seq = n + 1 /\ StreamOK(n + 1, FALSE)'
        /\ ~IsFrame(chan[1]) => StreamOK(n, TRUE)'
    BY <1>0, <1>1, <1>2, <1>5, StreamShift
  <1> QED
    BY <1>1, <1>3, <1>6

(* The consumer drops its end of the channel.                              *)
LEMMA StreamDrop ==
  ASSUME NEW n \in Nat, NEW e \in BOOLEAN,
         StreamOK(n, e),
         chan' = <<>>, ~rxOpen',
         UNCHANGED <<cursor, reader, hand>>
  PROVE  StreamOK(n, e)'
  BY EmptySeq DEF StreamOK, EndsOK, ChanOK, LastOK
-----------------------------------------------------------------------------
(* Once the stream is complete it stays so, and whatever says Closed on its *)
(* way to the consumer says so of a complete stream.                        *)
LEMMA ClosedInit == ReaderInit => ClosedOK
  BY EmptySeq DEF ReaderInit, ClosedOK

LEMMA CompleteStep ==
  ASSUME ReaderTypeOK, Complete, OpenPortal \/ Engine \/ Reader
  PROVE  Complete'
  <1> USE DEF Complete, ReaderTypeOK
  <1>1. CASE OpenPortal \/ SeeCancel \/ Send \/ SendFails \/ ClosePortal
    BY <1>1 DEF OpenPortal, SeeCancel, Send, SendFails, ClosePortal
  <1>2. CASE Engine
    BY <1>2 DEF Engine, Append1, EngineStops
  <1>3. CASE PullFrame
    <2>1. PICK m \in {Frame(cursor + 1), Lagged, Failed, Closed} :
            /\ Offers(m)
            /\ cursor' = IF IsFrame(m) THEN cursor + 1 ELSE cursor
      BY <1>3 DEF PullFrame
    <2>2. IsFrame(m) => cursor < appended
      BY <2>1, MessageFacts DEF Offers
    <2> QED
      BY <1>3, <2>1, <2>2 DEF PullFrame
  <1> QED
    BY <1>1, <1>2, <1>3 DEF Reader

LEMMA ClosedStep ==
  ASSUME ReaderTypeOK, ClosedOK, OpenPortal \/ Engine \/ Reader
  PROVE  ClosedOK'
  <1>1. Complete => Complete'
    BY CompleteStep
  <1>2. reader' = "send" /\ hand'.kind = "closed" => Complete'
    <2>1. CASE OpenPortal \/ Send \/ SendFails \/ ClosePortal
      BY <2>1 DEF OpenPortal, Send, SendFails, ClosePortal
    <2>2. CASE Engine
      BY <1>1, <2>2 DEF Engine, Append1, EngineStops, ClosedOK
    <2>3. CASE PullFrame
      <3>1. PICK m \in {Frame(cursor + 1), Lagged, Failed, Closed} :
              /\ Offers(m)
              /\ hand' = m
              /\ cursor' = IF IsFrame(m) THEN cursor + 1 ELSE cursor
        BY <2>3 DEF PullFrame
      <3>2. m.kind = "closed" => ~IsFrame(m) /\ engine = "ended" /\ cursor = appended
        BY <3>1, MessageFacts DEF Offers, ReaderTypeOK, IsFrame
      <3> QED
        BY <2>3, <3>1, <3>2 DEF PullFrame, Complete
    <2>4. CASE SeeCancel
      BY <2>4 DEF SeeCancel, Complete
    <2> QED
      BY <2>1, <2>2, <2>3, <2>4 DEF Reader
  <1>3. \A i \in 1..Len(chan') : chan'[i].kind = "closed" => Complete'
    <2>1. CASE Send
      <3>1. /\ Len(Append(chan, hand)) = Len(chan) + 1
            /\ Append(chan, hand)[Len(chan) + 1] = hand
            /\ \A i \in 1..Len(chan) : Append(chan, hand)[i] = chan[i]
        BY DEF ReaderTypeOK
      <3>2. chan' = Append(chan, hand) /\ reader = "send"
        BY <2>1 DEF Send
      <3>3. Len(chan) \in Nat
        BY LenProperties DEF ReaderTypeOK
      <3> QED
        BY <1>1, <3>1, <3>2, <3>3 DEF ClosedOK
    <2>2. CASE ~Send
      <3>1. chan' = chan
        BY <2>2 DEF OpenPortal, Engine, Append1, EngineStops, Reader,
                    PullFrame, SeeCancel, SendFails, ClosePortal
      <3> QED
        BY <1>1, <3>1 DEF ClosedOK
    <2> QED
      BY <2>1, <2>2
  <1> QED
    BY <1>2, <1>3 DEF ClosedOK

(* Taking the oldest message keeps this, for it and for those behind it. *)
LEMMA ClosedTake ==
  ASSUME ReaderTypeOK, ClosedOK, chan # <<>>, chan' = Tail(chan),
         UNCHANGED <<engine, appended, cursor, reader, hand, token>>
  PROVE  /\ Complete' <=> Complete
         /\ Head(chan).kind = "closed" => Complete
         /\ ClosedOK'
  <1>1. Complete' <=> Complete
    BY DEF Complete
  <1>2. Head(chan) = chan[1] /\ 1 \in 1..Len(chan)
    BY EmptySeq DEF ReaderTypeOK
  <1>3. \A i \in 1..Len(chan') : i + 1 \in 1..Len(chan) /\ chan'[i] = chan[i + 1]
    BY HeadTailProperties, LenProperties DEF ReaderTypeOK
  <1> QED
    BY <1>1, <1>2, <1>3 DEF ClosedOK

=============================================================================
