--------------------------- MODULE PullSubscription ---------------------------
(***************************************************************************)
(* Subscription of src/subscription.rs: nextFrame(), isActive(), cancel(), *)
(* and the Drop that garbage collection runs, against the portal reader.   *)
(*                                                                         *)
(* Every nextFrame() call is a task of the multi-threaded tokio runtime:   *)
(* calls reach the receiver's mutex in any order, and a call holds it from *)
(* recv() until it returns.  The JavaScript promise settles later, in a    *)
(* step of its own.                                                        *)
(***************************************************************************)
EXTENDS PortalReader

CONSTANT Calls   \* nextFrame() calls that may be outstanding together

VARIABLES
  handle,     \* the JS object: "pending", "held", "rejected", "dropped"
  active,     \* SubscriptionCore.active
  call,       \* where each nextFrame() call is
  got,        \* the message each call took from the channel
  delivered,  \* sequence numbers of the frames answered, in order
  errors,     \* calls that were rejected
  over        \* a call was rejected or answered with null

callVars == <<call, got, delivered, errors, over>>
vars == <<readerVars, handle, active, callVars>>

TypeOK ==
  /\ ReaderTypeOK
  /\ handle \in {"pending", "held", "rejected", "dropped"}
  /\ active \in BOOLEAN
  /\ call \in [Calls -> {"idle", "locking", "receiving", "settling", "resolving"}]
  /\ got \in [Calls -> Message]
  /\ delivered \in Seq(Nat)
  /\ errors \in Nat
  /\ over \in BOOLEAN

Init ==
  /\ ReaderInit
  /\ handle = "pending"
  /\ active = FALSE
  /\ call = [c \in Calls |-> "idle"]
  /\ got = [c \in Calls |-> None]
  /\ delivered = <<>> /\ errors = 0 /\ over = FALSE

-----------------------------------------------------------------------------
(* Connection.subscribe() resolves, the portal is open and the reader runs. *)
Subscribe ==
  /\ handle = "pending"
  /\ OpenPortal
  /\ handle' = "held"
  /\ active' = TRUE
  /\ UNCHANGED callVars

(* Connection.subscribe() rejects: no such object, or the engine is down. *)
SubscribeFails ==
  /\ handle = "pending"
  /\ handle' = "rejected"
  /\ UNCHANGED <<readerVars, active, callVars>>

(* JavaScript calls nextFrame(). *)
NextFrame(c) ==
  /\ handle = "held" /\ call[c] = "idle"
  /\ call' = [call EXCEPT ![c] = "locking"]
  /\ UNCHANGED <<readerVars, handle, active, got, delivered, errors, over>>

(* self.core.rx.lock().await *)
Holds(c) == call[c] \in {"receiving", "settling"}

(* Faulty: the receiver is not locked. *)
LockShared(c) ==
  /\ call[c] = "locking"
  /\ call' = [call EXCEPT ![c] = "receiving"]
  /\ UNCHANGED <<readerVars, handle, active, got, delivered, errors, over>>

Lock(c) ==
  /\ call[c] = "locking"
  /\ \A d \in Calls : ~Holds(d)
  /\ call' = [call EXCEPT ![c] = "receiving"]
  /\ UNCHANGED <<readerVars, handle, active, got, delivered, errors, over>>

(* receiver.recv().await takes the oldest message. *)
Receive(c) ==
  /\ call[c] = "receiving"
  /\ chan # <<>>
  /\ got' = [got EXCEPT ![c] = Head(chan)]
  /\ chan' = Tail(chan)
  /\ call' = [call EXCEPT ![c] = "settling"]
  /\ UNCHANGED <<engine, appended, cursor, portalOpen, reader, hand, rxOpen, token,
                 handle, active, delivered, errors, over>>

(* receiver.recv().await answers None: the reader is gone and all is drained. *)
ReceiveNone(c) ==
  /\ call[c] = "receiving"
  /\ Disconnected
  /\ got' = [got EXCEPT ![c] = None]
  /\ call' = [call EXCEPT ![c] = "settling"]
  /\ UNCHANGED <<readerVars, handle, active, delivered, errors, over>>

(* The match on the message; returning releases the mutex. *)
AnswerFrame(c) ==
  /\ IsFrame(got[c])
  /\ delivered' = Append(delivered, got[c].seq)
  /\ UNCHANGED <<active, errors, over>>

(* Faulty: lag and failures end the stream with null. *)
AnswerErrorAsNull(c) ==
  /\ got[c].kind \in {"lagged", "failed"}
  /\ active' = FALSE
  /\ over' = TRUE
  /\ UNCHANGED <<delivered, errors>>

(* Faulty: a rejection does not deactivate. *)
AnswerErrorStaysActive(c) ==
  /\ got[c].kind \in {"lagged", "failed"}
  /\ errors' = errors + 1
  /\ over' = TRUE
  /\ UNCHANGED <<active, delivered>>

AnswerError(c) ==
  /\ got[c].kind \in {"lagged", "failed"}
  /\ active' = FALSE
  /\ errors' = errors + 1
  /\ over' = TRUE
  /\ UNCHANGED delivered

AnswerNull(c) ==
  /\ got[c].kind \in {"closed", "none"}
  /\ active' = FALSE
  /\ over' = TRUE
  /\ UNCHANGED <<delivered, errors>>

Settle(c) ==
  /\ call[c] = "settling"
  /\ AnswerFrame(c) \/ AnswerError(c) \/ AnswerNull(c)
  /\ call' = [call EXCEPT ![c] = "resolving"]
  /\ UNCHANGED <<readerVars, handle, got>>

(* The promise settles on the JavaScript thread. *)
Resolve(c) ==
  /\ call[c] = "resolving"
  /\ call' = [call EXCEPT ![c] = "idle"]
  /\ UNCHANGED <<readerVars, handle, active, got, delivered, errors, over>>

(* cancel() *)
Cancel ==
  /\ handle = "held"
  /\ active' = FALSE
  /\ token' = TRUE
  /\ UNCHANGED <<engine, appended, cursor, portalOpen, reader, hand, chan, rxOpen,
                 handle, callVars>>

(* Faulty: no Drop implementation, the receiver just goes. *)
DropWithoutCancel ==
  /\ handle = "held"
  /\ \A c \in Calls : call[c] = "idle"
  /\ handle' = "dropped"
  /\ rxOpen' = FALSE
  /\ chan' = <<>>
  /\ UNCHANGED <<engine, appended, cursor, portalOpen, reader, hand, token, active, callVars>>

(* Drop: the object was garbage collected, which a pending call prevents.  *)
(* The token fires, then the receiver goes with all that it still holds.   *)
Drop ==
  /\ handle = "held"
  /\ \A c \in Calls : call[c] = "idle"
  /\ handle' = "dropped"
  /\ token' = TRUE
  /\ rxOpen' = FALSE
  /\ chan' = <<>>
  /\ UNCHANGED <<engine, appended, cursor, portalOpen, reader, hand, active, callVars>>

(* is_active() *)
IsActive == active /\ ~token

-----------------------------------------------------------------------------
Background == (Engine \/ Reader) /\ UNCHANGED <<handle, active, callVars>>

CallStep(c) ==
  NextFrame(c) \/ Lock(c) \/ Receive(c) \/ ReceiveNone(c) \/ Settle(c) \/ Resolve(c)

Next ==
  \/ Subscribe \/ SubscribeFails \/ Cancel \/ Drop
  \/ Background
  \/ \E c \in Calls : CallStep(c)

Spec == Init /\ [][Next]_vars

(* The runtime polls every ready task.  tokio::select! picks a ready branch *)
(* at random, so a fired token is seen although frames keep coming, and the *)
(* mutex is FIFO, so a waiting call gets it although others keep calling.   *)
Idle == UNCHANGED <<handle, active, callVars>>

Fairness ==
  /\ WF_vars(PullFrame /\ Idle)
  /\ SF_vars(SeeCancel /\ Idle)
  /\ WF_vars((Send \/ SendFails \/ ClosePortal) /\ Idle)
  /\ \A c \in Calls :
       /\ SF_vars(Lock(c))
       /\ WF_vars(Receive(c) \/ ReceiveNone(c) \/ Settle(c) \/ Resolve(c))

FairSpec == Spec /\ Fairness

(* A consumer that keeps asking while it holds the handle. *)
KeepsReading == \A c \in Calls : WF_vars(NextFrame(c))

-----------------------------------------------------------------------------
(* Properties *)

(* Refinement: whatever the interleaving of concurrent nextFrame() calls    *)
(* with the reader, cancel() and lag, the answers obey FrameStream, that is *)
(* frames in order, at most one rejection, null from then on.               *)
FS == INSTANCE FrameStream WITH
        answered <- delivered, rejections <- errors, ended <- over
Contract == FS!Spec

(* An object that has answered null or rejected says so: isActive() is      *)
(* false from then on, whichever of several concurrent calls saw the end.   *)
InactiveOnceOver == over => ~IsActive

(* null without a cancel means end-of-stream: the subscribed object has     *)
(* ended and every entry appended to it was delivered.                      *)
NullMeansComplete ==
  over /\ errors = 0 /\ ~token => engine = "ended" /\ Len(delivered) = appended

(* What the channel carries is accounted for: one call at a time holds the  *)
(* receiver, and the frames delivered, taken, queued and in the reader's    *)
(* hand are the frames the portal handed out, in order and up to the        *)
(* terminal message.  Inductive together with TypeOK.                       *)
InHand(c) == call[c] = "settling" /\ IsFrame(got[c])
LastInHand(c) == call[c] = "settling" /\ ~IsFrame(got[c])
Taken == Len(delivered) + IF \E c \in Calls : InHand(c) THEN 1 ELSE 0
EndTaken == over \/ \E c \in Calls : LastInHand(c)

LockOK == \A c, d \in Calls : Holds(c) /\ Holds(d) => c = d
HandOK ==
  \A c \in Calls :
    /\ InHand(c) => got[c].seq = Len(delivered) + 1 /\ ~over
    /\ LastInHand(c) /\ got[c].kind # "none" => ~over
    /\ LastInHand(c) /\ got[c].kind = "none" => over
CloseOK ==
  /\ \A c \in Calls : LastInHand(c) /\ got[c].kind = "closed" => Complete
  /\ ClosedOK
  /\ over /\ errors = 0 => Complete
HandleOK ==
  /\ handle # "dropped" => rxOpen
  /\ handle \in {"pending", "dropped"} => \A c \in Calls : call[c] = "idle"
  /\ handle = "dropped" => token
  /\ handle = "pending" => ~over
  /\ over => ~active
StreamIntact ==
  LockOK /\ StreamOK(Taken, EndTaken) /\ HandOK /\ CloseOK /\ HandleOK

(* A pending nextFrame() does not hang: after cancel(), or once the engine   *)
(* has stopped or the object has ended, every outstanding call settles.      *)
PendingCallsWake ==
  \A c \in Calls :
    (call[c] # "idle" /\ (token \/ engine # "running")) ~> (call[c] = "idle")

(* A consumer that keeps calling nextFrame() learns that the engine stopped  *)
(* or the object ended.                                                      *)
ReaderLearnsOfTheEnd ==
  KeepsReading => ((handle = "held" /\ engine # "running") ~> (over \/ handle = "dropped"))

(* Neither an abandoned subscription nor a cancelled one that is read on     *)
(* pins the portal, although the reader does not look at the token while it  *)
(* waits for room in the channel.  Without KeepsReading the latter fails: a  *)
(* consumer that cancels a full subscription, keeps the object and stops     *)
(* reading pins the portal, where subscription.rs:141-142 says that the      *)
(* reader ends with the token.                                               *)
PortalReleased ==
  /\ (handle = "dropped") ~> ~portalOpen
  /\ KeepsReading => (token ~> ~portalOpen)
=============================================================================
