--------------------------- MODULE PushSubscription ---------------------------
(***************************************************************************)
(* PushSubscription of src/subscription.rs: the task that opens the        *)
(* subscription and calls onData, onError and onClose, against the portal  *)
(* reader, concurrent close() calls, and a handle that is collected.       *)
(*                                                                         *)
(* A callback is queued for the JavaScript thread and awaited; onData      *)
(* returns a promise, whose settlement is awaited too.  The task has a     *)
(* token of its own besides the reader's; close() fires the task's token,  *)
(* the task fires the reader's.                                            *)
(***************************************************************************)
EXTENDS PortalReader

CONSTANTS
  Closers,     \* close() calls, each made at most once
  NoCloser,    \* the handler does not wait for a close()
  Reentrant    \* an onData handler may await close() of its own subscription

ASSUME NoCloserAssumption == NoCloser \notin Closers
ASSUME ReentrantAssumption == Reentrant \in BOOLEAN

VARIABLES
  jsAlive,    \* the JavaScript environment exists
  handle,     \* the JS object is "held" or "dropped"
  closeToken, \* PushSubscription.token has fired
  active,     \* PushSubscription.active
  joinHandle, \* PushSubscription.done still holds the task's JoinHandle
  closer,     \* where each close() call is
  task,       \* where the spawned task is
  item,       \* the frame or error it reports
  unsettled,  \* onData promises that have not settled
  awaits,     \* the close() call the running handler awaits
  delivered,  \* sequence numbers of the frames onData was called with
  errors,     \* calls of onError
  closes,     \* calls of onClose
  threw       \* an onData handler threw before it returned a promise

eventVars == <<delivered, errors, closes>>
taskVars == <<task, item, unsettled, awaits, threw>>
handleVars == <<jsAlive, handle, closeToken, active, joinHandle, closer>>
vars == <<readerVars, handleVars, taskVars, eventVars>>

TypeOK ==
  /\ ReaderTypeOK
  /\ jsAlive \in BOOLEAN
  /\ handle \in {"held", "dropped"}
  /\ closeToken \in BOOLEAN
  /\ active \in BOOLEAN
  /\ joinHandle \in BOOLEAN
  /\ closer \in [Closers -> {"idle", "called", "taking", "joining", "joined",
                             "skipping", "waited", "skipped"}]
  /\ task \in {"opening", "select", "data", "settle", "error", "openError",
               "ending", "onClose", "returning", "done"}
  /\ item \in Message
  /\ unsettled \in Nat
  /\ awaits \in Closers \cup {NoCloser}
  /\ delivered \in Seq(Nat)
  /\ errors \in Nat
  /\ closes \in Nat
  /\ threw \in BOOLEAN

(* spawn_push_subscription has returned the handle. *)
Init ==
  /\ ReaderInit
  /\ jsAlive = TRUE /\ handle = "held"
  /\ closeToken = FALSE /\ active = TRUE /\ joinHandle = TRUE
  /\ closer = [k \in Closers |-> "idle"]
  /\ task = "opening" /\ item = None /\ unsettled = 0 /\ awaits = NoCloser
  /\ threw = FALSE
  /\ delivered = <<>> /\ errors = 0 /\ closes = 0

-----------------------------------------------------------------------------
(* The task: SubscriptionCore::open, then push_loop. *)

OpenOk ==
  /\ task = "opening"
  /\ OpenPortal
  /\ task' = "select"
  /\ UNCHANGED <<handleVars, item, unsettled, awaits, threw, eventVars>>

OpenFails ==
  /\ task = "opening"
  /\ task' = "openError"
  /\ UNCHANGED <<readerVars, handleVars, item, unsettled, awaits, threw, eventVars>>

(* Faulty: lag and failures are not reported. *)
AfterTakingSilent(m) ==
  CASE IsFrame(m) -> "data"
    [] m.kind \in {"lagged", "failed"} -> "ending"
    [] m.kind = "closed" -> "select"

(* tokio::select!, first branch: receiver.recv() has a message.  Closed is *)
(* not terminal here: the loop goes on to find the channel disconnected.   *)
AfterTaking(m) ==
  CASE IsFrame(m) -> "data"
    [] m.kind \in {"lagged", "failed"} -> "error"
    [] m.kind = "closed" -> "select"

(* Faulty: the newest message is taken first. *)
TakeMessageNewest ==
  /\ task = "select"
  /\ chan # <<>>
  /\ item' = chan[Len(chan)]
  /\ chan' = SubSeq(chan, 1, Len(chan) - 1)
  /\ task' = AfterTaking(chan[Len(chan)])
  /\ UNCHANGED <<engine, appended, cursor, portalOpen, reader, hand, rxOpen, token,
                 handleVars, unsettled, awaits, threw, eventVars>>

TakeMessage ==
  /\ task = "select"
  /\ chan # <<>>
  /\ item' = Head(chan)
  /\ chan' = Tail(chan)
  /\ task' = AfterTaking(Head(chan))
  /\ UNCHANGED <<engine, appended, cursor, portalOpen, reader, hand, rxOpen, token,
                 handleVars, unsettled, awaits, threw, eventVars>>

ReaderGone ==
  /\ task = "select"
  /\ Disconnected
  /\ task' = "ending"
  /\ UNCHANGED <<readerVars, handleVars, item, unsettled, awaits, threw, eventVars>>

(* Faulty: the token is looked at only between messages. *)
SeeCloseBetweenMessages ==
  /\ task = "select"
  /\ closeToken /\ chan # <<>>
  /\ task' = "ending"
  /\ UNCHANGED <<readerVars, handleVars, item, unsettled, awaits, threw, eventVars>>

(* Second branch: close() or Drop fired the token. *)
SeeClose ==
  /\ task = "select"
  /\ closeToken
  /\ task' = "ending"
  /\ UNCHANGED <<readerVars, handleVars, item, unsettled, awaits, threw, eventVars>>

(* The JavaScript thread runs onData, which returns a promise.  The handler *)
(* behind the promise may call close() and wait for it.                     *)
AwaitsClose ==
  /\ Reentrant /\ handle = "held"
  /\ \E k \in Closers :
       /\ closer[k] = "idle"
       /\ closer' = [closer EXCEPT ![k] = "called"]
       /\ awaits' = k

(* Faulty: the promise of the handler is not awaited. *)
OnDataNotAwaited ==
  /\ task = "data"
  /\ jsAlive
  /\ delivered' = Append(delivered, item.seq)
  /\ unsettled' = unsettled + 1
  /\ AwaitsClose \/ UNCHANGED <<awaits, closer>>
  /\ task' = "select"
  /\ UNCHANGED <<readerVars, jsAlive, handle, closeToken, active, joinHandle, item, errors, closes,
                 threw>>

OnData ==
  /\ task = "data"
  /\ jsAlive
  /\ delivered' = Append(delivered, item.seq)
  /\ unsettled' = unsettled + 1
  /\ AwaitsClose \/ UNCHANGED <<awaits, closer>>
  /\ task' = "settle"
  /\ UNCHANGED <<readerVars, jsAlive, handle, closeToken, active, joinHandle, item, errors, closes,
                 threw>>

(* The handler throws before it returns a promise: call_async fails. *)
OnDataThrows ==
  /\ task = "data"
  /\ jsAlive
  /\ delivered' = Append(delivered, item.seq)
  /\ threw' = TRUE
  /\ task' = "ending"
  /\ UNCHANGED <<readerVars, handleVars, item, unsettled, awaits, errors, closes>>

(* on_data.call_async fails: the consumer is gone.  Either way the task     *)
(* stops quietly.                                                           *)
OnDataFails ==
  /\ task = "data"
  /\ ~jsAlive
  /\ task' = "ending"
  /\ UNCHANGED <<readerVars, handleVars, item, unsettled, awaits, threw, eventVars>>

(* promise.await: a resolved handler is followed by the next frame, a       *)
(* rejected one is reported and ends the subscription.                      *)
HandlerSettles(resolved) ==
  /\ unsettled > 0
  /\ jsAlive
  /\ awaits \in Closers => closer[awaits] \in {"waited", "skipped"}
  /\ unsettled' = unsettled - 1
  /\ awaits' = NoCloser
  /\ task' = IF task = "settle" THEN (IF resolved THEN "select" ELSE "error") ELSE task
  /\ UNCHANGED <<readerVars, handleVars, item, threw, eventVars>>

(* Faulty: reporting an error also calls onClose. *)
EmitErrorCloses ==
  /\ task \in {"error", "openError"}
  /\ errors' = IF jsAlive THEN errors + 1 ELSE errors
  /\ closes' = IF jsAlive THEN closes + 1 ELSE closes
  /\ task' = IF task = "error" THEN "ending" ELSE "onClose"
  /\ UNCHANGED <<readerVars, handleVars, item, unsettled, awaits, threw, delivered>>

(* Faulty: a failed open returns without onClose. *)
EmitErrorReturns ==
  /\ task \in {"error", "openError"}
  /\ errors' = IF jsAlive THEN errors + 1 ELSE errors
  /\ task' = IF task = "error" THEN "ending" ELSE "returning"
  /\ UNCHANGED <<readerVars, handleVars, item, unsettled, awaits, threw, delivered, closes>>

(* emit_error, which ignores that onError could not be called.  A failed    *)
(* open has no loop to leave and goes straight to onClose.                  *)
EmitError ==
  /\ task \in {"error", "openError"}
  /\ errors' = IF jsAlive THEN errors + 1 ELSE errors
  /\ task' = IF task = "error" THEN "ending" ELSE "onClose"
  /\ UNCHANGED <<readerVars, handleVars, item, unsettled, awaits, threw, delivered, closes>>

(* core.token.cancel() *)
Ending ==
  /\ task = "ending"
  /\ token' = TRUE
  /\ task' = "onClose"
  /\ UNCHANGED <<engine, appended, cursor, portalOpen, reader, hand, chan, rxOpen,
                 handleVars, item, unsettled, awaits, threw, eventVars>>

(* on_close.call_async(()) *)
OnClose ==
  /\ task = "onClose"
  /\ closes' = IF jsAlive THEN closes + 1 ELSE closes
  /\ task' = "returning"
  /\ UNCHANGED <<readerVars, handleVars, item, unsettled, awaits, threw, delivered, errors>>

(* The task returns and drops the core, the receiver with it. *)
Return ==
  /\ task = "returning"
  /\ task' = "done"
  /\ rxOpen' = FALSE
  /\ chan' = <<>>
  /\ UNCHANGED <<engine, appended, cursor, portalOpen, reader, hand, token,
                 handleVars, item, unsettled, awaits, threw, eventVars>>

-----------------------------------------------------------------------------
(* close(), one action for each of its steps, and the handle's end. *)
Finished(k) == closer[k] \in {"waited", "skipped"}

CallClose(k) ==
  /\ jsAlive /\ handle = "held"
  /\ closer[k] = "idle"
  /\ closer' = [closer EXCEPT ![k] = "called"]
  /\ UNCHANGED <<readerVars, jsAlive, handle, closeToken, active, joinHandle, taskVars, eventVars>>

(* self.token.cancel(); self.active.store(false) *)
FireClose(k) ==
  /\ closer[k] = "called"
  /\ closeToken' = TRUE
  /\ active' = FALSE
  /\ closer' = [closer EXCEPT ![k] = "taking"]
  /\ UNCHANGED <<readerVars, jsAlive, handle, joinHandle, taskVars, eventVars>>

(* self.done.lock().await.take() *)
TakeHandle(k) ==
  /\ closer[k] = "taking"
  /\ joinHandle' = FALSE
  /\ closer' = [closer EXCEPT ![k] = IF joinHandle THEN "joining" ELSE "skipping"]
  /\ UNCHANGED <<readerVars, jsAlive, handle, closeToken, active, taskVars, eventVars>>

(* Faulty: the task is aborted, not waited for. *)
JoinAtOnce(k) ==
  /\ closer[k] = "joining"
  /\ closer' = [closer EXCEPT ![k] = "joined"]
  /\ UNCHANGED <<readerVars, jsAlive, handle, closeToken, active, joinHandle, taskVars, eventVars>>

(* handle.await *)
Join(k) ==
  /\ closer[k] = "joining"
  /\ task = "done"
  /\ closer' = [closer EXCEPT ![k] = "joined"]
  /\ UNCHANGED <<readerVars, jsAlive, handle, closeToken, active, joinHandle, taskVars, eventVars>>

(* The promise of close() settles on the JavaScript thread. *)
ResolveClose(k) ==
  /\ jsAlive
  /\ closer[k] \in {"joined", "skipping"}
  /\ closer' = [closer EXCEPT ![k] = IF closer[k] = "joined" THEN "waited" ELSE "skipped"]
  /\ UNCHANGED <<readerVars, jsAlive, handle, closeToken, active, joinHandle, taskVars, eventVars>>

(* Drop: the object was collected, which a pending close() prevents.  The  *)
(* JoinHandle goes with it; the task keeps running detached.               *)
Drop ==
  /\ handle = "held"
  /\ \A k \in Closers : closer[k] = "idle" \/ Finished(k)
  /\ handle' = "dropped"
  /\ closeToken' = TRUE
  /\ joinHandle' = FALSE
  /\ UNCHANGED <<readerVars, jsAlive, active, closer, taskVars, eventVars>>

(* The JavaScript environment is torn down.  The callbacks are weak         *)
(* references, so an open subscription does not keep it alive.              *)
ConsumerGone ==
  /\ jsAlive
  /\ jsAlive' = FALSE
  /\ UNCHANGED <<readerVars, handle, closeToken, active, joinHandle, closer, taskVars, eventVars>>

-----------------------------------------------------------------------------
Idle == UNCHANGED <<handleVars, taskVars, eventVars>>

Background == (Engine \/ Reader) /\ Idle

TaskStep ==
  \/ OpenOk \/ OpenFails
  \/ TakeMessage \/ ReaderGone
  \/ OnData \/ OnDataThrows \/ OnDataFails
  \/ EmitError \/ Ending \/ OnClose \/ Return

CloseStep(k) == FireClose(k) \/ TakeHandle(k) \/ Join(k) \/ ResolveClose(k)

Next ==
  \/ Background
  \/ TaskStep \/ SeeClose
  \/ \E resolved \in BOOLEAN : HandlerSettles(resolved)
  \/ \E k \in Closers : CallClose(k) \/ CloseStep(k)
  \/ Drop \/ ConsumerGone

Spec == Init /\ [][Next]_vars

(* The runtime polls every ready task and the JavaScript thread runs what   *)
(* is queued for it; select! is not biased, so a fired token is seen        *)
(* although frames keep coming.  That handlers settle is assumed of them.   *)
Fairness ==
  /\ WF_vars(PullFrame /\ Idle)
  /\ SF_vars(SeeCancel /\ Idle)
  /\ WF_vars((Send \/ SendFails \/ ClosePortal) /\ Idle)
  /\ WF_vars(TaskStep)
  /\ SF_vars(SeeClose)
  /\ WF_vars(\E resolved \in BOOLEAN : HandlerSettles(resolved))
  /\ \A k \in Closers : WF_vars(CloseStep(k))

FairSpec == Spec /\ Fairness

-----------------------------------------------------------------------------
(* Properties *)

(* Refinement: through lag, failures, rejected handlers, failed opens and    *)
(* concurrent close() calls the callbacks obey CallbackContract.             *)
CC == INSTANCE CallbackContract WITH
        frames <- delivered, errors <- errors, closes <- closes
Contract == CC!Spec

(* Backpressure: the frame after this one waits for this one's handler, so   *)
(* no two handlers run at once, and no other callback overtakes a handler.   *)
OneHandlerAtATime == unsettled <= 1 /\ (unsettled > 0 => task = "settle")

(* A callback never runs once the close() that waited for the task has       *)
(* resolved.                                                                 *)
NoCallbackAfterClose ==
  [][(\E k \in Closers : closer[k] = "waited") => UNCHANGED eventVars]_vars

(* A subscription that nobody closed ends without onError only when the      *)
(* subscribed object has ended and all of it was delivered.  The exception   *)
(* is a handler that throws: it is taken for a consumer that is gone.        *)
SilentEndIsComplete ==
  closes > 0 /\ errors = 0 /\ ~closeToken /\ jsAlive /\ ~threw =>
    engine = "ended" /\ Len(delivered) = appended

(* From the portal to the callbacks nothing is lost, repeated or reordered,  *)
(* the frame that is delivered is the next one, onError and onClose come at  *)
(* the end, nobody has waited for a task that is not done, and a stream that *)
(* ends silently is complete.  Inductive together with TypeOK and            *)
(* OneHandlerAtATime.                                                        *)
Taken == Len(delivered) + IF task = "data" THEN 1 ELSE 0
EndTaken == item # None /\ ~IsFrame(item)

Over == {"ending", "onClose", "returning", "done"}

InFlightOK == jsAlive \/ task \notin Over => StreamOK(Taken, EndTaken)
ItemOK ==
  /\ task = "opening" => item = None
  /\ task = "select" /\ EndTaken => item.kind = "closed"
  /\ task = "data" => IsFrame(item) /\ item.seq = Len(delivered) + 1
  /\ task = "settle" => IsFrame(item)
TaskOK ==
  /\ errors > 0 => task \in Over
  /\ token => task \in Over \ {"ending"}
  /\ closes > 0 => task \in {"returning", "done"}
  /\ ~rxOpen => task = "done"
  /\ \A k \in Closers : closer[k] \in {"joined", "waited"} => task = "done"
EndOK ==
  /\ item.kind = "closed" => Complete
  /\ ClosedOK
  /\ task \in Over /\ errors = 0 /\ ~closeToken /\ jsAlive /\ ~threw =>
       engine = "ended" /\ Len(delivered) = appended
StreamIntact == InFlightOK /\ ItemOK /\ TaskOK /\ EndOK

(* onError is always followed by onClose.                                    *)
ErrorThenClose == (errors > 0) ~> (closes > 0 \/ ~jsAlive)

(* close() resolves, whatever the stream is doing, unless the handler that   *)
(* is running waits for a close() itself.                                    *)
HandlerWaits == awaits \in Closers
CloseResolves ==
  \A k \in Closers :
    (closer[k] = "called") ~> (Finished(k) \/ ~jsAlive \/ HandlerWaits)

(* Closed, collected or come to its end: the task finishes and the portal is *)
(* closed, although the reader may be blocked on a full channel.             *)
PortalIsReleased ==
  (closeToken \/ engine # "running") ~>
    ((task = "done" /\ ~portalOpen) \/ ~jsAlive \/ HandlerWaits)

(* subscription.rs:338-339 says that close() resolves once the reader has    *)
(* stopped.  When an onData handler awaits it, neither ever happens: close() *)
(* joins the task, and the task awaits the handler.                          *)
CloseAlwaysResolves ==
  \A k \in Closers : (closer[k] = "called") ~> (Finished(k) \/ ~jsAlive)
=============================================================================
