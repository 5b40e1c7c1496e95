----------------------------- MODULE QueryStream -----------------------------
(***************************************************************************)
(* QueryStream of src/query.rs: a reader task owns the query handle and    *)
(* forwards Some(batch) over a bounded channel, None being the last        *)
(* message; nextBatch(), cancel(), Connection.cancelQuery() and the Drop   *)
(* that garbage collection runs, against it.                               *)
(*                                                                         *)
(* The query itself is the core's.  It broadcasts its batches through a    *)
(* ring of BufCap entries (2048: docs/plans/02-phase1-embedded-mvp.md);    *)
(* recv_async() passes silently over what was overwritten.                 *)
(***************************************************************************)
EXTENDS Naturals, Sequences

CONSTANTS
  Calls,       \* nextBatch() calls that may be outstanding together
  ChanCap,     \* capacity of the mpsc channel (128 in the code)
  BufCap,      \* capacity of the core's broadcast ring
  MaxBatches   \* bound of the model: batches the query produces

ASSUME ChanCapAssumption == ChanCap \in Nat \ {0}
ASSUME BufCapAssumption == BufCap \in Nat \ {0}
ASSUME MaxBatchesAssumption == MaxBatches \in Nat

VARIABLES
  query,      \* "running", "finished" by itself, "killed" by cancelQuery(), "cancelled"
  produced,   \* batches the query has broadcast
  cursor,     \* the last batch the reader has received
  lost,       \* batches overwritten before the reader received them
  reader,     \* where the reader task is
  hand,       \* the message it is sending: a batch number, 0 for None
  chan,       \* the mpsc channel
  rxOpen,     \* the receiving end has not been dropped
  token,      \* QueryStream.token has fired
  handle,     \* the JS object is "held" or "dropped"
  call,       \* where each nextBatch() call is
  delivered,  \* numbers of the batches answered, in order
  over        \* a call was answered with null

queryVars == <<query, produced>>
readerVars == <<cursor, lost, reader, hand>>
callVars == <<call, delivered, over>>
vars == <<queryVars, readerVars, chan, rxOpen, token, handle, callVars>>

None == 0

(* Besides the types: a consumer that falls behind grows no queue in the    *)
(* binding, for what the reader forwards fits in the channel.               *)
TypeOK ==
  /\ query \in {"running", "finished", "killed", "cancelled"}
  /\ produced \in Nat /\ cursor \in Nat /\ lost \in Nat
  /\ reader \in {"select", "send", "closing", "done"}
  /\ hand \in Nat
  /\ chan \in Seq(Nat) /\ Len(chan) <= ChanCap
  /\ rxOpen \in BOOLEAN /\ token \in BOOLEAN
  /\ handle \in {"held", "dropped"}
  /\ call \in [Calls -> {"idle", "locking", "receiving", "resolving"}]
  /\ delivered \in Seq(Nat)
  /\ over \in BOOLEAN

(* from_handle has subscribed to the query and spawned the reader. *)
Init ==
  /\ query = "running" /\ produced = 0
  /\ cursor = 0 /\ lost = 0 /\ reader = "select" /\ hand = None
  /\ chan = <<>> /\ rxOpen = TRUE /\ token = FALSE
  /\ handle = "held"
  /\ call = [c \in Calls |-> "idle"]
  /\ delivered = <<>> /\ over = FALSE

-----------------------------------------------------------------------------
(* The query, which is not part of this repository. *)

Produce ==
  /\ query = "running"
  /\ produced < MaxBatches
  /\ produced' = produced + 1
  /\ UNCHANGED <<query, readerVars, chan, rxOpen, token, handle, callVars>>

Finish ==
  /\ query = "running"
  /\ query' = "finished"
  /\ UNCHANGED <<produced, readerVars, chan, rxOpen, token, handle, callVars>>

(* Connection.cancelQuery(queryId()) *)
CancelQuery ==
  /\ query = "running"
  /\ query' = "killed"
  /\ UNCHANGED <<produced, readerVars, chan, rxOpen, token, handle, callVars>>

(* The oldest batch that recv_async() can still return. *)
NextInRing == IF produced > cursor + BufCap THEN produced - BufCap + 1 ELSE cursor + 1

-----------------------------------------------------------------------------
(* tokio::select!, first branch: Ok(batch) *)
PullBatch ==
  /\ reader = "select"
  /\ cursor < produced
  /\ hand' = NextInRing
  /\ cursor' = NextInRing
  /\ lost' = lost + (NextInRing - (cursor + 1))
  /\ reader' = "send"
  /\ UNCHANGED <<queryVars, chan, rxOpen, token, handle, callVars>>

(* Faulty: the select has no branch for the token. *)
EndsIgnoringToken ==
  \/ query = "finished" /\ cursor = produced
  \/ query = "killed"

(* First branch, Err: a finished query disconnects once it is drained, a    *)
(* killed one may do so at once.  Second branch, taken for the same arm:    *)
(* the token has fired.                                                     *)
Ends ==
  \/ query = "finished" /\ cursor = produced
  \/ query = "killed"
  \/ token

PullEnd ==
  /\ reader = "select"
  /\ Ends
  /\ hand' = None
  /\ reader' = "send"
  /\ UNCHANGED <<queryVars, cursor, lost, chan, rxOpen, token, handle, callVars>>

(* Faulty: the loop goes on after the None message. *)
SendKeepsReading ==
  /\ reader = "send"
  /\ rxOpen
  /\ Len(chan) < ChanCap
  /\ chan' = Append(chan, hand)
  /\ reader' = "select"
  /\ UNCHANGED <<queryVars, cursor, lost, hand, rxOpen, token, handle, callVars>>

(* Faulty: an unbounded channel, where a send finds room at once. *)
SendUnbounded ==
  /\ reader = "send"
  /\ rxOpen
  /\ chan' = Append(chan, hand)
  /\ reader' = IF hand = None THEN "closing" ELSE "select"
  /\ UNCHANGED <<queryVars, cursor, lost, hand, rxOpen, token, handle, callVars>>

(* tx.send(..).await finds room; None is the last message. *)
Send ==
  /\ reader = "send"
  /\ rxOpen
  /\ Len(chan) < ChanCap
  /\ chan' = Append(chan, hand)
  /\ reader' = IF hand = None THEN "closing" ELSE "select"
  /\ UNCHANGED <<queryVars, cursor, lost, hand, rxOpen, token, handle, callVars>>

SendFails ==
  /\ reader = "send"
  /\ ~rxOpen
  /\ reader' = "closing"
  /\ UNCHANGED <<queryVars, cursor, lost, hand, chan, rxOpen, token, handle, callVars>>

(* Faulty: the task ends without cancelling the query. *)
CancelHandleForgets ==
  /\ reader = "closing"
  /\ reader' = "done"
  /\ UNCHANGED <<queryVars, cursor, lost, hand, chan, rxOpen, token, handle, callVars>>

(* handle.cancel(); drop(handle); the task ends and drops its sender. *)
CancelHandle ==
  /\ reader = "closing"
  /\ query' = IF query = "running" THEN "cancelled" ELSE query
  /\ reader' = "done"
  /\ UNCHANGED <<produced, cursor, lost, hand, chan, rxOpen, token, handle, callVars>>

-----------------------------------------------------------------------------
NextBatch(c) ==
  /\ handle = "held" /\ call[c] = "idle"
  /\ call' = [call EXCEPT ![c] = "locking"]
  /\ UNCHANGED <<queryVars, readerVars, chan, rxOpen, token, handle, delivered, over>>

(* self.rx.lock().await *)
Lock(c) ==
  /\ call[c] = "locking"
  /\ \A d \in Calls : call[d] # "receiving"
  /\ call' = [call EXCEPT ![c] = "receiving"]
  /\ UNCHANGED <<queryVars, readerVars, chan, rxOpen, token, handle, delivered, over>>

(* Faulty: the message is looked at and left in the channel. *)
ReceivePeeks(c) ==
  /\ call[c] = "receiving"
  /\ chan # <<>>
  /\ IF Head(chan) = None
       THEN over' = TRUE /\ UNCHANGED delivered
       ELSE delivered' = Append(delivered, Head(chan)) /\ UNCHANGED over
  /\ call' = [call EXCEPT ![c] = "resolving"]
  /\ UNCHANGED <<queryVars, readerVars, chan, rxOpen, token, handle>>

(* receiver.recv().await.flatten(): a batch, or null for the None message. *)
Receive(c) ==
  /\ call[c] = "receiving"
  /\ chan # <<>>
  /\ chan' = Tail(chan)
  /\ IF Head(chan) = None
       THEN over' = TRUE /\ UNCHANGED delivered
       ELSE delivered' = Append(delivered, Head(chan)) /\ UNCHANGED over
  /\ call' = [call EXCEPT ![c] = "resolving"]
  /\ UNCHANGED <<queryVars, readerVars, rxOpen, token, handle>>

(* Faulty: an empty channel is taken for the end (try_recv). *)
ReceiveEmpty(c) ==
  /\ call[c] = "receiving"
  /\ chan = <<>>
  /\ over' = TRUE
  /\ call' = [call EXCEPT ![c] = "resolving"]
  /\ UNCHANGED <<queryVars, readerVars, chan, rxOpen, token, handle, delivered>>

(* null for a channel that the reader has left. *)
ReceiveNone(c) ==
  /\ call[c] = "receiving"
  /\ reader = "done" /\ chan = <<>>
  /\ over' = TRUE
  /\ call' = [call EXCEPT ![c] = "resolving"]
  /\ UNCHANGED <<queryVars, readerVars, chan, rxOpen, token, handle, delivered>>

(* The promise settles on the JavaScript thread. *)
Resolve(c) ==
  /\ call[c] = "resolving"
  /\ call' = [call EXCEPT ![c] = "idle"]
  /\ UNCHANGED <<queryVars, readerVars, chan, rxOpen, token, handle, delivered, over>>

(* cancel() *)
Cancel ==
  /\ handle = "held"
  /\ token' = TRUE
  /\ UNCHANGED <<queryVars, readerVars, chan, rxOpen, handle, callVars>>

(* Drop: the object was collected, which a pending call prevents. *)
Drop ==
  /\ handle = "held"
  /\ \A c \in Calls : call[c] = "idle"
  /\ handle' = "dropped"
  /\ token' = TRUE
  /\ rxOpen' = FALSE
  /\ chan' = <<>>
  /\ UNCHANGED <<queryVars, readerVars, callVars>>

-----------------------------------------------------------------------------
CallStep(c) ==
  NextBatch(c) \/ Lock(c) \/ Receive(c) \/ ReceiveNone(c) \/ Resolve(c)

Next ==
  \/ Produce \/ Finish \/ CancelQuery
  \/ PullBatch \/ PullEnd \/ Send \/ SendFails \/ CancelHandle
  \/ Cancel \/ Drop
  \/ \E c \in Calls : CallStep(c)

Spec == Init /\ [][Next]_vars

(* As for PullSubscription: every ready task is polled, select! is not      *)
(* biased, the mutex is FIFO.                                               *)
Fairness ==
  /\ WF_vars(PullBatch)
  /\ SF_vars(PullEnd)
  /\ WF_vars(Send \/ SendFails \/ CancelHandle)
  /\ \A c \in Calls :
       /\ SF_vars(Lock(c))
       /\ WF_vars(Receive(c) \/ ReceiveNone(c) \/ Resolve(c))

FairSpec == Spec /\ Fairness

(* A consumer that keeps asking while it holds the handle. *)
KeepsReading == \A c \in Calls : WF_vars(NextBatch(c))

-----------------------------------------------------------------------------
(* Properties *)

(* Refinement: however concurrent calls, cancels and overwritten batches    *)
(* interleave, the answers obey BatchStream.                                *)
BS == INSTANCE BatchStream WITH answered <- delivered, ended <- over
Contract == BS!Spec

(* null without a cancel means that the query came to its end and that all  *)
(* it produced was delivered, but for what the ring overwrote: the reader   *)
(* kept the query's handle alive until it had drained the query.            *)
NullMeansComplete ==
  over /\ ~token =>
    /\ query \in {"finished", "killed"}
    /\ query = "finished" => Len(delivered) + lost = produced

(* From the ring to the answers: every batch is delivered, queued, in the    *)
(* reader's hand or counted as lost, in the query's order; the None message  *)
(* is the last, and there is a cause for it.  Inductive together with TypeOK.*)
LastDelivered == IF delivered = <<>> THEN 0 ELSE delivered[Len(delivered)]
Left == reader \in {"closing", "done"}

OrderOK ==
  /\ LastDelivered <= cursor
  /\ \A i \in 1..Len(chan) : chan[i] # None => LastDelivered < chan[i] /\ chan[i] <= cursor
  /\ \A i, j \in 1..Len(chan) :
       i < j => chan[i] # None /\ (chan[j] # None => chan[i] < chan[j])
  /\ reader = "send" /\ hand # None =>
       /\ hand = cursor /\ LastDelivered < hand
       /\ \A i \in 1..Len(chan) : chan[i] < hand
EndOK ==
  /\ \A i \in 1..Len(chan) : chan[i] = None => Left
  /\ over => chan = <<>> /\ Left
  /\ rxOpen /\ Left /\ ~over => chan # <<>> /\ chan[Len(chan)] = None
  /\ ~rxOpen => chan = <<>> /\ token /\ handle = "dropped"
  /\ handle = "dropped" => ~rxOpen /\ \A c \in Calls : call[c] = "idle"
InHand == IF reader = "send" /\ hand # None THEN 1 ELSE 0
NoneQueued == IF Left /\ ~over THEN 1 ELSE 0
CountOK ==
  rxOpen => cursor + NoneQueued = lost + Len(delivered) + Len(chan) + InHand
CauseOK ==
  (reader = "send" /\ hand = None) \/ Left =>
    token \/ query = "killed" \/ (query = "finished" /\ cursor = produced)
StreamIntact == OrderOK /\ EndOK /\ CountOK /\ CauseOK

(* A pending nextBatch() does not hang after cancel(), cancelQuery() or the *)
(* end of the query.                                                        *)
PendingCallsWake ==
  \A c \in Calls :
    (call[c] # "idle" /\ (token \/ query # "running")) ~> (call[c] = "idle")

(* A dropped stream does not keep its query alive, although the reader may  *)
(* be blocked on a full channel; nor does a cancelled one that is read.     *)
AbandonedQueryEnds ==
  /\ (handle = "dropped") ~> (query # "running")
  /\ KeepsReading => (token ~> (query # "running"))

(* query.rs:280 says that cancel() cancels the query.  The reader does not  *)
(* look at the token while it waits for room in the channel, so a consumer  *)
(* that stops reading a full stream and cancels it leaves the query running.*)
CancelCancelsQuery == token ~> (query # "running")
=============================================================================
