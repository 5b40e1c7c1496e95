----------------------------- MODULE PortalReader -----------------------------
(***************************************************************************)
(* The portal reader task of src/subscription.rs: the part that pull and   *)
(* push subscriptions share (SubscriptionCore).                            *)
(*                                                                         *)
(* A task owns the core's SubscriptionPortal, pulls one frame at a time    *)
(* and forwards it over a bounded tokio mpsc channel.  It selects between  *)
(* the portal and a CancellationToken; it does NOT look at the token while *)
(* it waits for room in the channel.  Lagged, Failed and Closed are        *)
(* terminal: after queueing one the task closes the portal and drops its   *)
(* end of the channel.                                                     *)
(*                                                                         *)
(* Data and barrier frames take the same path everywhere in the binding,   *)
(* so both are a "frame" with its portal-local sequence number.            *)
(*                                                                         *)
(* This module has no Next of its own: PullSubscription and                *)
(* PushSubscription extend it and add the consumer's side.                 *)
(***************************************************************************)
EXTENDS Naturals, Sequences

CONSTANTS
  ChanCap,    \* capacity of the mpsc channel (128 in the code)
  Retain,     \* entries the engine retains for a portal that lags behind
  MaxFrames   \* bound of the model: entries the engine appends

ASSUME ChanCapAssumption == ChanCap \in Nat \ {0}
ASSUME RetainAssumption == Retain \in Nat \ {0}
ASSUME MaxFramesAssumption == MaxFrames \in Nat

VARIABLES
  engine,     \* the pipeline: "running", "stopped" (shut down) or "ended"
  appended,   \* entries appended to the subscribed object since the open
  cursor,     \* entries the portal has handed to the reader
  portalOpen, \* the engine still serves this portal
  reader,     \* where the reader task is
  hand,       \* the message the reader is sending, None when there is none
  chan,       \* the mpsc channel
  rxOpen,     \* the receiving end has not been dropped
  token       \* SubscriptionCore's CancellationToken has fired

readerVars == <<engine, appended, cursor, portalOpen, reader, hand, chan, rxOpen, token>>

-----------------------------------------------------------------------------
(* FrameMsg; None is what recv() answers on a closed channel, and an empty hand. *)
Kind == {"frame", "lagged", "failed", "closed", "none"}

Message == [kind : Kind, seq : Nat]

Frame(n) == [kind |-> "frame", seq |-> n]
Lagged == [kind |-> "lagged", seq |-> 0]
Failed == [kind |-> "failed", seq |-> 0]
Closed == [kind |-> "closed", seq |-> 0]
None == [kind |-> "none", seq |-> 0]

IsFrame(m) == m.kind = "frame"

(* Besides the types: a consumer that falls behind grows no queue            *)
(* (README.md:76-79), for what the reader forwards fits in the channel.      *)
ReaderTypeOK ==
  /\ engine \in {"running", "stopped", "ended"}
  /\ appended \in Nat
  /\ cursor \in Nat
  /\ portalOpen \in BOOLEAN
  /\ reader \in {"unopened", "select", "send", "closing", "done"}
  /\ hand \in Message
  /\ chan \in Seq(Message) /\ Len(chan) <= ChanCap
  /\ rxOpen \in BOOLEAN
  /\ token \in BOOLEAN

ReaderInit ==
  /\ engine = "running"
  /\ appended = 0
  /\ cursor = 0
  /\ portalOpen = FALSE
  /\ reader = "unopened"
  /\ hand = None
  /\ chan = <<>>
  /\ rxOpen = TRUE
  /\ token = FALSE

-----------------------------------------------------------------------------
(* The engine, which is not part of this repository. *)

(* A cycle of the pipeline appends an entry for this portal. *)
Append1 ==
  /\ engine = "running" /\ portalOpen
  /\ appended < MaxFrames
  /\ appended' = appended + 1
  /\ UNCHANGED <<engine, cursor, portalOpen, reader, hand, chan, rxOpen, token>>

(* The pipeline is shut down, or the subscribed object goes away. *)
EngineStops ==
  /\ engine = "running"
  /\ engine' \in {"stopped", "ended"}
  /\ UNCHANGED <<appended, cursor, portalOpen, reader, hand, chan, rxOpen, token>>

(* What SubscriptionPortal::next_frame() may resolve to, a None being Closed. *)
(* A portal that has fallen more than Retain entries behind reports lag.      *)
Offers(m) ==
  \/ m = Frame(cursor + 1) /\ cursor < appended /\ appended <= cursor + Retain
  \/ m = Lagged /\ appended > cursor + Retain
  \/ m = Failed /\ engine = "stopped"
  \/ m = Closed /\ engine = "ended" /\ cursor = appended

-----------------------------------------------------------------------------
(* SubscriptionCore::open: the portal is open and its reader is spawned. *)
OpenPortal ==
  /\ reader = "unopened"
  /\ engine = "running"
  /\ reader' = "select"
  /\ portalOpen' = TRUE
  /\ UNCHANGED <<engine, appended, cursor, hand, chan, rxOpen, token>>

(* Faulty: a failure of the portal is skipped instead of forwarded. *)
PullFrameSkipsFailures ==
  /\ reader = "select"
  /\ \E m \in {Frame(cursor + 1), Lagged, Closed} :
       /\ Offers(m)
       /\ hand' = m
       /\ cursor' = IF IsFrame(m) THEN cursor + 1 ELSE cursor
  /\ reader' = "send"
  /\ UNCHANGED <<engine, appended, portalOpen, chan, rxOpen, token>>

(* tokio::select!, first branch: next_frame() is ready. *)
PullFrame ==
  /\ reader = "select"
  /\ \E m \in {Frame(cursor + 1), Lagged, Failed, Closed} :
       /\ Offers(m)
       /\ hand' = m
       /\ cursor' = IF IsFrame(m) THEN cursor + 1 ELSE cursor
  /\ reader' = "send"
  /\ UNCHANGED <<engine, appended, portalOpen, chan, rxOpen, token>>

(* Faulty: the token is polled only after a frame has come. *)
SeeCancelAfterFrame ==
  /\ reader = "select"
  /\ token /\ cursor < appended
  /\ hand' = Closed
  /\ reader' = "send"
  /\ UNCHANGED <<engine, appended, cursor, portalOpen, chan, rxOpen, token>>

(* tokio::select!, second branch: the token has fired.  The macro polls its  *)
(* branches in random order, so a ready frame may win against a fired token. *)
SeeCancel ==
  /\ reader = "select"
  /\ token
  /\ hand' = Closed
  /\ reader' = "send"
  /\ UNCHANGED <<engine, appended, cursor, portalOpen, chan, rxOpen, token>>

(* Faulty: the loop does not end at a terminal message. *)
SendIgnoresTerminal ==
  /\ reader = "send"
  /\ rxOpen
  /\ Len(chan) < ChanCap
  /\ chan' = Append(chan, hand)
  /\ hand' = None
  /\ reader' = "select"
  /\ UNCHANGED <<engine, appended, cursor, portalOpen, rxOpen, token>>

(* Faulty: an unbounded channel, where a send finds room at once. *)
SendUnbounded ==
  /\ reader = "send"
  /\ rxOpen
  /\ chan' = Append(chan, hand)
  /\ hand' = None
  /\ reader' = IF IsFrame(hand) THEN "select" ELSE "closing"
  /\ UNCHANGED <<engine, appended, cursor, portalOpen, rxOpen, token>>

(* tx.send(msg).await finds room: queue it, and leave the loop if it is terminal. *)
Send ==
  /\ reader = "send"
  /\ rxOpen
  /\ Len(chan) < ChanCap
  /\ chan' = Append(chan, hand)
  /\ hand' = None
  /\ reader' = IF IsFrame(hand) THEN "select" ELSE "closing"
  /\ UNCHANGED <<engine, appended, cursor, portalOpen, rxOpen, token>>

(* tx.send(msg).await fails because the receiver is gone. *)
SendFails ==
  /\ reader = "send"
  /\ ~rxOpen
  /\ hand' = None
  /\ reader' = "closing"
  /\ UNCHANGED <<engine, appended, cursor, portalOpen, chan, rxOpen, token>>

(* Faulty: the task ends without closing the portal. *)
ClosePortalForgets ==
  /\ reader = "closing"
  /\ reader' = "done"
  /\ UNCHANGED <<engine, appended, cursor, portalOpen, hand, chan, rxOpen, token>>

(* portal.close(); the task ends and drops its sender. *)
ClosePortal ==
  /\ reader = "closing"
  /\ portalOpen' = FALSE
  /\ reader' = "done"
  /\ UNCHANGED <<engine, appended, cursor, hand, chan, rxOpen, token>>

Engine == Append1 \/ EngineStops

Reader == PullFrame \/ SeeCancel \/ Send \/ SendFails \/ ClosePortal

(* recv() on the channel answers None once the sender is gone and all is drained. *)
Disconnected == reader = "done" /\ chan = <<>>

-----------------------------------------------------------------------------
(* The order in which messages travel: hand, then channel.  It is stated     *)
(* over what the consumer has taken from the channel: n frames, and (when    *)
(* ended) the message after which there is none.                             *)

(* The reader has a message exactly while it sends; no receiver, no channel. *)
EndsOK ==
  /\ reader = "send" <=> hand.kind # "none"
  /\ ~rxOpen => chan = <<>>

(* The i-th frame of the portal is the i-th message, a terminal one the last.*)
ChanOK(n) ==
  \A i \in 1..Len(chan) :
    /\ chan[i].kind # "none"
    /\ IsFrame(chan[i]) => chan[i].seq = n + i
    /\ ~IsFrame(chan[i]) => i = Len(chan) /\ reader \in {"closing", "done"}

(* Nothing is lost between the portal and the consumer. *)
CursorOK(n) ==
  /\ reader \in {"unopened", "select"} => cursor = n + Len(chan)
  /\ reader = "send" /\ IsFrame(hand) => cursor = n + Len(chan) + 1 /\ hand.seq = cursor
  /\ reader = "send" /\ ~IsFrame(hand) => cursor = n + Len(chan)

(* The reader leaves its loop only with a terminal message, and stays out.   *)
LastOK(n, ended) ==
  /\ rxOpen /\ reader \in {"closing", "done"} /\ ~ended =>
       chan # <<>> /\ ~IsFrame(chan[Len(chan)]) /\ cursor = n + Len(chan) - 1
  /\ ended => chan = <<>> /\ reader \in {"closing", "done"} /\ (rxOpen => cursor = n)

StreamOK(n, ended) ==
  EndsOK /\ ChanOK(n) /\ (rxOpen => CursorOK(n)) /\ LastOK(n, ended)

(* The reader says Closed only when it was cancelled or all was handed out.  *)
Complete == token \/ (engine = "ended" /\ cursor = appended)
ClosedOK ==
  /\ reader = "send" /\ hand.kind = "closed" => Complete
  /\ \A i \in 1..Len(chan) : chan[i].kind = "closed" => Complete
=============================================================================
