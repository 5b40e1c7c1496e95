------------------------------- MODULE Ingestion -------------------------------
(***************************************************************************)
(* src/ingestion.rs and the calls of src/database.rs that lead to it:      *)
(* insert(), insertArrow(), writer(), and Writer.writeRows(), writeArrow(),*)
(* watermark() and close(), against an engine that drains the source's     *)
(* buffer and a connection that is closed meanwhile; and ipc_to_batches of *)
(* src/arrow_ipc.rs, as far as ingestion depends on it.                    *)
(*                                                                         *)
(* Each of these calls is synchronous: it runs on the JavaScript thread    *)
(* from beginning to end, so no two of them interleave.  The engine and    *)
(* Connection.close() run on other threads, so they come between any two   *)
(* pushes of one call.                                                     *)
(***************************************************************************)
EXTENDS Naturals, Sequences, FiniteSetsExt

CONSTANTS
  Capacity,   \* rows that the source's buffer holds
  Payloads,   \* row counts of the batches of one call, a set of sequences
  MaxCalls,   \* bound of the model: calls that are made
  MaxMark     \* bound of the model: event times

ASSUME CapacityAssumption == Capacity \in Nat \ {0}
ASSUME PayloadAssumption == Payloads \subseteq Seq(Nat)
ASSUME MaxCallsAssumption == MaxCalls \in Nat
ASSUME MaxMarkAssumption == MaxMark \in Nat

Inserts == {"insert", "insertArrow"}
Writes == {"writeRows", "writeArrow"}
FromRows == {"insert", "writeRows"}

(* What a call is made with: a known source; what becomes of the rows or     *)
(* bytes ("900" is for rows and a column of an unsupported type); the        *)
(* source's schema; and the sizes of the batches.  Row objects become one    *)
(* batch of the source's own schema, and an IPC stream has one schema for    *)
(* all of its batches.                                                       *)
Requests ==
  {r \in [kind : Inserts \cup Writes, known : BOOLEAN, parses : {"ok", "300", "900"},
          matches : BOOLEAN, sizes : Payloads] :
     /\ r.kind \in FromRows => r.matches /\ Len(r.sizes) = 1
     /\ r.kind \in Writes => r.known
     /\ ~r.known => r.parses = "ok" /\ r.matches
     /\ r.parses # "ok" => r.matches
     /\ r.parses = "900" => r.kind \in FromRows}

VARIABLES
  closed,     \* Connection.closed
  engine,     \* "up" or "down"
  writer,     \* "none", "open" or "closed"
  requests,   \* the calls made so far, in order
  answers,    \* their outcome ("running", "ok" or the error), rows counted
  done,       \* batches that the last call has pushed
  buffer,     \* the source's buffer, each entry a batch of a call
  consumed,   \* what the engine has drained from it
  watermark   \* the event time that the writer last asked for

callVars == <<requests, answers, done>>
logVars == <<buffer, consumed>>
vars == <<closed, engine, writer, callVars, logVars, watermark>>

Init ==
  /\ closed = FALSE /\ engine = "up" /\ writer = "none"
  /\ requests = <<>> /\ answers = <<>> /\ done = 0
  /\ buffer = <<>> /\ consumed = <<>> /\ watermark = 0

-----------------------------------------------------------------------------
Last == Len(requests)
Busy == Last > 0 /\ answers[Last].outcome = "running"

(* Rows in a sequence of log entries. *)
RowsIn(entries) ==
  MapThenSumSet(LAMBDA i : requests[entries[i].call].sizes[entries[i].batch], DOMAIN entries)

Outcome(o, n) == [outcome |-> o, rows |-> n]

(* Faulty: the writer's flag is not looked at. *)
WriterClosedUnread == FALSE

WriterClosed == writer = "closed"

(* ipc_to_batches reads the whole stream before anything is pushed, and      *)
(* rows_to_batch converts every row.                                         *)
Parses(r) == r.parses = "ok"

(* The checks before the first push, in their order: the connection's latch *)
(* or the writer's flag, the source, the rows or bytes.                     *)
Admission(r) ==
  CASE r.kind \in Inserts /\ closed -> "101"
    [] r.kind \in Writes /\ WriterClosed -> "301"
    [] OTHER -> IF ~r.known THEN "200" ELSE IF ~Parses(r) THEN r.parses ELSE "running"

(* Faulty: the count of the call before is kept. *)
NonePushedKept == done

NonePushed == 0

(* insert(), insertArrow(), writeRows() or writeArrow() is called. *)
Call(r) ==
  /\ ~Busy /\ Last < MaxCalls
  /\ r.kind \in Writes => writer # "none"
  /\ requests' = Append(requests, r)
  /\ answers' = Append(answers, Outcome(Admission(r), 0))
  /\ done' = NonePushed
  /\ UNCHANGED <<closed, engine, writer, logVars, watermark>>

Answer(o, n) == answers' = [answers EXCEPT ![Last] = Outcome(o, n)]

(* Faulty: only the number of columns is compared, as the core's writer does. *)
CheckSchemaWidth(r) == TRUE

(* check_schema: all names and types, for every batch. *)
CheckSchema(r) == r.matches

NextBatch == done + 1
HasNext == Busy /\ done < Len(requests[Last].sizes)

SchemaMismatch ==
  /\ HasNext
  /\ ~CheckSchema(requests[Last])
  /\ Answer("302", 0)
  /\ UNCHANGED <<closed, engine, writer, requests, done, logVars, watermark>>

(* push_arrow does not wait: it takes the batch or fails. *)
HasRoom == engine = "up" /\ RowsIn(buffer) + requests[Last].sizes[NextBatch] <= Capacity

(* Faulty: a batch that was pushed is not counted, so it is pushed again. *)
DoneAfterForgotten == done

DoneAfter == NextBatch

(* rows += batch.num_rows() *)
Counted == answers[Last].rows + requests[Last].sizes[NextBatch]

Push ==
  /\ HasNext
  /\ CheckSchema(requests[Last])
  /\ HasRoom
  /\ buffer' = Append(buffer, [call |-> Last, batch |-> NextBatch])
  /\ done' = DoneAfter
  /\ Answer("running", Counted)
  /\ UNCHANGED <<closed, engine, writer, requests, consumed, watermark>>

(* Faulty: a full buffer is passed over. *)
OnRefusalSkip == done' = NextBatch /\ UNCHANGED answers

(* The error of the core is passed on; what was pushed before stays. *)
OnRefusal == Answer("push", 0) /\ UNCHANGED done

PushFails ==
  /\ HasNext
  /\ CheckSchema(requests[Last])
  /\ ~HasRoom
  /\ OnRefusal
  /\ UNCHANGED <<closed, engine, writer, requests, logVars, watermark>>

(* The call returns the number of rows that it has counted. *)
Return ==
  /\ Busy /\ ~HasNext
  /\ Answer("ok", answers[Last].rows)
  /\ UNCHANGED <<closed, engine, writer, requests, done, logVars, watermark>>

-----------------------------------------------------------------------------
(* Connection.writer() *)
OpenWriter ==
  /\ ~Busy
  /\ writer = "none" /\ ~closed
  /\ writer' = "open"
  /\ UNCHANGED <<closed, engine, callVars, logVars, watermark>>

(* Writer.watermark() looks at no flag: a closed writer still moves it. *)
Watermark(t) ==
  /\ ~Busy
  /\ writer # "none"
  /\ watermark' = t
  /\ UNCHANGED <<closed, engine, writer, callVars, logVars>>

(* Writer.close() *)
CloseWriter ==
  /\ ~Busy
  /\ writer = "open"
  /\ writer' = "closed"
  /\ UNCHANGED <<closed, engine, callVars, logVars, watermark>>

(* Connection.close(): the latch, a failed shutdown's release of it, and    *)
(* the engine's stop, each while a call may be running.                     *)
Latch ==
  /\ ~closed
  /\ closed' = TRUE
  /\ UNCHANGED <<engine, writer, callVars, logVars, watermark>>

Unlatch ==
  /\ closed /\ engine = "up"
  /\ closed' = FALSE
  /\ UNCHANGED <<engine, writer, callVars, logVars, watermark>>

EngineStops ==
  /\ closed /\ engine = "up"
  /\ engine' = "down"
  /\ UNCHANGED <<closed, writer, callVars, logVars, watermark>>

(* A cycle of the pipeline drains the oldest batch. *)
Drain ==
  /\ engine = "up" /\ buffer # <<>>
  /\ consumed' = Append(consumed, Head(buffer))
  /\ buffer' = Tail(buffer)
  /\ UNCHANGED <<closed, engine, writer, callVars, watermark>>

Next ==
  \/ \E r \in Requests : Call(r)
  \/ SchemaMismatch \/ Push \/ PushFails \/ Return
  \/ OpenWriter \/ CloseWriter
  \/ \E t \in 0..MaxMark : Watermark(t)
  \/ Latch \/ Unlatch \/ EngineStops \/ Drain

Spec == Init /\ [][Next]_vars

-----------------------------------------------------------------------------
(* Properties *)

Entry == [call : Nat, batch : Nat]

TypeOK ==
  /\ closed \in BOOLEAN
  /\ engine \in {"up", "down"}
  /\ writer \in {"none", "open", "closed"}
  /\ requests \in Seq(Requests)
  /\ answers \in Seq([outcome : {"running", "ok", "101", "200", "300", "301", "302", "900", "push"},
                       rows : Nat])
  /\ Len(answers) = Len(requests)
  /\ done \in Nat /\ (Last > 0 => done <= Len(requests[Last].sizes))
  /\ buffer \in Seq(Entry)
  /\ consumed \in Seq(Entry)
  /\ watermark \in 0..MaxMark

(* The sums of the first n sizes of a stream, for every n. *)
RowSums(sizes) ==
  LET sum[n \in 0..Len(sizes)] == IF n = 0 THEN 0 ELSE sum[n - 1] + sizes[n] IN sum
RowsOf(c, n) == RowSums(requests[c].sizes)[n]

(* All that the source has taken, drained or not. *)
Log == consumed \o buffer
Pushed(c) == {Log[i].batch : i \in {j \in DOMAIN Log : Log[j].call = c}}

(* The source takes the batches in the order of the calls and, within a      *)
(* call, in the order of the stream, without a gap and none twice, whatever  *)
(* is drained, refused or closed in between.  None is of a foreign schema,   *)
(* not even after the first of a call.                                       *)
LogIntact ==
  \A i \in DOMAIN Log :
    /\ requests[Log[i].call].matches
    /\ IF i > 1 /\ Log[i - 1].call = Log[i].call
         THEN Log[i].batch = Log[i - 1].batch + 1
         ELSE Log[i].batch = 1 /\ (i > 1 => Log[i - 1].call < Log[i].call)

(* A call that returns a number has pushed that many rows, which are all it  *)
(* was given.  A call that throws has pushed nothing, unless the core        *)
(* refused a later batch of an Arrow stream: the batches before it stay.     *)
AnswersAccount ==
  \A c \in 1..Last :
    LET n == Len(requests[c].sizes) IN
    CASE answers[c].outcome = "ok" -> Pushed(c) = 1..n /\ answers[c].rows = RowsOf(c, n)
      [] answers[c].outcome = "push" ->
           /\ \E k \in 0..(n - 1) : Pushed(c) = 1..k
           /\ requests[c].kind \in FromRows => Pushed(c) = {}
      [] answers[c].outcome = "running" -> Pushed(c) = 1..done /\ answers[c].rows = RowsOf(c, done)
      [] OTHER -> Pushed(c) = {}

(* A writer that was closed pushes nothing any more.                         *)
ClosedWriterIsQuiet ==
  [][writer = "closed" /\ Len(Log') > Len(Log) =>
       requests[Log'[Len(Log')].call].kind \in Inserts]_vars
=============================================================================
