------------------------------ MODULE Connection ------------------------------
(***************************************************************************)
(* Connection of src/database.rs: the operations that look at the latch    *)
(* (ensure_open) and then use the engine, composed with the close() calls  *)
(* of Latch.  An operation that runs SQL may start a query of the core,    *)
(* whose handle it owns: execute() and query() collect it (QueryResult of  *)
(* src/query.rs), streamQuery() hands it to a QueryStream.                 *)
(*                                                                         *)
(* Operations are tasks of a multi-threaded runtime, or run on the         *)
(* JavaScript thread, so their steps interleave with one another's, with   *)
(* those of close() and with the queries.  The queries and their ring are  *)
(* those of QueryStream, one for each operation.                           *)
(***************************************************************************)
EXTENDS Latch

CONSTANTS
  Ops,      \* operations that may be outstanding together
  MayCall,  \* what each of them may be, which bounds the model
  BufCap    \* capacity of a query's broadcast ring

Collecting == {"execute", "query"}
Sql == Collecting \cup {"streamQuery"}
Kinds == Sql \cup {"cancelQuery", "control", "catalog", "metrics"}

ASSUME MayCallAssumption == MayCall \in [Ops -> SUBSET Kinds]
ASSUME BufCapAssumption == BufCap \in Nat \ {0}

VARIABLES
  op,      \* where each operation is
  kind,    \* which operation it is
  result,  \* what it is answered with: "none", "ok" or the error
  query    \* the query it has started

opVars == <<op, kind, result, query>>
vars == <<latchVars, opVars>>

(* A query is "running", "finished" by itself, "killed" by cancelQuery() or  *)
(* the core, or "cancelled" with its handle.  Some of the batches in its     *)
(* ring are yet unread.                                                      *)
Query(state, unread) == [state |-> state, unread |-> unread]
NoQuery == Query("none", 0)

(* What an operation has been answered with: nothing until it is over or has *)
(* handed its stream out; 400 only a statement that is no query, and never   *)
(* execute() (database.rs:147-150, :173, :363); 200 only a name unknown.     *)
AnswerFits(at, k, r) ==
  /\ r = "none" <=> at \in {"idle", "called", "admitted", "subscribing", "collecting"}
  /\ r = "400" => k \in {"query", "streamQuery"}
  /\ r = "200" => k \in {"catalog", "metrics"}

TypeOK ==
  /\ LatchTypeOK
  /\ op \in [Ops -> {"idle", "called", "admitted", "subscribing", "collecting",
                     "streaming", "answered"}]
  /\ kind \in [Ops -> Kinds \cup {"none"}]
  /\ result \in [Ops -> {"none", "ok", "101", "200", "400", "error"}]
  /\ query \in [Ops ->
       [state : {"none", "running", "finished", "killed", "cancelled"}, unread : 0..BufCap]]
  /\ \A o \in Ops : AnswerFits(op[o], kind[o], result[o])

Init ==
  /\ LatchInit
  /\ op = [o \in Ops |-> "idle"]
  /\ kind = [o \in Ops |-> "none"]
  /\ result = [o \in Ops |-> "none"]
  /\ query = [o \in Ops |-> NoQuery]

-----------------------------------------------------------------------------
(* The steps of an operation leave the latch and the engine alone.  Any     *)
(* operation but isClosed() and isCheckpointEnabled() is called.            *)
CallOp(o) ==
  /\ op[o] = "idle"
  /\ op' = [op EXCEPT ![o] = "called"]
  /\ \E k \in MayCall[o] : kind' = [kind EXCEPT ![o] = k]
  /\ UNCHANGED <<result, query>>

Answer(o, r) ==
  /\ op' = [op EXCEPT ![o] = "answered"]
  /\ result' = [result EXCEPT ![o] = r]
  /\ UNCHANGED kind

(* Its promise settles on the JavaScript thread. *)
Settle(o) ==
  /\ op[o] = "answered"
  /\ op' = [op EXCEPT ![o] = "idle"]
  /\ kind' = [kind EXCEPT ![o] = "none"]
  /\ result' = [result EXCEPT ![o] = "none"]
  /\ query' = [query EXCEPT ![o] = NoQuery]

(* Faulty: an operation that does not look at the latch. *)
IsClosedUnread == FALSE

(* is_closed() *)
IsClosed == closed

(* ensure_open(): let through, or rejected with LAMINAR_101. *)
EnsureOpen(o) ==
  /\ op[o] = "called"
  /\ ~IsClosed
  /\ op' = [op EXCEPT ![o] = "admitted"]
  /\ UNCHANGED <<kind, result, query>>

Refuse(o) ==
  /\ op[o] = "called"
  /\ IsClosed
  /\ Answer(o, "101")
  /\ UNCHANGED query

(* Whatever has become of the engine since, the operation uses it. *)
Admitted(o, kinds) == op[o] = "admitted" /\ kind[o] \in kinds

(* start() and checkpoint() pass the core's error on. *)
Control(o) ==
  /\ Admitted(o, {"control"})
  /\ \E r \in {"ok", "error"} : Answer(o, r)
  /\ UNCHANGED query

(* listSources(), sourceInfos(), schema() and the like: reads of the core's *)
(* registries, refused only for a name that is not there.                   *)
Catalog(o) ==
  /\ Admitted(o, {"catalog"})
  /\ \E r \in {"ok", "200"} : Answer(o, r)
  /\ UNCHANGED query

(* metrics(), sourceMetrics(), pipelineState() and the like. *)
Metrics(o) ==
  /\ Admitted(o, {"metrics"})
  /\ \E r \in {"ok", "200"} : Answer(o, r)
  /\ UNCHANGED query

(* cancelQuery(): a query that runs is killed, though another operation may *)
(* be collecting it.  What the core says of other ids is its own.           *)
CancelQuery(o) ==
  /\ Admitted(o, {"cancelQuery"})
  /\ \/ \E p \in Ops :
          /\ query[p].state = "running"
          /\ query' = [query EXCEPT ![p].state = "killed"]
          /\ Answer(o, "ok")
     \/ \E r \in {"ok", "error"} : Answer(o, r) /\ UNCHANGED query

-----------------------------------------------------------------------------
(* db.execute() fails. *)
StatementFails(o) ==
  /\ Admitted(o, Sql)
  /\ Answer(o, "error")
  /\ UNCHANGED query

(* Faulty: execute() rejects a statement that is not a query, too. *)
StatementRunsRejected(o) ==
  /\ Admitted(o, Sql)
  /\ Answer(o, "400")
  /\ UNCHANGED query

(* It has run a statement that is not a query.  query() and streamQuery()   *)
(* reject it with LAMINAR_400 only now.                                     *)
StatementRuns(o) ==
  /\ Admitted(o, Sql)
  /\ Answer(o, IF kind[o] = "execute" THEN "ok" ELSE "400")
  /\ UNCHANGED query

(* It has started a query and returns its handle. *)
StartQuery(o) ==
  /\ Admitted(o, Sql)
  /\ op' = [op EXCEPT ![o] = "subscribing"]
  /\ query' = [query EXCEPT ![o] = Query("running", 0)]
  /\ UNCHANGED <<kind, result>>

(* Faulty: the handle goes as soon as the subscription is there. *)
AfterSubscribingDropped(q) ==
  IF q.state = "running" THEN [q EXCEPT !.state = "cancelled"] ELSE q

(* The handle stays in collect()'s frame, or with the stream's reader. *)
AfterSubscribing(q) == q

(* QueryHandle::drop cancels the query. *)
DropHandle(o) ==
  query' = [query EXCEPT ![o].state = IF @ = "running" THEN "cancelled" ELSE @]

(* subscribe_raw() *)
SubscribeFails(o) ==
  /\ op[o] = "subscribing"
  /\ Answer(o, "error")
  /\ DropHandle(o)

Subscribe(o) ==
  /\ op[o] = "subscribing"
  /\ query' = [query EXCEPT ![o] = AfterSubscribing(@)]
  /\ IF kind[o] \in Collecting
       THEN op' = [op EXCEPT ![o] = "collecting"] /\ UNCHANGED result
       ELSE /\ op' = [op EXCEPT ![o] = "streaming"]
            /\ result' = [result EXCEPT ![o] = "ok"]
  /\ UNCHANGED kind

(* collect() takes one batch after the other. *)
CollectBatch(o) ==
  /\ op[o] = "collecting" /\ query[o].unread > 0
  /\ query' = [query EXCEPT ![o].unread = @ - 1]
  /\ UNCHANGED <<op, kind, result>>

(* Faulty: the loop ends only with a query that came to its end. *)
DisconnectedFinished(q) == q.state = "finished" /\ q.unread = 0

(* A finished query disconnects once it is drained; any other end may cut   *)
(* it short.                                                                *)
Disconnected(q) ==
  q.state # "running" /\ (q.state = "finished" => q.unread = 0)

(* collect() has met Disconnected: what it has is the result. *)
CollectEnds(o) ==
  /\ op[o] = "collecting"
  /\ Disconnected(query[o])
  /\ Answer(o, "ok")
  /\ UNCHANGED query

(* The stream is closed, dropped or at its end, and its reader leaves:      *)
(* handle.cancel(), drop(handle).                                           *)
StreamCloses(o) ==
  /\ op[o] = "streaming"
  /\ op' = [op EXCEPT ![o] = "answered"]
  /\ DropHandle(o)
  /\ UNCHANGED <<kind, result>>

-----------------------------------------------------------------------------
(* The queries, which are not part of this repository.  A full ring loses   *)
(* its oldest batch; what a stream's reader takes is QueryStream's.  A core *)
(* that stops may end its queries; nothing here depends on it.              *)
Produce(o) ==
  /\ query[o].state = "running" /\ op[o] # "streaming"
  /\ query[o].unread < BufCap
  /\ query' = [query EXCEPT ![o].unread = @ + 1]
  /\ UNCHANGED <<op, kind, result>>

Finish(o) ==
  /\ query[o].state = "running"
  /\ query' = [query EXCEPT ![o].state = "finished"]
  /\ UNCHANGED <<op, kind, result>>

Kill(o) ==
  /\ query[o].state = "running" /\ engine # "up"
  /\ query' = [query EXCEPT ![o].state = "killed"]
  /\ UNCHANGED <<op, kind, result>>

-----------------------------------------------------------------------------
(* What the runtime does by itself once the operation is called. *)
Proceed(o) ==
  \/ EnsureOpen(o) \/ Refuse(o)
  \/ Control(o) \/ Catalog(o) \/ Metrics(o) \/ CancelQuery(o)
  \/ StatementFails(o) \/ StatementRuns(o) \/ StartQuery(o)
  \/ SubscribeFails(o) \/ Subscribe(o)
  \/ CollectEnds(o)
  \/ Settle(o)

QueryStep(o) == Produce(o) \/ Finish(o) \/ Kill(o)

OpStep(o) == CallOp(o) \/ Proceed(o) \/ CollectBatch(o) \/ StreamCloses(o) \/ QueryStep(o)

Next ==
  \/ (\E k \in Closers : CallClose(k) \/ CloseStep(k)) /\ UNCHANGED opVars
  \/ (\E o \in Ops : OpStep(o)) /\ UNCHANGED latchVars

Spec == Init /\ [][Next]_vars

(* The runtime polls every ready task, the core answers a statement and     *)
(* ends its shutdown, at its own deadline if need be (45 s: close()).  No   *)
(* query has to end, and no program has to call anything.                   *)
Fairness ==
  /\ \A k \in Closers : WF_vars(CloseStep(k) /\ UNCHANGED opVars)
  /\ \A o \in Ops :
       /\ WF_vars(Proceed(o) /\ UNCHANGED latchVars)
       /\ WF_vars(CollectBatch(o) /\ UNCHANGED latchVars)

FairSpec == Spec /\ Fairness

-----------------------------------------------------------------------------
(* Properties *)

(* Refinement: with racing and failing close() calls, the connection is      *)
(* open, closing or closed as Lifecycle says, and lets operations in only    *)
(* while it is open.                                                         *)
Owning == {"subscribing", "collecting", "streaming"}
Inside(o) == op[o] = "admitted" \/ op[o] \in Owning

LC == INSTANCE Lifecycle WITH
        phase <- IF engine = "down" THEN "closed" ELSE IF closed THEN "closing" ELSE "open",
        inside <- {o \in Ops : Inside(o)}
Contract == LC!Spec

(* Every query that runs has an operation that will end it, and no operation *)
(* cuts its own query short.  So a collected result is whole, but for what   *)
(* the ring overwrote, unless the query was killed by someone else: a        *)
(* cancelQuery() or the core's stop truncates it and it still resolves.      *)
QueriesAccounted ==
  \A o \in Ops :
    LET q == query[o] IN
    /\ q.state = "running" => op[o] \in Owning
    /\ op[o] \in Owning => q.state \in {"running", "finished", "killed"}
    /\ op[o] = "answered" /\ kind[o] \in Collecting /\ q.state # "none" /\ result[o] = "ok" =>
         \/ q.state = "finished" /\ q.unread = 0
         \/ q.state = "killed"

(* Every call settles: a close() whatever the others do, and an operation    *)
(* although the connection is closed under it, but for the one that collects *)
(* a query for as long as that query runs.                                   *)
CallsSettle ==
  /\ \A k \in Closers : (closer[k] = "called") ~> (closer[k] = "idle")
  /\ \A o \in Ops :
       /\ (op[o] = "called") ~> (op[o] \in {"collecting", "streaming", "idle"})
       /\ (op[o] = "collecting" /\ query[o].state # "running") ~> (op[o] = "idle")

(* Nothing reopens the connection or revives the engine once a shutdown has  *)
(* succeeded.                                                                *)
DownIsFinal == [][engine = "down" => engine' = "down" /\ closed' /\ closed]_vars

(* Using the connection after a successful shutdown fails with LAMINAR_101:  *)
(* ensure_open() lets no operation through.                                  *)
NoUseAfterClose ==
  [][\A o \in Ops : op[o] = "called" /\ op'[o] = "admitted" => engine # "down"]_vars

(* database.rs:456-461 says that concurrent callers wait out the first       *)
(* caller's attempt and that the connection is closed after a close() that   *)
(* succeeds.  A concurrent caller resolves at once, while the shutdown is    *)
(* under way and may still fail.                                             *)
OkMeansDown == \A k \in Closers : answer[k] = "ok" => engine = "down"
=============================================================================
