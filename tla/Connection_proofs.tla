--------------------------- MODULE Connection_proofs ---------------------------
(***************************************************************************)
(* Theorems about Connection, for every number of concurrent close() calls *)
(* and operations.                                                         *)
(***************************************************************************)
EXTENDS Connection, TLAPS

(* The latch is taken exactly while an attempt is under way or the engine is *)
(* down, and not both.  The middle part is what makes it inductive: an       *)
(* attempt that fails may clear the latch, since no other attempt can have   *)
(* brought the engine down meanwhile.                                        *)
LatchInv ==
  /\ LatchTypeOK
  /\ OneAttempt
  /\ \A k \in Closers : Attempting(k) => closed /\ engine # "down"
  /\ LatchConverges

LEMMA LatchStarts == LatchInit => LatchInv
  <1> SUFFICES ASSUME LatchInit PROVE LatchInv
    OBVIOUS
  <1>1. LatchTypeOK
    BY DEF LatchInit, LatchTypeOK
  <1>2. \A k \in Closers : ~Attempting(k)
    BY DEF LatchInit, Attempting
  <1> QED
    BY <1>1, <1>2 DEF LatchInit, LatchInv, OneAttempt, LatchConverges

(* A closing step moves one call and leaves the others where they are.       *)
LEMMA LatchStep ==
  ASSUME LatchInv, NEW k \in Closers, CallClose(k) \/ CloseStep(k)
  PROVE  LatchInv'
  <1> USE DEF LatchInv, LatchTypeOK
  <1> DEFINE Others == \A j \in Closers : j # k => closer'[j] = closer[j]
  <1>1. CASE CallClose(k) \/ SwapTaken(k)
    <2>1. LatchTypeOK'
      BY <1>1 DEF CallClose, SwapTaken, Resolve
    <2>2. /\ Others /\ ~Attempting(k) /\ ~Attempting(k)'
          /\ UNCHANGED <<closed, engine>>
      BY <1>1 DEF CallClose, SwapTaken, Resolve, Attempting
    <2>3. \A j \in Closers : Attempting(j)' <=> Attempting(j)
      BY <2>2 DEF Attempting
    <2> QED
      BY <2>1, <2>2, <2>3 DEF OneAttempt, LatchConverges
  <1>2. CASE SwapFirst(k)
    <2>1. LatchTypeOK'
      BY <1>2 DEF SwapFirst
    <2>2. \A j \in Closers : ~Attempting(j)
      BY <1>2 DEF SwapFirst, LatchFree
    <2>3. engine # "down"
      BY <1>2, <2>2 DEF SwapFirst, LatchFree, LatchConverges
    <2>4. Others /\ Attempting(k)' /\ closed' /\ engine' = engine
      BY <1>2 DEF SwapFirst, Attempting
    <2>5. \A j \in Closers : Attempting(j)' => j = k
      BY <2>2, <2>4 DEF Attempting
    <2> QED
      BY <2>1, <2>3, <2>4, <2>5 DEF OneAttempt, LatchConverges
  <1>3. CASE Stopping(k) \/ ShutdownFails(k)
    <2>1. LatchTypeOK'
      BY <1>3 DEF Stopping, ShutdownFails
    <2>2. /\ Others /\ Attempting(k) /\ Attempting(k)'
          /\ closed' = closed /\ engine' \in {engine, "stopping"}
      BY <1>3 DEF Stopping, ShutdownFails, Attempting
    <2>3. \A j \in Closers : Attempting(j)' <=> Attempting(j)
      BY <2>2 DEF Attempting
    <2> QED
      BY <2>1, <2>2, <2>3 DEF OneAttempt, LatchConverges
  <1>4. CASE ShutdownOk(k) \/ Unlatch(k)
    <2>1. LatchTypeOK'
      BY <1>4 DEF ShutdownOk, Unlatch, Stored, Resolve
    <2>2. Others /\ Attempting(k) /\ ~Attempting(k)'
      BY <1>4 DEF ShutdownOk, Unlatch, Resolve, Attempting
    <2>3. \A j \in Closers : ~Attempting(j)'
      BY <2>2 DEF Attempting, OneAttempt
    <2>4. closed /\ engine # "down"
      BY <2>2
    <2>5. closed' <=> engine' = "down"
      BY <1>4, <2>4 DEF ShutdownOk, Unlatch, Stored
    <2> QED
      BY <2>1, <2>3, <2>5 DEF OneAttempt, LatchConverges
  <1> QED
    BY <1>1, <1>2, <1>3, <1>4 DEF CloseStep

LEMMA LatchStutter == LatchInv /\ UNCHANGED latchVars => LatchInv'
  BY DEF LatchInv, LatchTypeOK, latchVars, OneAttempt, LatchConverges, Attempting

LEMMA LatchInvariance == Spec => []LatchInv
  <1>1. Init => LatchInv
    BY LatchStarts DEF Init
  <1>2. LatchInv /\ [Next]_vars => LatchInv'
    BY LatchStep, LatchStutter DEF Next, vars
  <1> QED
    BY <1>1, <1>2, PTL DEF Spec

(* However many callers race, at most one shutdown is under way.             *)
THEOREM AtMostOneAttempt == Spec => []OneAttempt
  BY LatchInvariance, PTL DEF LatchInv

(* With no attempt under way the connection is closed exactly when the       *)
(* engine is down, so a failed close() can be retried.                       *)
THEOREM LatchIsRight == Spec => []LatchConverges
  BY LatchInvariance, PTL DEF LatchInv

-----------------------------------------------------------------------------
(* An operation that has not reached the engine has no query, so the answer  *)
(* "ok" of one that collects tells of the query it has started itself.       *)
Before(o) == op[o] \in {"idle", "called", "admitted"}

Types ==
  /\ LatchTypeOK
  /\ op \in [Ops -> {"idle", "called", "admitted", "subscribing", "collecting",
                     "streaming", "answered"}]
  /\ kind \in [Ops -> Kinds \cup {"none"}]
  /\ result \in [Ops -> {"none", "ok", "101", "200", "400", "error"}]
  /\ query \in [Ops ->
       [state : {"none", "running", "finished", "killed", "cancelled"}, unread : 0..BufCap]]

OpInv ==
  /\ Types
  /\ \A o \in Ops : AnswerFits(op[o], kind[o], result[o])
  /\ \A o \in Ops : Before(o) => query[o].state = "none"
  /\ \A o \in Ops : op[o] = "streaming" => kind[o] \notin Collecting
  /\ QueriesAccounted

(* What OpInv says of one operation. *)
Accounted(at, k, r, q) ==
  /\ AnswerFits(at, k, r)
  /\ at \in {"idle", "called", "admitted"} => q.state = "none"
  /\ at = "streaming" => k \notin Collecting
  /\ q.state = "running" => at \in Owning
  /\ at \in Owning => q.state \in {"running", "finished", "killed"}
  /\ at = "answered" /\ k \in Collecting /\ q.state # "none" /\ r = "ok" =>
       (q.state = "finished" /\ q.unread = 0) \/ q.state = "killed"

LEMMA OpInvByOperation ==
  OpInv <=> Types /\ \A o \in Ops : Accounted(op[o], kind[o], result[o], query[o])
  BY DEF OpInv, Before, QueriesAccounted, Accounted

(* A step that changes one operation and its query keeps the invariant if it *)
(* keeps what the invariant says of that operation.                          *)
LEMMA OneOperation ==
  ASSUME OpInv, Types', NEW o \in Ops,
         \A p \in Ops : p # o =>
           op'[p] = op[p] /\ kind'[p] = kind[p] /\ result'[p] = result[p] /\ query'[p] = query[p],
         Accounted(op'[o], kind'[o], result'[o], query'[o])
  PROVE  OpInv'
  <1>1. \A p \in Ops : Accounted(op'[p], kind'[p], result'[p], query'[p])
    BY OpInvByOperation
  <1> QED
    BY <1>1 DEF OpInv, Before, QueriesAccounted, Accounted

LEMMA OpStepKeeps ==
  ASSUME OpInv, UNCHANGED latchVars, NEW o \in Ops, OpStep(o)
  PROVE  OpInv'
  <1> DEFINE Rest == \A p \in Ops : p # o =>
        op'[p] = op[p] /\ kind'[p] = kind[p] /\ result'[p] = result[p] /\ query'[p] = query[p]
  <1> DEFINE Now == Accounted(op'[o], kind'[o], result'[o], query'[o])
  <1>t. Types
    BY DEF OpInv
  <1>l. LatchTypeOK'
    BY <1>t DEF Types, LatchTypeOK, latchVars
  <1>a. Accounted(op[o], kind[o], result[o], query[o])
    BY OpInvByOperation
  <1> USE <1>t, <1>l, <1>a, BufCapAssumption DEF Types, Accounted, Owning
  <1>1. CASE CallOp(o)
    <2>0. PICK k \in MayCall[o] : kind' = [kind EXCEPT ![o] = k]
      BY <1>1 DEF CallOp
    <2>k. k \in Kinds
      BY <2>0, MayCallAssumption
    <2>1. Types'
      BY <1>1, <2>0, <2>k DEF CallOp
    <2>2. Rest /\ Now
      BY <1>1 DEF CallOp, AnswerFits
    <2> QED
      BY <2>1, <2>2, OneOperation
  <1>2. CASE EnsureOpen(o) \/ Refuse(o)
    <2>1. Types'
      BY <1>2 DEF EnsureOpen, Refuse, Answer
    <2>2. Rest /\ Now
      BY <1>2 DEF EnsureOpen, Refuse, Answer, AnswerFits
    <2> QED
      BY <2>1, <2>2, OneOperation
  <1>3. CASE Control(o) \/ Catalog(o) \/ Metrics(o) \/ StatementFails(o) \/ StatementRuns(o)
    <2>1. PICK r \in {"ok", "200", "400", "error"} :
            /\ op[o] = "admitted" /\ Answer(o, r) /\ query' = query
            /\ AnswerFits("answered", kind[o], r)
      BY <1>3 DEF AnswerFits, Sql, Collecting, Control, Catalog, Metrics, StatementFails, StatementRuns, Admitted
    <2>2. Types'
      BY <2>1 DEF Answer
    <2>3. Rest /\ Now
      BY <2>1 DEF Answer, AnswerFits
    <2> QED
      BY <2>2, <2>3, OneOperation
  <1>4. CASE CancelQuery(o)
    <2>1. CASE query' = query
      <3>1. PICK r \in {"ok", "error"} : op[o] = "admitted" /\ Answer(o, r)
        BY <1>4 DEF CancelQuery, Admitted
      <3>2. Types'
        BY <2>1, <3>1 DEF Answer
      <3>3. Rest /\ Now
        BY <2>1, <3>1 DEF Answer, AnswerFits
      <3> QED
        BY <3>2, <3>3, OneOperation
    <2>2. CASE query' # query
      <3>1. PICK p \in Ops :
              /\ query[p].state = "running"
              /\ query' = [query EXCEPT ![p].state = "killed"]
              /\ op[o] = "admitted" /\ Answer(o, "ok")
        BY <1>4, <2>2 DEF CancelQuery, Admitted
      <3>2. Types'
        BY <3>1 DEF Answer
      <3>3. p # o
        BY <3>1
      <3>4. ASSUME NEW r \in Ops PROVE Accounted(op'[r], kind'[r], result'[r], query'[r])
        <4>1. Accounted(op[r], kind[r], result[r], query[r])
          BY OpInvByOperation
        <4> QED
          BY <3>1, <3>3, <4>1 DEF Answer, AnswerFits
      <3> QED
        BY <3>2, <3>4 DEF OpInv, Before, QueriesAccounted
    <2> QED
      BY <2>1, <2>2
  <1>5. CASE StartQuery(o)
    <2>1. Types'
      BY <1>5 DEF StartQuery, Query
    <2>2. Rest
      BY <1>5 DEF StartQuery, Query
    <2>3. AnswerFits("subscribing", kind[o], result[o])
      BY <1>5 DEF StartQuery, Admitted, AnswerFits
    <2>4. /\ op'[o] = "subscribing" /\ kind'[o] = kind[o] /\ result'[o] = result[o]
          /\ query'[o].state = "running"
      BY <1>5 DEF StartQuery, Query
    <2>5. Now
      BY <2>3, <2>4
    <2> QED
      BY <2>1, <2>2, <2>5, OneOperation
  <1>6. CASE SubscribeFails(o)
    <2>1. Types'
      BY <1>6 DEF SubscribeFails, Answer, DropHandle
    <2>2. Rest /\ Now
      BY <1>6 DEF SubscribeFails, Answer, DropHandle, AnswerFits
    <2> QED
      BY <2>1, <2>2, OneOperation
  <1>7. CASE Subscribe(o)
    <2>1. Types'
      BY <1>7 DEF Subscribe, AfterSubscribing
    <2>2. Rest /\ Now
      BY <1>7 DEF Subscribe, AfterSubscribing, AnswerFits
    <2> QED
      BY <2>1, <2>2, OneOperation
  <1>8. CASE CollectBatch(o) \/ Produce(o)
    <2>1. Types'
      BY <1>8 DEF CollectBatch, Produce
    <2>2. Rest /\ Now
      BY <1>8 DEF CollectBatch, Produce, AnswerFits
    <2> QED
      BY <2>1, <2>2, OneOperation
  <1>9. CASE CollectEnds(o)
    <2>1. Types'
      BY <1>9 DEF CollectEnds, Answer
    <2>2. Rest /\ Now
      BY <1>9 DEF CollectEnds, Answer, Disconnected, AnswerFits
    <2> QED
      BY <2>1, <2>2, OneOperation
  <1>10. CASE StreamCloses(o)
    <2>1. Types'
      BY <1>10 DEF StreamCloses, DropHandle
    <2>2. Rest /\ Now
      BY <1>10 DEF StreamCloses, DropHandle, AnswerFits
    <2> QED
      BY <2>1, <2>2, OneOperation
  <1>11. CASE Finish(o) \/ Kill(o)
    <2>1. Types'
      BY <1>11 DEF Finish, Kill
    <2>2. Rest /\ Now
      BY <1>11 DEF Finish, Kill, AnswerFits
    <2> QED
      BY <2>1, <2>2, OneOperation
  <1>12. CASE Settle(o)
    <2>1. Types'
      BY <1>12 DEF Settle, NoQuery, Query
    <2>2. Rest /\ Now
      BY <1>12 DEF Settle, NoQuery, Query, AnswerFits
    <2> QED
      BY <2>1, <2>2, OneOperation
  <1> QED
    BY <1>1, <1>2, <1>3, <1>4, <1>5, <1>6, <1>7, <1>8, <1>9, <1>10, <1>11, <1>12
       DEF OpStep, Proceed, QueryStep

LEMMA OpStarts == Init => OpInv
  <1> SUFFICES ASSUME Init PROVE OpInv
    OBVIOUS
  <1>1. LatchTypeOK
    BY LatchStarts DEF Init, LatchInv
  <1>2. Types
    BY <1>1, BufCapAssumption DEF Init, Types, NoQuery, Query
  <1> QED
    BY <1>2 DEF Init, OpInv, Before, QueriesAccounted, Owning, NoQuery, Query, AnswerFits

LEMMA OpStutter ==
  ASSUME OpInv, LatchTypeOK', UNCHANGED opVars
  PROVE  OpInv'
  BY DEF OpInv, Types, opVars, Before, QueriesAccounted

LEMMA OpInvariance == Spec => []OpInv
  <1>1. Init => OpInv
    BY OpStarts
  <1>2. OpInv /\ LatchInv /\ LatchInv' /\ [Next]_vars => OpInv'
    <2> SUFFICES ASSUME OpInv, LatchInv', [Next]_vars PROVE OpInv'
      OBVIOUS
    <2>1. LatchTypeOK'
      BY DEF LatchInv
    <2>2. CASE UNCHANGED opVars
      BY <2>1, <2>2, OpStutter
    <2>3. CASE (\E o \in Ops : OpStep(o)) /\ UNCHANGED latchVars
      BY <2>3, OpStepKeeps
    <2> QED
      BY <2>2, <2>3 DEF Next, vars
  <1> QED
    BY <1>1, <1>2, LatchInvariance, PTL DEF Spec

(* Every variable keeps its type.                                            *)
THEOREM ConnectionTypes == Spec => []TypeOK
  <1>1. OpInv => TypeOK
    BY DEF OpInv, Types, TypeOK
  <1> QED
    BY <1>1, OpInvariance, PTL

(* Every running query has an operation that will end it, and a collected    *)
(* result is whole unless someone else killed its query.                     *)
THEOREM QueriesAreAccounted == Spec => []QueriesAccounted
  BY OpInvariance, PTL DEF OpInv

-----------------------------------------------------------------------------
(* The latch and the engine go through the phases of Lifecycle.              *)
LEMMA PhaseStep ==
  ASSUME LatchInv, LatchInv', UNCHANGED opVars,
         \E k \in Closers : CallClose(k) \/ CloseStep(k)
  PROVE  LC!Next \/ UNCHANGED LC!vars
  <1> DEFINE Phase == IF engine = "down" THEN "closed" ELSE IF closed THEN "closing" ELSE "open"
  <1>i. UNCHANGED {o \in Ops : Inside(o)}
    BY DEF opVars, Inside
  <1>k. PICK k \in Closers : CallClose(k) \/ CloseStep(k)
    OBVIOUS
  <1> USE DEF LatchInv, LatchTypeOK
  <1>1. CASE CallClose(k) \/ SwapTaken(k) \/ ShutdownFails(k)
    <2>1. Phase' = Phase
      BY <1>1 DEF CallClose, SwapTaken, ShutdownFails
    <2> QED
      BY <1>i, <2>1 DEF LC!vars
  <1>2. CASE SwapFirst(k)
    <2>1. ~closed /\ engine # "down" /\ closed' /\ engine' = engine
      BY <1>2 DEF SwapFirst, LatchFree, LatchConverges, Attempting
    <2>2. Phase = "open" /\ Phase' = "closing"
      BY <2>1
    <2> QED
      BY <1>i, <2>2 DEF LC!Next, LC!Begin
  <1>3. CASE Stopping(k)
    <2>1. Phase' = Phase
      BY <1>3 DEF Stopping
    <2> QED
      BY <1>i, <2>1 DEF LC!vars
  <1>4. CASE ShutdownOk(k)
    <2>1. closed /\ engine # "down" /\ engine' = "down"
      BY <1>4 DEF ShutdownOk, Attempting
    <2>2. Phase = "closing" /\ Phase' = "closed"
      BY <2>1
    <2> QED
      BY <1>i, <2>2 DEF LC!Next, LC!Succeed
  <1>5. CASE Unlatch(k)
    <2>1. closed /\ engine # "down" /\ ~closed' /\ engine' = engine
      BY <1>5 DEF Unlatch, Attempting, Stored
    <2>2. Phase = "closing" /\ Phase' = "open"
      BY <2>1
    <2> QED
      BY <1>i, <2>2 DEF LC!Next, LC!Fail
  <1> QED
    BY <1>k, <1>1, <1>2, <1>3, <1>4, <1>5 DEF CloseStep

(* A step of an operation lets it in, lets it out, or does neither.          *)
LEMMA InsideStep ==
  ASSUME TypeOK, LatchInv, UNCHANGED latchVars, NEW o \in Ops, OpStep(o)
  PROVE  LC!Next \/ UNCHANGED LC!vars
  <1> DEFINE Phase == IF engine = "down" THEN "closed" ELSE IF closed THEN "closing" ELSE "open"
  <1> DEFINE In == {p \in Ops : Inside(p)}
  <1>p. UNCHANGED Phase
    BY DEF latchVars
  <1>o. op \in [Ops -> {"idle", "called", "admitted", "subscribing", "collecting",
                        "streaming", "answered"}]
    BY DEF TypeOK
  <1>1. CASE EnsureOpen(o)
    <2>1. Phase = "open"
      BY <1>1 DEF EnsureOpen, IsClosed, LatchInv, LatchConverges
    <2>2. op' = [op EXCEPT ![o] = "admitted"]
      BY <1>1 DEF EnsureOpen
    <2>3. In' = In \cup {o}
      BY <1>o, <2>2 DEF Inside, Owning
    <2> QED
      BY <1>p, <2>1, <2>3 DEF LC!Next, LC!Enter
  <1>2. CASE ~EnsureOpen(o)
    <2>1. /\ \A p \in Ops : p # o => op'[p] = op[p]
          /\ Inside(o)' => Inside(o)
      <3>1. CASE CallOp(o) \/ Settle(o)
        BY <1>o, <3>1 DEF CallOp, Settle, Inside, Owning
      <3>2. CASE op' = op
        BY <3>2 DEF Inside
      <3>3. CASE \E r \in {"ok", "101", "200", "400", "error"} : Answer(o, r)
        BY <1>o, <3>3 DEF Answer, Inside, Owning
      <3>4. CASE StartQuery(o) \/ Subscribe(o) \/ StreamCloses(o)
        BY <1>o, <3>4 DEF StartQuery, Subscribe, StreamCloses, Admitted, Inside, Owning
      <3>5. CASE Refuse(o) \/ Control(o) \/ Catalog(o) \/ Metrics(o) \/ CancelQuery(o)
                 \/ StatementFails(o) \/ StatementRuns(o) \/ SubscribeFails(o) \/ CollectEnds(o)
        BY <3>3, <3>5 DEF Refuse, Control, Catalog, Metrics, CancelQuery, StatementFails,
                          StatementRuns, SubscribeFails, CollectEnds
      <3>6. CASE CollectBatch(o) \/ QueryStep(o)
        BY <3>2, <3>6 DEF CollectBatch, QueryStep, Produce, Finish, Kill
      <3> QED
        BY <1>2, <3>1, <3>4, <3>5, <3>6 DEF OpStep, Proceed
    <2>2. CASE Inside(o)' <=> Inside(o)
      <3>1. \A p \in Ops : Inside(p)' <=> Inside(p)
        BY <2>1, <2>2 DEF Inside
      <3> QED
        BY <1>p, <3>1 DEF LC!vars
    <2>3. CASE Inside(o) /\ ~Inside(o)'
      <3>1. In' = In \ {o}
        BY <2>1, <2>3 DEF Inside
      <3> QED
        BY <1>p, <3>1 DEF LC!Next, LC!Leave
    <2> QED
      BY <2>1, <2>2, <2>3
  <1> QED
    BY <1>1, <1>2

(* Connection implements Lifecycle: whatever the calls do, the connection is *)
(* open, closing or closed as close() documents, and lets an operation in    *)
(* only while it is open.                                                    *)
THEOREM ConnectionImplementsLifecycle == Spec => Contract
  <1>1. Init => LC!Init
    BY DEF Init, LatchInit, LC!Init, Inside, Owning
  <1>2. TypeOK /\ LatchInv /\ LatchInv' /\ [Next]_vars => [LC!Next]_(LC!vars)
    <2> SUFFICES ASSUME TypeOK, LatchInv, LatchInv', [Next]_vars
                 PROVE  LC!Next \/ UNCHANGED LC!vars
      OBVIOUS
    <2>1. CASE UNCHANGED vars
      BY <2>1 DEF vars, latchVars, opVars, LC!vars, Inside
    <2>2. CASE Next
      BY <2>2, PhaseStep, InsideStep DEF Next
    <2> QED
      BY <2>1, <2>2
  <1> QED
    BY <1>1, <1>2, LatchInvariance, ConnectionTypes, PTL DEF Spec, Contract, LC!Spec

-----------------------------------------------------------------------------
(* A shutdown that succeeded is for good: no call reopens the connection.    *)
THEOREM DownForGood == Spec => DownIsFinal
  <1>1. LatchInv /\ [Next]_vars => [engine = "down" => engine' = "down" /\ closed' /\ closed]_vars
    <2> SUFFICES ASSUME LatchInv, [Next]_vars, engine = "down"
                 PROVE  engine' = "down" /\ closed' /\ closed
      OBVIOUS
    <2>1. closed /\ \A k \in Closers : ~Attempting(k)
      BY DEF LatchInv, LatchConverges
    <2>2. CASE UNCHANGED latchVars
      BY <2>1, <2>2 DEF latchVars
    <2>3. CASE \E k \in Closers : CallClose(k) \/ CloseStep(k)
      BY <2>1, <2>3 DEF CallClose, CloseStep, SwapFirst, LatchFree, SwapTaken, Stopping,
                        ShutdownOk, ShutdownFails, Unlatch, Attempting
    <2> QED
      BY <2>2, <2>3 DEF Next, vars
  <1> QED
    BY <1>1, LatchInvariance, PTL DEF Spec, DownIsFinal

(* After it, no operation is let through.                                    *)
THEOREM ClosedIsUnusable == Spec => NoUseAfterClose
  <1> DEFINE A == \A o \in Ops : op[o] = "called" /\ op'[o] = "admitted" => engine # "down"
  <1>1. TypeOK /\ LatchInv /\ [Next]_vars => [A]_vars
    <2> SUFFICES ASSUME TypeOK, LatchInv, Next,
                        NEW o \in Ops, op[o] = "called", op'[o] = "admitted"
                 PROVE  engine # "down"
      BY DEF vars
    <2>0. op \in [Ops -> {"idle", "called", "admitted", "subscribing", "collecting",
                          "streaming", "answered"}]
      BY DEF TypeOK
    <2>1. PICK p \in Ops : OpStep(p)
      BY DEF Next, opVars
    <2>2. CASE EnsureOpen(p)
      BY <2>2 DEF EnsureOpen, IsClosed, LatchInv, LatchConverges, Attempting
    <2>3. CASE ~EnsureOpen(p)
      <3>1. op' = op \/ \E at \in {"idle", "called", "subscribing", "collecting", "streaming",
                                  "answered"} : op' = [op EXCEPT ![p] = at]
        BY <2>1, <2>3
           DEF OpStep, Proceed, QueryStep, CallOp, Refuse, Control, Catalog, Metrics, CancelQuery,
               StatementFails, StatementRuns, StartQuery, SubscribeFails, Subscribe, CollectEnds,
               Settle, CollectBatch, StreamCloses, Produce, Finish, Kill, Answer
      <3> QED
        BY <2>0, <3>1
    <2> QED
      BY <2>2, <2>3
  <1> QED
    BY <1>1, LatchInvariance, ConnectionTypes, PTL DEF Spec, NoUseAfterClose
=============================================================================
