# LaminarDB for Node.js: TLA+ models and proofs

This directory models the Node.js binding of LaminarDB: the Rust native module
in `src/*.rs` (napi-rs on a multi-threaded tokio runtime) and the contract that
the TypeScript facade in `ts/` builds on it. The database engine itself
(`laminar-core`, `laminar-db`) is a dependency and not in this repository; it
appears in the models only as what the binding may observe of it.

Contents: [system](#1-the-system), [modules](#2-the-modules),
[runs](#3-the-runs), [fairness](#4-fairness), [proofs](#5-the-proofs),
[disagreements](#6-where-code-and-documents-disagree),
[assumptions and limits](#7-what-is-assumed-and-what-is-not-modelled),
[plan](#8-plan).

To check everything: `tlc -config <Run>.cfg <Module>.tla` for each row of
section 3 and `tlapm <Module>_proofs.tla` for each proof module.

## 1. The system

The JavaScript thread calls native classes. Synchronous methods run on that
thread from beginning to end; `async` methods become tasks of the tokio
runtime and settle a promise later, on the JavaScript thread. Long-lived
streams have a *reader task* of their own, which owns the engine's handle and
feeds a bounded channel. Garbage collection runs `Drop` of a native object
once neither JavaScript nor a pending call refers to it.

| Component | State | Operations | Interacts with |
| --- | --- | --- | --- |
| Portal reader (`SubscriptionCore::open`, `spawn_portal_reader`) | the engine's portal, a bounded mpsc channel, a `CancellationToken` | pull a frame, send it, stop at a terminal frame or the token, close the portal | engine; both kinds of subscription |
| Pull subscription (`Subscription`) | the receiver behind a mutex, `active` | `subscribe`, `nextFrame`, `isActive`, `cancel`, `Drop` | reader by channel and token |
| Push subscription (`PushSubscription`, `push_loop`) | a token and an `active` flag of its own, the task's `JoinHandle` behind a mutex | `subscribeWith`, delivery of `onData`/`onError`/`onClose`, `close`, `Drop` | reader by channel and token; JavaScript by callbacks and the promises they return |
| Streaming query (`QueryStream`) | the query handle (in its reader), a bounded channel, a token | `nextBatch`, `cancel`, `Drop`, and `Connection.cancelQuery` | engine's broadcast ring |
| Connection lifecycle (`Connection`) | the `closed` latch, the engine | `close`, `isClosed`, `ensure_open` in front of the other operations: `execute`, `query`, `streamQuery`, `cancelQuery`, `start`, `checkpoint`, catalog and metrics reads | every other component |
| Query results (`QueryResult`) | a query handle while it is collected, then immutable batches | `collect`, `batch`, accessors | engine's broadcast ring; connection |
| Row conversion (`conversion.rs`) | none | `rows_to_batch`, `batch_to_rows` | ingestion; query results; frames |
| Ingestion (`insert`, `insertArrow`, `Writer`) | the writer's `closed` flag, the source's buffer in the engine | `insert`, `insertArrow`, `writer`, `writeRows`, `writeArrow`, `watermark`, `close` | engine, connection, row conversion, IPC |
| Arrow IPC (`arrow_ipc.rs`) | none | bytes to batches and back | ingestion, results |
| Configuration (`config.rs`) | none | options to engine configuration | `open` |
| Errors (`error.rs`, `ts/errors.ts`) | none | code to message prefix, prefix to class | everything that throws |
| Facade (`ts/index.ts`) | wrappers | `Date`s, async iterators, a promise for every `onData` | all native classes |
| Telemetry (`telemetry.rs`) | none | counters out of the engine, ids back in | connection, engine |
| Module entry (`lib.rs`) | none | `version` | |

What is hard in each, and what makes it correct:

- **Portal reader.** It selects between portal and token without bias, and it
  does *not* look at the token while it waits for room in the channel. It must
  lose, repeat and reorder nothing, put at most one terminal message in the
  channel, as the last one, and close the portal however it ends.
- **Pull subscription.** Concurrent `nextFrame()` calls are separate tasks that
  reach the mutex in any order. The answers must be the frames in order, then
  at most one rejection, then `null` for ever. No pending call may hang, and a
  subscription that is collected must not pin its portal.
- **Push subscription.** One handler at a time, its promise awaited before the
  next frame; `onError` at most once, `onClose` exactly once and last, against
  lag, a failed open, rejected handlers, handlers that throw, concurrent
  `close()` calls, and `close()` from within a handler.
- **Streaming query.** As the pull subscription, but the engine broadcasts
  through a ring that overwrites what a slow reader has not taken, and the
  query has to be cancelled when the stream goes.
- **Connection.** Several `close()` calls race for the latch while the first
  one's shutdown may fail and release it. The latch has to agree with the
  engine whenever no attempt is under way. An operation looks at the latch
  once and then uses an engine that may be stopping; a query it has started
  must be collected, streamed or cancelled, and its promise must settle.
- **Row conversion.** Number edges: 2^53, NaN, the ends of each width, instants
  before 1970, scaling that overflows. A value is stored as it is or refused.
- **Ingestion.** A call pushes several batches, and the engine may drain, fill
  up or stop between two of them; the caller learns one number or one error.
- **The rest of the seam.** Unsigned 64-bit counters, ids and epochs cross as
  `i64` and become `f64`, and come back; `open()` has two copies of one rule;
  an error's code travels in its message and is recovered in three ways.

## 2. The modules

| Module | Models | Notes |
| --- | --- | --- |
| `PortalReader` | `SubscriptionCore::open`, `spawn_portal_reader`, `FrameMsg` | engine actions `Append1`, `EngineStops` and the operator `Offers` are external; no `Next` of its own |
| `FrameStream` | what the doc comment of `Subscription` promises | abstract specification |
| `PullSubscription` | `Subscription` and `Connection.subscribe` | extends `PortalReader` |
| `CallbackContract` | what the doc comment of `subscribe_with` promises | abstract specification |
| `PushSubscription` | `PushSubscription`, `spawn_push_subscription`, `push_loop`, `emit_error` | extends `PortalReader` |
| `BatchStream` | what the doc comment of `QueryStream` promises | abstract specification |
| `QueryStream` | `QueryStream`, `from_handle`'s reader task, `cancelQuery` | the query and its ring are external |
| `Latch` | `Connection.close`: swap, shutdown, store | the core's shutdown is external |
| `Lifecycle` | what the doc comment of `close` promises | abstract specification |
| `Connection`, `MCConnection` | `is_closed`, `ensure_open`, the asynchronous operations, `QueryResult::collect` | extends `Latch`, conjoining its steps with those of the operations; the queries are external |
| `Float` | `as f64`, `as f32`, `f64::trunc`, `*` and `/` | exact rounding to *p* bits, ties to even, over a bounded range of exponents |
| `Conversion`, `MCConversion` | `conversion.rs`, one cell at a time | widths, units and precision are constants |
| `Ingestion`, `MCIngestion` | `ingestion.rs`, its callers in `database.rs`, and of `arrow_ipc.rs` that a stream parses as a whole or not at all | |
| `Seam`, `MCSeam` | what else crosses: `saturating`, ids and epochs, `OpenConfig::into_core` and `open`, `error.rs` with `ts/errors.ts` and `emit_error` | extends `Conversion`; one crossing at a time, a cell's or another's |
| `*_proofs` | theorems about the module of that name | `Seam_proofs` includes `Conversion`'s |
| `Numbers_proofs` | lemmas about `Float` and about recursive functions | no theorem of a specification; used by `Seam_proofs` and `Ingestion_proofs` |

A step of a model is the code between two points where something else can
run: an `.await`, a lock, a value handed to another thread. So `nextFrame()` is
four steps (called, locked, received, settled) and a fifth for the promise, and
`close()` of a push subscription is five (called, token fired, `JoinHandle`
taken, joined, resolved). A synchronous method is one step, except that
`insertArrow()` and `writeArrow()` are one step per batch, because other
threads see each push. Data and barrier frames take the same path through the
binding, so both are a frame with its sequence number; payloads, names and
messages are left out.

Correspondence of state: `token`, `closeToken`, `active`, `closed`, `writer`
are the fields of that name (`joinHandle` is `PushSubscription.done`); `chan`
is the mpsc channel, `hand` the value in the reader's `send().await`, `reader`,
`task`, `call`, `closer` and `op` are program counters, and `Connection.query`
is the handle that an operation owns. `delivered`, `errors`,
`closes`, `over`, `answer`, `answers` record what JavaScript has been told.
`cursor`, `appended`, `engine`, `query`, `produced`, `lost`, `buffer` and
`consumed` are the engine's.

The abstract specifications are refined under explicit mappings (`INSTANCE ...
WITH`): `Lifecycle.phase` is a function of the latch and the engine, and
`inside` the set of operations past `ensure_open`; the streams map what
JavaScript has been told.

Definitions whose comment begins with *Faulty:* are not part of any
specification. Each is a copy of one action or operator with one plausible
mistake in it; put in its place, it makes the property it is meant for fail,
which shows that the property says something about that piece of code.

## 3. The runs

| Run | Module | Question | Bounds |
| --- | --- | --- | --- |
| `Pull` | `PullSubscription` | does the pull subscription implement `FrameStream`; is a `null` really the end; do pending calls wake; is the portal released | 2 calls, channel 2, lag beyond 2, 4 frames |
| `Push` | `PushSubscription` | do the callbacks obey `CallbackContract`; one handler at a time; nothing after `close()`; does `close()` resolve, is the portal released | 2 closers, channel 2, lag beyond 2, 4 frames |
| `PushReentrantClose` | `PushSubscription` | does every `close()` resolve (expected violation) | 2 closers, channel 1, 2 frames |
| `Query` | `QueryStream` | does the stream implement `BatchStream`; is every batch delivered, queued, in hand or lost; is a `null` complete; is the query cancelled | 2 calls, channel 2, ring 2, 5 batches |
| `QueryCancel` | `QueryStream` | does `cancel()` cancel the query (expected violation) | 1 call, channel 1, ring 1, 3 batches |
| `Latch` | `MCConnection` | one shutdown at a time; do latch and engine agree; does the connection implement `Lifecycle`; is every query owned and every result whole; does every call settle | 2 closers, 2 operations, ring 2 |
| `LatchOk` | `MCConnection` | does a `close()` that resolves mean closed (expected violation) | 2 closers, 2 operations, ring 1 |
| `Conversion` | `MCSeam` | is every value stored faithfully, refused only for cause, and read back; do unsigned numbers, options and error codes survive the crossing | all types; 5-bit floats |
| `ConversionClamp` | `MCConversion` | is a large `UInt64` refused (expected violation) | as above |
| `ConversionNanos` | `MCConversion` | do whole milliseconds come back whole (expected violation) | as above |
| `SeamErrors` | `MCSeam` | is every failure that is thrown a typed error (expected violation) | as above |
| `Ingestion` | `MCIngestion` | order, completeness and schema of the log, what an answer says about it, closed writers | buffer of 2 rows, 3 calls, streams of 0, 1 and 3 batches |

Why the bounds are enough.

- *Streams.* The channel, 128 entries in the code, has to be full, partly
  filled and empty. With capacity 1 or 2 and one or two entries more than
  channel and hand can hold, the reader blocks, the portal lags while it
  blocks, and a terminal message waits behind frames. Two calls show every
  race that the mutex decides; the proofs lift calls, capacity and the number
  of frames to any value.
- *Latch.* Two closers, each of which may call again, are one that holds the
  latch and one that finds it taken or comes after it was released. Two
  operations are enough for one to start, collect or stream a query while the
  other cancels it, collects its own or reads the engine; which operation each
  may be (`MayCall`) is split between them, so that every pair that can touch
  the same query occurs. A ring of two is empty, partly filled and full. The
  proofs lift closers, operations and ring to any number.
- *Conversion.* The real widths are out of reach, so they are scaled with their
  order kept: 5-bit floats (2^53 becomes 32, so `MAX_SAFE_INTEGER` is 31) and
  4-bit ones for `Float32`, with exponents from -10 to 10 (every number tried
  has one), integers that end at 3, 7, 15 and 255, and 4 ms to the day. As in the code
  an `i32` fits a float and an `i64` does not; the extreme days of a `Date32`
  exceed the float's exact range when they are milliseconds; and nanoseconds
  overflow `i64` well within the exact range of the milliseconds. The units'
  ratios are not powers of two (but for the day's), so that division really
  rounds. All bigints up to just beyond `i64`, all whole floats up to about
  twice that, and halves are tried in each of the 20 types, nullable or not,
  and so is every slot the engine could have made itself, a null of each type
  and a value of an unsupported one among them. Beside the cells,
  `Seam` tries unsigned numbers around every boundary (the float's exact range,
  `i64::MAX`, `u64::MAX`), every number of the cells as an id, an index and an
  option, all ways to name a directory twice, and codes at both ends of each
  hundred, each of them on every way out but for the native batches, which
  raise 900 alone.
- *Types.* A type invariant also says what the types do not: that a channel
  never holds more than its capacity, that an operation's answer is one that
  its kind can have at that point (`AnswerFits`), and that every number that
  reaches the core or a column has the width it is declared with.
- *Ingestion.* A stream of three batches against a buffer of two rows is
  refused after none, one or two pushes, or passes if the engine drains
  meanwhile; its batches have 1, 2 and 1 rows, so that a count of batches is no
  count of rows. Three calls order two of them around a third. The proofs lift
  buffer, streams and calls to any.

`CHECK_DEADLOCK FALSE` is set where the program may come to rest: a finished
subscription that was collected, a converted cell, a bound on the calls.
`Latch` and `LatchOk`, where something can always be called, check deadlock.

## 4. Fairness

Safety does not depend on it. The liveness properties use `FairSpec`:

- Every ready task is polled (weak fairness on the reader's and the task's
  steps). tokio's multi-threaded scheduler justifies that; no task of the
  binding blocks a worker thread without bound.
- `select!` without `biased;` starts with a random branch, so a token that has
  fired is seen although frames keep coming: strong fairness on `SeeCancel`,
  `SeeClose` and `PullEnd`.
- `tokio::sync::Mutex` is FIFO, so a waiting call gets the lock although other
  calls keep coming: strong fairness on `Lock`.
- Nothing is assumed of JavaScript, with two exceptions. `Push` assumes that
  an `onData` promise settles unless it waits for a `close()` itself: without
  it nothing can be said of a subscription that waits for the application on
  purpose. `KeepsReading`, a consumer that calls `nextFrame()` or
  `nextBatch()` again and again, is no part of any specification; it is the
  antecedent inside the properties that need it, and so it is visible there.
- Nothing is assumed of the engine's streams and queries: they need not append,
  stop or end. Where a call waits for one that says nothing, no claim is made.
  `Connection` does assume that the core answers a statement, a read or a
  cancel, and that a shutdown ends, at the core's own deadline of 45 s if need
  be (the doc comment of `close`). Nobody has to call anything: there is no
  fairness on `CallClose`, `CallOp`, `StreamCloses` or the queries' steps.

## 5. The proofs

For every number of calls, every channel capacity, every retention and every
bound on frames:

| Theorem (`PullSubscription_proofs`) | States |
| --- | --- |
| `TypeCorrect` | `Spec => []TypeOK` |
| `StreamStaysIntact` | `Spec => []StreamIntact` |
| `InactiveWhenOver` | `Spec => []InactiveOnceOver` |
| `NullIsComplete` | `Spec => []NullMeansComplete` |
| `ImplementsFrameStream` | `Spec => FS!Spec`, the refinement |

The inductive invariant is `TypeOK /\ StreamIntact`. The contract is not
inductive: that the next answer is frame `Len(delivered) + 1` depends on what
a call holds, on the channel and on the reader's hand. So `StreamIntact` says
of every place a message can be what it holds: `ChanOK` that the *i*-th
message of the channel is frame *n + i* or a terminal message at the end,
`CursorOK` that the portal's cursor is exactly what was delivered, taken,
queued and in hand, `LastOK` that the reader has left its loop only behind a
terminal message, `LockOK` that one call at a time is past the mutex, `HandOK`
what it holds, and `CloseOK` that a `Closed` message in any of these places
means a fired token or a drained, ended object. The part about the reader and
the channel is stated over the number *n* of messages taken, whoever took
them; `PortalReader_proofs` proves once that each step of the reader, and
taking a message, keeps it, and that a `Closed` message on its way still says
so of a complete stream (`Complete`, `ClosedOK`).

| Theorem (`PushSubscription_proofs`) | States |
| --- | --- |
| `TypeCorrect` | `Spec => []TypeOK` |
| `StreamStaysIntact` | `Spec => []StreamIntact` |
| `HandlersDoNotOverlap` | `Spec => []OneHandlerAtATime` |
| `SilentEnd` | `Spec => []SilentEndIsComplete` |
| `QuietAfterClose` | `Spec => NoCallbackAfterClose` |
| `ImplementsCallbackContract` | `Spec => Contract`, the refinement |

for any closers, capacity, retention and number of frames, and whether or not
handlers wait for a `close()`. The invariant is `TypeOK /\ OneHandlerAtATime /\
StreamIntact`. `StreamIntact` uses the same operators and lemmas for reader and
channel, the number taken being `Taken`, what was delivered and the frame the
task holds; beyond that, `ItemOK` says what the task holds at each of its
program points, `TaskOK` which callbacks have run there (from which it follows
that `onError` and `onClose` come at most once and in their order), and `EndOK`
why the stream is over: a close, an error that was reported, or completeness.
`QuietAfterClose` follows because a `close()` resolves with nothing only when
the `JoinHandle` it took belonged to a task that is done.

| Theorem (`QueryStream_proofs`) | States |
| --- | --- |
| `TypeCorrect` | `Spec => []TypeOK` |
| `StreamStaysIntact` | `Spec => []StreamIntact` |
| `NullIsComplete` | `Spec => []NullMeansComplete` |
| `ImplementsBatchStream` | `Spec => Contract`, the refinement |

for any number of calls, channel and ring capacity. A ring that overwrites
leaves gaps, so places cannot be counted off as for a portal. `OrderOK` says
instead that the numbers ascend strictly from the last batch delivered through
the channel to the reader's hand and never exceed the cursor; `CountOK` that
the cursor is what was delivered, queued, in hand and lost; `EndOK` that the
None message is the last, and there as long as the reader has left and nobody
has taken it; `CauseOK` that there was a reason to send it.

| Theorem (`Connection_proofs`) | States |
| --- | --- |
| `ConnectionTypes` | `Spec => []TypeOK` |
| `AtMostOneAttempt` | `Spec => []OneAttempt` |
| `LatchIsRight` | `Spec => []LatchConverges` |
| `QueriesAreAccounted` | `Spec => []QueriesAccounted` |
| `ConnectionImplementsLifecycle` | `Spec => Contract`, the refinement |
| `DownForGood` | `Spec => DownIsFinal` |
| `ClosedIsUnusable` | `Spec => NoUseAfterClose` |

for any sets of closers and operations, whatever each may call, and any ring.
The invariant of the latch (`LatchInv`) says what the latch and the engine are
*while* an attempt is under way: the latch is set and the engine is not yet
down. So an attempt that fails clears a latch that nobody else relies on. It is
proved of `Latch`'s steps alone and carried over, since an operation leaves
them alone. The invariant of the operations (`OpInv`) adds to
`QueriesAccounted` that an operation that has not reached the engine has no
query, and that only a `streamQuery()` is streaming; it is a statement about
one operation at a time (`Accounted`), and `OneOperation` reduces a step to the
operation that takes it. The one step that touches another's query,
`cancelQuery()`, is proved separately. For the refinement, each closing step is
a `Begin`, `Fail`, `Succeed` or a stutter by `LatchInv`, and `ensure_open()` is
an `Enter` because an open latch means a running engine.

| Theorem (`Ingestion_proofs`) | States |
| --- | --- |
| `TypeCorrect` | `Spec => []TypeOK` |
| `LogStaysIntact` | `Spec => []LogIntact` |
| `AnswersAreAccounted` | `Spec => []AnswersAccount` |
| `ClosedWritersAreQuiet` | `Spec => ClosedWriterIsQuiet` |

for any buffer, any streams of batches of any sizes, and any number of calls.
The log is the concatenation of what was drained and what is still buffered, so
a drain leaves it as it is (`DrainKeepsLog`) and a push appends to it
(`PushExtendsLog`); everything else is said of the log alone. `IInv` adds to
`LogIntact` and `AnswersAccount` what a call under way must know:
`EntriesKnown`, that every entry is a batch of a call that was made;
`EndsWithDone`, that the log ends with the batch the running call pushed last,
or holds none of its batches, which is why the next one continues the order;
and `CallsInTurn`, that only the last call can be running, and a writer's only
while the writer is open. `RowSumsStep` gives the recursion behind the row
count.

| Theorem (`Seam_proofs`) | States |
| --- | --- |
| `SeamTypeCorrect` | `SeamSpec => []SeamTypeOK` |
| `NothingIsStoredOtherwise` | `SeamSpec => []StoredFaithfully` |
| `RefusalsHaveCause` | `SeamSpec => []RejectedForCause` |
| `RoundTrip` | `SeamSpec => []ReadBack` |
| `NumbersKeepTheirOrder` | `SeamSpec => []NumbersCross` |
| `SameDatabaseHoweverNamed` | `SeamSpec => []OptionsAgree` |
| `CodesAreKept` | `SeamSpec => []CodesSurvive` |

for all widths, units, precisions, numbers, ids and codes that satisfy the
assumptions below, so for the real ones, which TLC cannot reach. The invariant
`SeamInv` says where each state of a cell comes from: a slot is what
`rows_to_batch` made of the value or what the engine put there, an answer is
what `batch_to_rows` made of the slot (`CellInv`), and whatever else has
arrived is the image of what crossed (`Arrivals`). The arithmetic is in the
lemmas: `IntegralStored` and `TemporalStored` (the slot is in range and denotes
the value), `ExactIsTaken` (a value with a slot is not refused), and
`IntegralAnswer`, `TemporalAnswer` and `FloatHeld` (the answer is the value);
`AnswerKind` says which slots are read, and as what. The properties of the
rest compare two things that the code has twice. `OptionsAgree` compares what
arrives with the other ways to name the same database: `StorageOfPath` is
`open()`'s rule and `Storage` that of `into_core()`, each translated from its
own file, and `SameRule` is the lemma that they agree. `CodesSurvive` compares
`classFor` of `ts/errors.ts` with `ClassOf`, the table of `README.md:85-92`,
and `ClassAsDocumented` proves it for every code from 100 to 999.

They rest on `Numbers_proofs`, which proves of `Float`, for every precision:
that the recursive `Pow2` satisfies its equation (`PrimitiveRecursion`, by
induction over a set of naturals, which needs no operator as a parameter), that
every whole number has an exponent (`ExponentExists`), that a whole number of
at most *p* bits is not changed by rounding (`ExactRound`), that rounding keeps
the order of whole numbers (`RoundOrder`, from which `NumbersCross` follows
beyond 2^53), and that it depends on the number alone, however the fraction is
written (`RoundSame`).

Assumed: the named `ASSUME`s on the constants, which TLC evaluates in the runs,
and nothing else. For the streams, the connection and ingestion they give the
constants a type. For the numbers they say what the code relies on:
`WidthAssumption`, that the integer types widen in their usual order, that an
`f32` is no more precise than an `f64`, that every `u32` is an integer an `f64`
holds (2^32 - 1 <= 2^53 - 1) and 2^53 - 1 an `i64`, that the exponents reach
down to whole numbers (53 <= 149 + 1) and up beyond `i64` (2^63 < 2^(53 +
104)); `NumberAssumption`, that a JavaScript number is one an `f64` holds
already; `IdentAssumption`, that ids are `u64`; and `BatchesAssumption`, that a
result has at most `i64::MAX` batches, as a `Vec` holds no more.

Only model-checked: liveness (`PendingCallsWake`, `ReaderLearnsOfTheEnd`,
`PortalReleased`, `ErrorThenClose`, `CloseResolves`, `PortalIsReleased`,
`AbandonedQueryEnds`, `CallsSettle`), for which the prover has no rule for
fairness and `ENABLED` here. Every other property of a passing run is proved.

## 6. Where code and documents disagree

Each of these is a run that TLC refutes on purpose.

1. `PushReentrantClose`: `close()` "resolves only after the reader has stopped"
   (`src/subscription.rs:338-339`); a handler that awaits it waits for itself,
   because `close()` joins the task and the task awaits the handler.
2. `QueryCancel`: `cancel()` of a streaming query is "cancel the query"
   (`src/query.rs:280`); a reader that is blocked on the full channel does not
   see the token, so a stream that is no longer read leaves its query running
   until it is collected. The pull subscription has the same shape; there the
   property `PortalReleased` needs `KeepsReading`.
3. `LatchOk`: "concurrent callers wait out that attempt as no-ops"
   (`src/database.rs:456-461`); they return at once, and the attempt may still
   fail.
4. `ConversionClamp`: reading a `UInt64` above `i64::MAX` "now rejects with a
   900-coded message" (`docs/reviews/phase1-2026-09-02.md:19`); it is clamped.
5. `ConversionNanos`: `Date`-like columns are epoch milliseconds
   (`README.md:49-50`); 1700000000002 ms written to a nanosecond column reads
   back as 1700000000001.9998, as the slot exceeds 2^53 and is rounded before
   it is divided.
6. `SeamErrors`: "every failure throws a `LaminarError` subclass with a numeric
   `code`" (`README.md:83`), and the prefix of the message is "internal
   plumbing" (`src/error.rs:5-8`). `nextBatch()` and `nextFrame()` resolve to
   the native batch (`ts/index.ts:647`), not to the wrapper that a collected
   result has for its batches (`ts/index.ts:747-753`). What its `toArray()` and
   `toIPC()` throw is a plain `Error` without a code whose message begins with
   `[LAMINAR_900]`; `Seam` models it as the way *bare*. `CodesSurvive` says what
   holds of the other ways.

Behaviour that is modelled as it is, without a run of its own: only the first
`close()` of a push subscription waits for the last callbacks (the code says
so, `src/subscription.rs:362-363`), `isActive()` of a push subscription stays
true after its stream ended by itself, a handler that throws before it returns
a promise ends the subscription without `onError`, a writer outlives the
connection's latch until the engine refuses, and its `watermark()` outlives its
own `close()`. `query()` and `streamQuery()` reject a statement that is no
query only after the core has run it (`Connection.StatementRuns`). A collected
query that is killed resolves with what it has (`QueriesAccounted`). A query
does not wait for a reader that is slow or blocked: it overwrites its ring and
the stream skips what is gone, in silence, as `docs/plans/02-phase1-embedded-mvp.md:20-24`
says; `QueryStream` counts it as `lost`, and `StreamIntact` that nothing else
is. Nulls are looked at before the type when a column is read and after it when
one is written, so a column of an unsupported type reads until its first value,
and one of type `Null`, which takes nulls, cannot be read (`ReadBack`).

One more was met in the facade and has no run: `mapOutcome()`
(`ts/index.ts:766`) compares a native result with `undefined` where the getter
gives `null` (`index.d.ts:149`), so a DDL outcome carries a result around
`null`, contrary to `ts/index.ts:90`.

## 7. What is assumed, and what is not modelled

Assumed of code outside this repository, from how the binding uses it:

- `SubscriptionPortal::next_frame()` hands out entries in order, reports lag
  once more than its retention lies behind the portal, a failure when the
  pipeline stops, and closes after the last entry of an object that ended; it
  is cancel-safe (a `select!` that drops it loses nothing).
- `QueryHandle::recv_async()` returns the oldest batch that the ring still has
  and does not report overwritten ones; dropping the handle ends the reception.
- tokio's channel keeps order and `recv()` is `None` once the sender is gone
  and the channel empty; a failed `send` means that the receiver is gone.
- `call_async` of a callback fails if the environment is gone, or if the
  callback throws or does not return a promise where one is expected.
- `push_arrow` takes a batch or fails; it does not wait.
- `db.shutdown()` may fail before or after it has stopped part of the engine,
  can be tried again, and stays down once it succeeded.
- A `NullArray` has no validity bitmap, so `is_null()` is false for its slots.
- Dropping a `QueryHandle` cancels a query that still runs, and a subscription
  to a query is disconnected once the query has ended, however it ended.
- napi takes NaN for 0, cuts fractions and saturates where a method wants an
  `i64`, wraps where it wants a `u32`, and makes a promise settle once.
- A cast to a float is IEEE 754's rounding to nearest, ties to even. Of numbers
  that lie beyond the range of a float (in either direction) nothing is said:
  `Held`, in `ReadBack`, leaves them out.

Not modelled: module declarations, `version()` and the build; of the facade,
the async iterators (loops over `nextFrame()`, `nextBatch()` and `cancel()`,
which the stream modules have), the conversion of `Date` objects to
milliseconds, and the copying of outcomes. Within the modelled components: what
catalog, metrics and checkpoint calls return, which the core decides; accessors
that only read; options of `open()` that are copied as they are; the wording of
errors; which of several bad cells of a row set is reported; and the encoding
of Arrow IPC, which is the `arrow` crate's. `Ingestion` has one source and one
writer, and `Connection` gives the subscriptions no part: they do not look at
the latch once they are open, and what they see of a shutdown (`EngineStops`)
is in their own modules.

## 8. Plan

1. Composition: a `QueryStream` in place of `Connection`'s abstract streaming
   operation, and writers under `Connection.close()` with `Latch` in place of
   `Ingestion`'s shutdown.
2. The facade's async iterators as a consumer of the stream modules.
