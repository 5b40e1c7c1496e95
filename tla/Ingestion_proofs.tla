---------------------------- MODULE Ingestion_proofs ----------------------------
(***************************************************************************)
(* Theorems about Ingestion, for every buffer, all streams of batches and  *)
(* any number of calls.                                                    *)
(***************************************************************************)
EXTENDS Ingestion, Numbers_proofs, SequenceTheorems

(* What Pushed says of any log. *)
PushedIn(log, c) == {log[i].batch : i \in {j \in DOMAIN log : log[j].call = c}}

(* What LogIntact says of any log. *)
Intact(log) ==
  \A i \in DOMAIN log :
    /\ requests[log[i].call].matches
    /\ IF i > 1 /\ log[i - 1].call = log[i].call
         THEN log[i].batch = log[i - 1].batch + 1
         ELSE log[i].batch = 1 /\ (i > 1 => log[i - 1].call < log[i].call)

(* Every entry of the log is a batch of a call that was made. *)
EntriesKnown(log) ==
  \A i \in DOMAIN log :
    /\ log[i].call \in 1..Last
    /\ log[i].batch \in 1..Len(requests[log[i].call].sizes)

(* While a call runs, the log ends with the batch that it pushed last, or    *)
(* holds none of its batches.                                                *)
EndsWithDone(log) ==
  Busy => IF done = 0 THEN \A i \in DOMAIN log : log[i].call # Last
          ELSE log # <<>> /\ log[Len(log)] = [call |-> Last, batch |-> done]

(* Only the last call can be running, and a writer's only while it is open.  *)
CallsInTurn ==
  /\ \A c \in 1..Last : answers[c].outcome = "running" => c = Last
  /\ Busy /\ requests[Last].kind \in Writes => writer = "open"

IInv ==
  /\ TypeOK /\ CallsInTurn /\ AnswersAccount
  /\ Intact(Log) /\ EntriesKnown(Log) /\ EndsWithDone(Log)

-----------------------------------------------------------------------------
(* The sums of the sizes, by recursion: each adds one size (rows += ...).    *)
LEMMA RowSumsStep ==
  ASSUME NEW s \in Seq(Nat)
  PROVE  /\ RowSums(s)[0] = 0
         /\ \A n \in 0..(Len(s) - 1) : RowSums(s)[n + 1] = RowSums(s)[n] + s[n + 1]
<1> DEFINE size(i) == IF i \in 1..Len(s) THEN s[i] ELSE 0
           step == [i \in Nat |-> [x \in Nat |-> x + size(i)]]
           Sums(f) == f = [n \in 0..Len(s) |-> IF n = 0 THEN 0 ELSE f[n - 1] + s[n]]
<1>0. Len(s) \in Nat /\ \A i \in Nat : size(i) \in Nat
  OBVIOUS
<1>1. 0 \in Nat /\ step \in [Nat -> [Nat -> Nat]] /\ \A i, x \in Nat : step[i][x] = x + size(i)
  <2> HIDE DEF size
  <2> QED
    BY <1>0
<1>2. Recursive(0, Nat, step) # {}
  <2> HIDE DEF step
  <2> QED
    BY <1>1, PrimitiveRecursion
<1>3. PICK g \in [Nat -> Nat] : g[0] = 0 /\ \A i \in Nat \ {0} : g[i] = g[i - 1] + size(i)
  <2>1. PICK g \in [Nat -> Nat] : g[0] = 0 /\ \A i \in Nat \ {0} : g[i] = step[i][g[i - 1]]
    BY <1>2 DEF Recursive
  <2>2. ASSUME NEW i \in Nat \ {0} PROVE g[i] = g[i - 1] + size(i)
    <3>1. i - 1 \in Nat /\ g[i - 1] \in Nat
      OBVIOUS
    <3> HIDE DEF step, size
    <3> QED
      BY <1>1, <2>1, <3>1
  <2> HIDE DEF size, step
  <2> QED
    BY <2>1, <2>2
<1>4. Sums([n \in 0..Len(s) |-> g[n]])
  <2> DEFINE h == [n \in 0..Len(s) |-> g[n]]
  <2>1. ASSUME NEW n \in 0..Len(s)
        PROVE  h[n] = IF n = 0 THEN 0 ELSE h[n - 1] + s[n]
    <3>1. CASE n = 0
      BY <1>3, <3>1
    <3>2. CASE n # 0
      <4>1. n \in Nat \ {0} /\ n - 1 \in 0..Len(s) /\ n \in 1..Len(s)
        BY <3>2, <1>0
      <4> QED
        BY <1>3, <4>1, <3>2
    <3> QED
      BY <3>1, <3>2
  <2> HIDE DEF h
  <2>2. h = [n \in 0..Len(s) |-> h[n]]
    BY DEF h
  <2>3. [n \in 0..Len(s) |-> h[n]] = [n \in 0..Len(s) |-> IF n = 0 THEN 0 ELSE h[n - 1] + s[n]]
    BY <2>1
  <2> QED
    BY <2>2, <2>3 DEF h
<1>5. Sums(RowSums(s))
  BY <1>4 DEF RowSums
<1>6. ASSUME NEW n \in 0..(Len(s) - 1) PROVE RowSums(s)[n + 1] = RowSums(s)[n] + s[n + 1]
  <2>1. n + 1 \in 0..Len(s) /\ n + 1 # 0 /\ (n + 1) - 1 = n
    BY <1>0
  <2> QED
    BY <1>5, <2>1
<1>7. RowSums(s)[0] = 0
  BY <1>0, <1>5
<1> QED
  BY <1>6, <1>7

(* Draining moves an entry from the buffer to what was consumed: the log as a *)
(* whole stays as it is.                                                     *)
LEMMA DrainKeepsLog ==
  ASSUME NEW S, NEW done_ \in Seq(S), NEW rest \in Seq(S), rest # <<>>
  PROVE  Append(done_, Head(rest)) \o Tail(rest) = done_ \o rest
OBVIOUS

(* A push puts its entry at the end of the log.                              *)
LEMMA PushExtendsLog ==
  ASSUME NEW S, NEW done_ \in Seq(S), NEW rest \in Seq(S), NEW e \in S
  PROVE  done_ \o Append(rest, e) = Append(done_ \o rest, e)
OBVIOUS

(* The batches of a call in a log that is one entry longer.                  *)
LEMMA PushedAppend ==
  ASSUME NEW log \in Seq(Entry), NEW e \in Entry, NEW c
  PROVE  PushedIn(Append(log, e), c) = PushedIn(log, c) \cup {b \in {e.batch} : e.call = c}
<1> DEFINE more == Append(log, e)
<1>1. /\ DOMAIN more = DOMAIN log \cup {Len(log) + 1}
      /\ \A i \in DOMAIN log : more[i] = log[i]
      /\ more[Len(log) + 1] = e
  OBVIOUS
<1> HIDE DEF more
<1>2. {i \in DOMAIN more : more[i].call = c}
        = {i \in DOMAIN log : log[i].call = c} \cup {i \in {Len(log) + 1} : e.call = c}
  BY <1>1
<1>3. ASSUME NEW b PROVE b \in PushedIn(more, c) <=> b \in PushedIn(log, c) \/ (e.call = c /\ b = e.batch)
  BY <1>1, <1>2 DEF PushedIn
<1> QED
  BY <1>3 DEF more

(* The log consists of entries.                                              *)
LEMMA LogType == TypeOK => Log \in Seq(Entry)
  BY DEF TypeOK, Log

(* The last call can be told from the others, and a call that runs is it.    *)
LEMMA LastCall ==
  TypeOK => /\ Last \in Nat /\ done \in Nat
            /\ Busy => Last \in 1..Last /\ Last \in DOMAIN answers /\ Last \in DOMAIN requests
            /\ \A c \in 1..Last : requests[c] \in Requests /\ requests[c].sizes \in Seq(Nat)
  BY PayloadAssumption DEF TypeOK, Last, Busy, Requests

-----------------------------------------------------------------------------
(* What a step does to the log: only Push touches it.                        *)
LEMMA LogStep ==
  ASSUME TypeOK, [Next]_vars
  PROVE  \/ Log' = Log
         \/ Push /\ Log' = Append(Log, [call |-> Last, batch |-> NextBatch])
<1>1. CASE Push
  <2>1. [call |-> Last, batch |-> NextBatch] \in Entry
    BY LastCall DEF Entry, NextBatch
  <2> QED
    BY <1>1, <2>1, PushExtendsLog DEF Push, TypeOK, Log
<1>2. CASE Drain
  BY <1>2, DrainKeepsLog DEF Drain, TypeOK, Log
<1>3. CASE UNCHANGED logVars
  BY <1>3 DEF logVars, Log
<1>4. CASE Next
  BY <1>1, <1>2, <1>3, <1>4
  DEF Next, Call, SchemaMismatch, PushFails, Return, OpenWriter, CloseWriter, Watermark,
      Latch, Unlatch, EngineStops, logVars
<1> QED
  BY <1>3, <1>4 DEF vars

-----------------------------------------------------------------------------
Outcomes == {"running", "ok", "101", "200", "300", "301", "302", "900", "push"}

(* An answer that is changed is the last one, and it stays an answer.        *)
LEMMA AnswerType ==
  ASSUME TypeOK, Busy, NEW o \in Outcomes, NEW n \in Nat, Answer(o, n)
  PROVE  /\ answers' \in Seq([outcome : Outcomes, rows : Nat])
         /\ Len(answers') = Len(answers)
         /\ answers'[Last] = Outcome(o, n)
         /\ \A c \in 1..Last : c # Last => answers'[c] = answers[c]
<1>1. Outcome(o, n) \in [outcome : Outcomes, rows : Nat]
  BY DEF Outcome
<1>2. answers \in Seq([outcome : Outcomes, rows : Nat]) /\ Last \in DOMAIN answers
  BY LastCall DEF TypeOK, Outcomes
<1>3. Last \in Nat
  BY LastCall
<1> HIDE DEF Outcome, Outcomes, Last
<1> QED
  BY <1>1, <1>2, <1>3 DEF Answer

(* An answer is a record of an outcome and a number of rows.                 *)
LEMMA AnswersTyped ==
  ASSUME TypeOK, NEW c \in 1..Last
  PROVE  answers[c] \in [outcome : Outcomes, rows : Nat] /\ answers[c].rows \in Nat
<1> DEFINE R == [outcome : Outcomes, rows : Nat]
<1>1. answers \in Seq(R) /\ c \in 1..Len(answers)
  BY DEF TypeOK, Outcomes, Last
<1>2. answers[c] \in R
  <2> HIDE DEF R
  <2> QED
    BY <1>1
<1> QED
  BY <1>2

(* A batch's rows are counted as a natural number (rows += batch.num_rows()). *)
LEMMA CountedType ==
  TypeOK /\ HasNext => /\ Counted \in Nat /\ NextBatch \in 1..Len(requests[Last].sizes)
                       /\ answers[Last].rows \in Nat
                       /\ Counted = answers[Last].rows + requests[Last].sizes[NextBatch]
<1> SUFFICES ASSUME TypeOK, HasNext
             PROVE  /\ Counted \in Nat /\ NextBatch \in 1..Len(requests[Last].sizes)
                    /\ answers[Last].rows \in Nat
                    /\ Counted = answers[Last].rows + requests[Last].sizes[NextBatch]
  OBVIOUS
<1>1. requests[Last].sizes \in Seq(Nat) /\ NextBatch \in 1..Len(requests[Last].sizes)
  BY LastCall DEF HasNext, NextBatch
<1>2. answers[Last].rows \in Nat
  BY LastCall, AnswersTyped DEF HasNext
<1> QED
  BY <1>1, <1>2 DEF Counted

(* Type correctness is inductive.                                            *)
LEMMA TypeStep == TypeOK /\ [Next]_vars => TypeOK'
<1> SUFFICES ASSUME TypeOK, [Next]_vars PROVE TypeOK'
  OBVIOUS
<1> USE DEF Outcomes
<1>1. ASSUME NEW r \in Requests, Call(r) PROVE TypeOK'
  <2>1. Outcome(Admission(r), 0) \in [outcome : Outcomes, rows : Nat]
    BY DEF Outcome, Admission, Requests
  <2>2. requests' \in Seq(Requests) /\ answers' \in Seq([outcome : Outcomes, rows : Nat])
        /\ Len(answers') = Len(requests')
    BY <1>1, <2>1 DEF Call, TypeOK
  <2>3. done' = 0 /\ (Last' > 0 => done' <= Len(requests'[Last'].sizes))
    <3>1. requests'[Last'].sizes \in Seq(Nat)
      BY <1>1, <2>2, PayloadAssumption DEF Call, TypeOK, Last, Requests
    <3> QED
      BY <1>1, <3>1 DEF Call, NonePushed
  <2> QED
    BY <1>1, <2>2, <2>3 DEF Call, TypeOK, logVars
<1>2. ASSUME Busy, UNCHANGED <<closed, engine, writer, requests, logVars, watermark>>,
             NEW o \in Outcomes, NEW n \in Nat, Answer(o, n), UNCHANGED done
      PROVE TypeOK'
  BY <1>2, AnswerType DEF TypeOK, logVars, Last
<1>3. CASE SchemaMismatch
  BY <1>2, <1>3 DEF SchemaMismatch, HasNext
<1>4. CASE Push
  <2>1. answers' \in Seq([outcome : Outcomes, rows : Nat]) /\ Len(answers') = Len(answers)
    BY <1>4, AnswerType, CountedType DEF Push, HasNext
  <2>2. buffer' \in Seq(Entry)
    BY <1>4, LastCall DEF Push, TypeOK, Entry, NextBatch
  <2>3. done' \in Nat /\ done' <= Len(requests'[Last'].sizes)
    BY <1>4, CountedType DEF Push, DoneAfter, Last
  <2> QED
    BY <1>4, <2>1, <2>2, <2>3 DEF Push, TypeOK
<1>5. CASE PushFails
  BY <1>2, <1>5 DEF PushFails, HasNext, OnRefusal
<1>6. CASE Return
  <2>1. answers[Last].rows \in Nat
    BY <1>6, LastCall, AnswersTyped DEF Return
  <2> QED
    BY <1>2, <1>6, <2>1 DEF Return
<1>7. CASE OpenWriter \/ CloseWriter \/ Latch \/ Unlatch \/ EngineStops
  BY <1>7 DEF OpenWriter, CloseWriter, Latch, Unlatch, EngineStops, TypeOK, callVars, logVars, Last
<1>8. ASSUME NEW t \in 0..MaxMark, Watermark(t) PROVE TypeOK'
  BY <1>8 DEF Watermark, TypeOK, callVars, logVars, Last
<1>9. CASE Drain
  BY <1>9 DEF Drain, TypeOK, callVars, Last
<1>10. CASE UNCHANGED vars
  BY <1>10 DEF vars, callVars, logVars, TypeOK, Last
<1> QED
  BY <1>1, <1>3, <1>4, <1>5, <1>6, <1>7, <1>8, <1>9, <1>10 DEF Next

(* The program starts type-correct.                                          *)
LEMMA TypeInit == Init => TypeOK
<1> SUFFICES ASSUME Init PROVE TypeOK
  OBVIOUS
<1>1. Len(answers) = Len(requests) /\ ~(Last > 0)
  BY DEF Init, Last
<1>2. requests \in Seq(Requests) /\ buffer \in Seq(Entry) /\ consumed \in Seq(Entry)
    /\ answers \in Seq([outcome : Outcomes, rows : Nat])
  BY DEF Init
<1>3. watermark \in 0..MaxMark
  BY MaxMarkAssumption DEF Init
<1> QED
  BY <1>1, <1>2, <1>3 DEF Init, TypeOK, Outcomes

(* Ingestion is type-correct for any buffer, streams and number of calls; in *)
(* particular a call never pushes more batches than its stream has.          *)
THEOREM TypeCorrect == Spec => []TypeOK
  BY TypeInit, TypeStep, PTL DEF Spec

-----------------------------------------------------------------------------
(* A step leaves the calls before the last alone, and the last one unless it *)
(* is running.                                                               *)
LEMMA CallsFrame ==
  ASSUME TypeOK, [Next]_vars
  PROVE  /\ Last' \in Nat /\ Last <= Last'
         /\ \A c \in 1..Last : requests'[c] = requests[c]
         /\ \A c \in 1..Last : answers'[c] = answers[c] \/ (c = Last /\ Busy)
<1>1. ASSUME NEW r \in Requests, Call(r)
      PROVE  /\ Last' \in Nat /\ Last <= Last'
             /\ \A c \in 1..Last : requests'[c] = requests[c] /\ answers'[c] = answers[c]
  BY <1>1 DEF Call, TypeOK, Last
<1>2. ASSUME Busy, NEW o \in Outcomes, NEW n \in Nat, Answer(o, n)
      PROVE  \A c \in 1..Last : answers'[c] = answers[c] \/ (c = Last /\ Busy)
  BY <1>2, AnswerType
<1>3. ASSUME requests' = requests PROVE Last' = Last
  BY <1>3 DEF Last
<1>4. CASE SchemaMismatch
  BY <1>2, <1>3, <1>4, LastCall DEF SchemaMismatch, HasNext, Outcomes
<1>5. CASE Push
  BY <1>2, <1>3, <1>5, LastCall, CountedType DEF Push, HasNext, Outcomes
<1>6. CASE PushFails
  BY <1>2, <1>3, <1>6, LastCall DEF PushFails, HasNext, OnRefusal, Outcomes
<1>7. CASE Return
  BY <1>2, <1>3, <1>7, LastCall, AnswersTyped DEF Return, Outcomes
<1>8. CASE UNCHANGED callVars
  BY <1>3, <1>8, LastCall DEF callVars
<1>9. CASE Next
  BY <1>1, <1>4, <1>5, <1>6, <1>7, <1>8, <1>9
  DEF Next, OpenWriter, CloseWriter, Watermark, Latch, Unlatch, EngineStops, Drain
<1> QED
  BY <1>8, <1>9 DEF vars

(* A call's first admission is for the writer only while it is open, and     *)
(* nothing else runs when it is made.                                        *)
LEMMA CallsInTurnStep ==
  ASSUME TypeOK, CallsInTurn, [Next]_vars
  PROVE  CallsInTurn'
<1> USE DEF CallsInTurn
<1>1. ASSUME NEW r \in Requests, Call(r) PROVE CallsInTurn'
  <2>1. Last' = Last + 1 /\ Last \in Nat
        /\ requests'[Last'] = r /\ answers'[Last'] = Outcome(Admission(r), 0)
        /\ \A c \in 1..Last : answers'[c] = answers[c]
    BY <1>1 DEF Call, TypeOK, Last
  <2>2. \A c \in 1..Last : answers'[c].outcome # "running"
    <3>1. ~(Last > 0 /\ answers[Last].outcome = "running")
      BY <1>1 DEF Call, Busy
    <3> QED
      BY <2>1, <3>1
  <2>3. Admission(r) = "running" /\ r.kind \in Writes => writer' = "open"
    <3>1. writer \in {"none", "open", "closed"} /\ (r.kind \in Writes => writer # "none")
          /\ writer' = writer
      BY <1>1 DEF Call, TypeOK
    <3>2. r.kind \in Writes => r.kind \notin Inserts
      BY DEF Writes, Inserts
    <3>3. r.kind \in Writes /\ WriterClosed => Admission(r) = "301"
      BY <3>2 DEF Admission
    <3> QED
      BY <3>1, <3>3 DEF WriterClosed
  <2> QED
    BY <2>1, <2>2, <2>3 DEF Busy, Outcome
<1>2. ASSUME requests' = requests, writer' = writer,
             Busy, NEW o \in Outcomes, NEW n \in Nat, Answer(o, n)
      PROVE  CallsInTurn'
  <2>1. Last' = Last
    BY <1>2 DEF Last
  <2> QED
    BY <1>2, <2>1, AnswerType DEF Busy
<1>3. CASE SchemaMismatch
  BY <1>2, <1>3 DEF SchemaMismatch, HasNext, Outcomes
<1>4. CASE Push
  BY <1>2, <1>4, CountedType DEF Push, HasNext, Outcomes
<1>5. CASE PushFails
  BY <1>2, <1>5 DEF PushFails, HasNext, OnRefusal, Outcomes
<1>6. CASE Return
  BY <1>2, <1>6, LastCall, AnswersTyped DEF Return, Outcomes
<1>7. ASSUME UNCHANGED callVars, Busy => writer' = writer PROVE CallsInTurn'
  BY <1>7 DEF callVars, Last, Busy
<1>8. CASE Next
  BY <1>1, <1>3, <1>4, <1>5, <1>6, <1>7, <1>8
  DEF Next, OpenWriter, CloseWriter, Watermark, Latch, Unlatch, EngineStops, Drain
<1> QED
  BY <1>7, <1>8 DEF vars

(* What is in the log stays a batch of a call that was made, and what is     *)
(* pushed is the next batch of the last call.                                *)
LEMMA EntriesKnownStep ==
  ASSUME TypeOK, EntriesKnown(Log), [Next]_vars
  PROVE  EntriesKnown(Log)'
<1>1. /\ Log \in Seq(Entry) /\ Last \in Nat /\ Last' \in Nat /\ Last <= Last'
      /\ \A c \in 1..Last : requests'[c] = requests[c]
  BY LogType, LastCall, CallsFrame
<1>2. CASE Log' = Log
  BY <1>1, <1>2 DEF EntriesKnown
<1>3. CASE Push /\ Log' = Append(Log, [call |-> Last, batch |-> NextBatch])
  <2>1. NextBatch \in 1..Len(requests[Last].sizes) /\ Last \in 1..Last
    BY <1>3, CountedType, LastCall DEF Push, HasNext
  <2>2. /\ Len(Log) \in Nat /\ DOMAIN Log = 1..Len(Log)
        /\ DOMAIN Log' = 1..(Len(Log) + 1)
        /\ \A i \in DOMAIN Log : Log'[i] = Log[i]
        /\ Log'[Len(Log) + 1] = [call |-> Last, batch |-> NextBatch]
    BY <1>1, <1>3
  <2>3. ASSUME NEW i \in DOMAIN Log'
        PROVE  Log'[i].call \in 1..Last /\ Log'[i].batch \in 1..Len(requests[Log'[i].call].sizes)
    <3>1. CASE i \in DOMAIN Log
      BY <2>2, <3>1 DEF EntriesKnown
    <3>2. CASE i = Len(Log) + 1
      BY <2>1, <2>2, <3>2
    <3> QED
      BY <2>2, <3>1, <3>2
  <2> QED
    BY <1>1, <2>3 DEF EntriesKnown
<1> QED
  BY <1>2, <1>3, LogStep

(* The log ends with what the running call has pushed last: a call starts    *)
(* with nothing pushed, and only its own pushes move its count.              *)
LEMMA EndsWithDoneStep ==
  ASSUME TypeOK, EntriesKnown(Log), EndsWithDone(Log), [Next]_vars
  PROVE  EndsWithDone(Log)'
<1>1. ASSUME NEW r \in Requests, Call(r) PROVE EndsWithDone(Log)'
  <2>1. Last' = Last + 1 /\ Last \in Nat /\ done' = 0 /\ Log' = Log
    BY <1>1 DEF Call, TypeOK, Last, NonePushed, logVars, Log
  <2>2. \A i \in DOMAIN Log : Log[i].call # Last'
    BY <2>1 DEF EntriesKnown
  <2> QED
    BY <2>1, <2>2 DEF EndsWithDone
<1>2. ASSUME requests' = requests, Busy, NEW o \in Outcomes \ {"running"}, NEW n \in Nat, Answer(o, n)
      PROVE  EndsWithDone(Log)'
  <2>1. Last' = Last /\ answers'[Last].outcome # "running"
    <3>1. Last' = Last
      BY <1>2 DEF Last
    <3>2. answers'[Last] = Outcome(o, n)
      BY <1>2, AnswerType
    <3> QED
      BY <1>2, <3>1, <3>2 DEF Outcome
  <2> QED
    BY <2>1 DEF Busy, EndsWithDone
<1>3. CASE SchemaMismatch
  BY <1>2, <1>3 DEF SchemaMismatch, HasNext, Outcomes
<1>4. CASE Push /\ Log' = Append(Log, [call |-> Last, batch |-> NextBatch])
  <2>1. Last' = Last /\ done' = NextBatch /\ done' # 0
    BY <1>4, LastCall DEF Push, Last, DoneAfter, NextBatch
  <2>2. /\ Log' # <<>>
        /\ Log'[Len(Log')] = [call |-> Last, batch |-> NextBatch]
    BY <1>4, LogType
  <2> QED
    BY <2>1, <2>2 DEF EndsWithDone
<1>5. CASE PushFails
  BY <1>2, <1>5 DEF PushFails, HasNext, OnRefusal, Outcomes
<1>6. CASE Return
  BY <1>2, <1>6, LastCall, AnswersTyped DEF Return, Outcomes
<1>7. ASSUME UNCHANGED callVars, Log' = Log PROVE EndsWithDone(Log)'
  BY <1>7 DEF callVars, Last, Busy, EndsWithDone
<1>8. CASE UNCHANGED callVars
  <2>1. ~Push
    BY <1>8, LastCall DEF callVars, Push, DoneAfter, NextBatch
  <2> QED
    BY <1>7, <1>8, <2>1, LogStep
<1>9. CASE Push
  <2>1. Log' # Log
    BY <1>9 DEF Push, TypeOK, Log
  <2> QED
    BY <1>4, <2>1, LogStep
<1>10. CASE Next
  BY <1>1, <1>3, <1>5, <1>6, <1>8, <1>9, <1>10
  DEF Next, OpenWriter, CloseWriter, Watermark, Latch, Unlatch, EngineStops, Drain
<1> QED
  BY <1>8, <1>10 DEF vars

(* An entry goes to the log in order: after the batch before it, or as the   *)
(* first of a later call, and only with the source's schema.                 *)
LEMMA IntactStep ==
  ASSUME TypeOK, EntriesKnown(Log), EndsWithDone(Log), Intact(Log), [Next]_vars
  PROVE  Intact(Log)'
<1>1. /\ Log \in Seq(Entry) /\ Last \in Nat /\ done \in Nat
      /\ \A c \in 1..Last : requests'[c] = requests[c]
  BY LogType, LastCall, CallsFrame
<1>2. CASE Log' = Log
  BY <1>1, <1>2 DEF Intact, EntriesKnown
<1>3. CASE Push /\ Log' = Append(Log, [call |-> Last, batch |-> NextBatch])
  <2>1. /\ Last \in 1..Last /\ requests[Last].matches
        /\ IF done = 0 THEN \A i \in DOMAIN Log : Log[i].call # Last
           ELSE Log # <<>> /\ Log[Len(Log)] = [call |-> Last, batch |-> done]
    BY <1>3, LastCall DEF Push, HasNext, CheckSchema, EndsWithDone
  <2>2. /\ Len(Log) \in Nat /\ DOMAIN Log = 1..Len(Log)
        /\ DOMAIN Log' = 1..(Len(Log) + 1)
        /\ \A i \in DOMAIN Log : Log'[i] = Log[i]
        /\ Log'[Len(Log) + 1] = [call |-> Last, batch |-> done + 1]
    BY <1>1, <1>3 DEF NextBatch
  <2>3. ASSUME NEW i \in DOMAIN Log'
        PROVE  /\ Log'[i].call \in 1..Last /\ requests[Log'[i].call].matches
               /\ IF i > 1 /\ Log'[i - 1].call = Log'[i].call
                    THEN Log'[i].batch = Log'[i - 1].batch + 1
                    ELSE Log'[i].batch = 1 /\ (i > 1 => Log'[i - 1].call < Log'[i].call)
    <3>1. CASE i \in DOMAIN Log
      <4>1. i > 1 => i - 1 \in DOMAIN Log
        BY <2>2, <3>1
      <4> QED
        BY <2>2, <3>1, <4>1 DEF Intact, EntriesKnown
    <3>2. CASE i = Len(Log) + 1
      <4>1. Log'[i].call = Last /\ Log'[i].batch = done + 1
        BY <2>2, <3>2
      <4>2. CASE i = 1
        <5>1. done = 0
          BY <1>1, <2>1, <2>2, <3>2, <4>2
        <5> QED
          BY <2>1, <4>1, <4>2, <5>1
      <4>3. CASE i > 1
        <5>1. i - 1 = Len(Log) /\ i - 1 \in DOMAIN Log /\ Log'[i - 1] = Log[Len(Log)]
          BY <2>2, <3>2, <4>3
        <5>2. Log[Len(Log)].call \in 1..Last
          BY <5>1 DEF EntriesKnown
        <5>3. CASE done = 0
          <6>1. Log[Len(Log)].call < Last
            BY <1>1, <2>1, <5>1, <5>2, <5>3
          <6> QED
            BY <1>1, <2>1, <4>1, <4>3, <5>1, <5>3, <6>1
        <5>4. CASE done # 0
          BY <2>1, <4>1, <4>3, <5>1, <5>4
        <5> QED
          BY <5>3, <5>4
      <4> QED
        BY <2>2, <3>2, <4>2, <4>3
    <3> QED
      BY <2>2, <3>1, <3>2
  <2> QED
    BY <1>1, <2>3 DEF Intact
<1> QED
  BY <1>2, <1>3, LogStep

-----------------------------------------------------------------------------
(* What AnswersAccount says of one call, its answer and what it has pushed.  *)
Accounts(request, answer, pushed, n) ==
  CASE answer.outcome = "ok" ->
         pushed = 1..Len(request.sizes) /\ answer.rows = RowSums(request.sizes)[Len(request.sizes)]
    [] answer.outcome = "push" ->
         /\ \E k \in 0..(Len(request.sizes) - 1) : pushed = 1..k
         /\ request.kind \in FromRows => pushed = {}
    [] answer.outcome = "running" -> pushed = 1..n /\ answer.rows = RowSums(request.sizes)[n]
    [] OTHER -> pushed = {}

LEMMA AccountsEach ==
  AnswersAccount <=> \A c \in 1..Last : Accounts(requests[c], answers[c], PushedIn(Log, c), done)
  BY DEF AnswersAccount, Accounts, Pushed, PushedIn, RowsOf

(* Of a call that is not the last, or not running, the account stays.        *)
LEMMA AccountStays ==
  ASSUME TypeOK, CallsInTurn, [Next]_vars, NEW c \in 1..Last, c # Last \/ ~Busy,
         Accounts(requests[c], answers[c], PushedIn(Log, c), done)
  PROVE  Accounts(requests[c], answers[c], PushedIn(Log, c), done)'
<1>1. requests'[c] = requests[c] /\ answers'[c] = answers[c]
  BY CallsFrame
<1>2. PushedIn(Log, c)' = PushedIn(Log, c)
  <2>1. CASE Log' = Log
    BY <2>1 DEF PushedIn
  <2>2. CASE Push /\ Log' = Append(Log, [call |-> Last, batch |-> NextBatch])
    <3>1. c # Last /\ [call |-> Last, batch |-> NextBatch] \in Entry
      BY <2>2, LastCall DEF Push, HasNext, Entry, NextBatch
    <3> DEFINE e == [call |-> Last, batch |-> NextBatch]
    <3>2. e.call # c
      BY <3>1
    <3>3. PushedIn(Append(Log, e), c) = PushedIn(Log, c)
      <4>1. e \in Entry /\ Log \in Seq(Entry)
        BY <3>1, LogType
      <4> HIDE DEF e
      <4>2. PushedIn(Append(Log, e), c) = PushedIn(Log, c) \cup {b \in {e.batch} : e.call = c}
        BY <4>1, PushedAppend
      <4>3. {b \in {e.batch} : e.call = c} = {}
        BY <3>2
      <4> QED
        BY <4>2, <4>3
    <3> QED
      BY <2>2, <3>3 DEF PushedIn
  <2> QED
    BY <2>1, <2>2, LogStep
<1>3. answers[c].outcome # "running"
  BY DEF CallsInTurn, Busy
<1> QED
  BY <1>1, <1>2, <1>3 DEF Accounts

(* What a running call has pushed is what its batches in the log are, and of *)
(* a foreign schema that is nothing.                                         *)
LEMMA RunningAccount ==
  ASSUME TypeOK, AnswersAccount, Busy
  PROVE  /\ PushedIn(Log, Last) = 1..done
         /\ answers[Last].rows = RowSums(requests[Last].sizes)[done]
         /\ requests[Last].sizes \in Seq(Nat) /\ done \in 0..Len(requests[Last].sizes)
<1>1. Accounts(requests[Last], answers[Last], PushedIn(Log, Last), done)
  BY LastCall, AccountsEach
<1>2. answers[Last].outcome = "running"
  BY DEF Busy
<1>3. requests[Last].sizes \in Seq(Nat) /\ done \in Nat /\ done <= Len(requests[Last].sizes)
  BY LastCall DEF TypeOK
<1> QED
  BY <1>1, <1>2, <1>3 DEF Accounts

(* When a call ends, its answer accounts for what it has pushed.             *)
LEMMA EndAccount ==
  ASSUME TypeOK, CallsInTurn, AnswersAccount, [Next]_vars, Busy, requests' = requests, Log' = Log,
         NEW o \in Outcomes \ {"running"}, NEW n \in Nat, Answer(o, n),
         Accounts(requests[Last], Outcome(o, n), 1..done, done)
  PROVE  AnswersAccount'
<1>1. Last' = Last
  BY DEF Last
<1>2. ASSUME NEW c \in 1..Last PROVE Accounts(requests[c], answers[c], PushedIn(Log, c), done)'
  <2>1. CASE c # Last
    BY <2>1, AccountsEach, AccountStays
  <2>2. CASE c = Last
    <3>1. answers'[c] = Outcome(o, n) /\ requests'[c] = requests[c]
      BY <2>2, AnswerType
    <3>2. PushedIn(Log, c)' = 1..done
      BY <2>2, RunningAccount DEF PushedIn
    <3> QED
      BY <2>2, <3>1, <3>2 DEF Accounts, Outcome
  <2> QED
    BY <2>1, <2>2
<1>3. (\A c \in 1..Last : Accounts(requests[c], answers[c], PushedIn(Log, c), done))'
  BY <1>1, <1>2
<1> QED
  BY <1>3, AccountsEach, PTL

(* The answers account for the log after every step.                         *)
LEMMA AnswersAccountStep ==
  ASSUME IInv, [Next]_vars
  PROVE  AnswersAccount'
<1> USE DEF IInv
<1>1. ASSUME NEW r \in Requests, Call(r) PROVE AnswersAccount'
  <2>1. /\ Last' = Last + 1 /\ Last \in Nat /\ ~Busy /\ Log' = Log /\ done' = 0
        /\ requests'[Last'] = r /\ answers'[Last'] = Outcome(Admission(r), 0)
    BY <1>1 DEF Call, TypeOK, Last, NonePushed, logVars, Log
  <2>2. \A c \in 1..Last : Accounts(requests[c], answers[c], PushedIn(Log, c), done)'
    BY <2>1, AccountsEach, AccountStays
  <2>3. PushedIn(Log', Last') = {}
    <3>1. \A i \in DOMAIN Log : Log[i].call # Last + 1
      BY <2>1 DEF EntriesKnown
    <3>2. {i \in DOMAIN Log : Log[i].call = Last + 1} = {}
      BY <3>1
    <3> QED
      BY <2>1, <3>2 DEF PushedIn
  <2>4. Admission(r) \in {"running", "101", "301", "200", "300", "900"}
    BY DEF Admission, Parses, Requests
  <2>5. RowSums(r.sizes)[0] = 0
    BY RowSumsStep, PayloadAssumption DEF Requests
  <2>6. Accounts(r, Outcome(Admission(r), 0), {}, 0)
    BY <2>4, <2>5 DEF Accounts, Outcome
  <2>7. (\A c \in 1..Last : Accounts(requests[c], answers[c], PushedIn(Log, c), done))'
    <3>1. Accounts(requests'[Last'], answers'[Last'], PushedIn(Log', Last'), done')
      BY <2>1, <2>3, <2>6
    <3>2. \A c \in 1..Last' : c \in 1..Last \/ c = Last'
      BY <2>1
    <3> QED
      BY <2>2, <3>1, <3>2
  <2> QED
    BY <2>7, AccountsEach, PTL
<1>2. CASE SchemaMismatch
  <2>1. done = 0
    <3>1. CASE done # 0
      <4>1. Log # <<>> /\ Log[Len(Log)].call = Last /\ Len(Log) \in DOMAIN Log
        BY <1>2, <3>1, LogType DEF SchemaMismatch, HasNext, EndsWithDone
      <4> QED
        BY <1>2, <4>1 DEF SchemaMismatch, CheckSchema, Intact
    <3> QED
      BY <3>1
  <2>2. Accounts(requests[Last], Outcome("302", 0), 1..done, done)
    BY <2>1 DEF Accounts, Outcome
  <2>3. Busy /\ requests' = requests /\ Log' = Log /\ Answer("302", 0)
    BY <1>2 DEF SchemaMismatch, HasNext, logVars, Log
  <2> QED
    BY <2>2, <2>3, EndAccount DEF Outcomes
<1>3. CASE Push
  <2>1. /\ Last' = Last /\ requests' = requests /\ done' = done + 1 /\ Busy
        /\ Answer("running", Counted) /\ done < Len(requests[Last].sizes)
    BY <1>3 DEF Push, HasNext, DoneAfter, NextBatch, Last
  <2>2. Log' = Append(Log, [call |-> Last, batch |-> done + 1])
    BY <1>3, LogStep DEF Push, TypeOK, Log, NextBatch
  <2>3. PushedIn(Log, Last)' = 1..(done + 1)
    <3> DEFINE e == [call |-> Last, batch |-> done + 1]
    <3>1. e \in Entry /\ e.call = Last /\ e.batch = done + 1 /\ Log \in Seq(Entry) /\ done \in Nat
      BY LastCall, LogType DEF Entry
    <3> HIDE DEF e
    <3>2. PushedIn(Append(Log, e), Last) = PushedIn(Log, Last) \cup {b \in {e.batch} : e.call = Last}
      BY <3>1, PushedAppend
    <3>3. PushedIn(Log, Last) = 1..done
      BY <2>1, RunningAccount
    <3>4. PushedIn(Append(Log, e), Last) = 1..(done + 1)
      BY <3>1, <3>2, <3>3
    <3> QED
      BY <2>1, <2>2, <3>4 DEF PushedIn, e
  <2>4. answers'[Last] = Outcome("running", Counted)
    BY <2>1, CountedType, AnswerType, <1>3 DEF Outcomes, Push
  <2>5. Counted = RowSums(requests[Last].sizes)[done + 1]
    <3>1. /\ requests[Last].sizes \in Seq(Nat) /\ done \in 0..(Len(requests[Last].sizes) - 1)
          /\ answers[Last].rows = RowSums(requests[Last].sizes)[done]
      BY <2>1, RunningAccount
    <3>2. RowSums(requests[Last].sizes)[done + 1]
            = RowSums(requests[Last].sizes)[done] + requests[Last].sizes[done + 1]
      BY <3>1, RowSumsStep
    <3> QED
      BY <3>1, <3>2 DEF Counted, NextBatch
  <2>6. Accounts(requests[Last], answers[Last], PushedIn(Log, Last), done)'
    BY <2>1, <2>3, <2>4, <2>5 DEF Accounts, Outcome
  <2>7. (\A c \in 1..Last : Accounts(requests[c], answers[c], PushedIn(Log, c), done))'
    BY <2>1, <2>6, AccountsEach, AccountStays
  <2> QED
    BY <2>7, AccountsEach, PTL
<1>4. CASE PushFails
  <2>1. /\ Busy /\ requests' = requests /\ Log' = Log /\ Answer("push", 0)
        /\ done < Len(requests[Last].sizes)
    BY <1>4 DEF PushFails, OnRefusal, HasNext, logVars, Log
  <2>2. done \in 0..(Len(requests[Last].sizes) - 1)
    BY <2>1, RunningAccount
  <2>3. requests[Last].kind \in FromRows => Len(requests[Last].sizes) = 1
    BY <2>1, LastCall DEF Requests
  <2>4. Accounts(requests[Last], Outcome("push", 0), 1..done, done)
    <3>1. requests[Last].kind \in FromRows => done = 0
      <4>1. done \in Nat /\ done < Len(requests[Last].sizes)
        BY <2>1, RunningAccount
      <4>2. Len(requests[Last].sizes) = 1 => done = 0
        BY <4>1
      <4> QED
        BY <2>3, <4>2
    <3>2. done = 0 => 1..done = {}
      OBVIOUS
    <3> QED
      BY <2>2, <3>1, <3>2 DEF Accounts, Outcome
  <2> QED
    BY <2>1, <2>4, EndAccount DEF Outcomes
<1>5. CASE Return
  <2>1. /\ Busy /\ requests' = requests /\ Log' = Log /\ Answer("ok", answers[Last].rows)
        /\ done = Len(requests[Last].sizes)
    BY <1>5, RunningAccount DEF Return, HasNext, logVars, Log
  <2>2. Accounts(requests[Last], Outcome("ok", answers[Last].rows), 1..done, done)
    BY <2>1, RunningAccount DEF Accounts, Outcome
  <2>3. answers[Last].rows \in Nat
    BY <2>1, LastCall, AnswersTyped
  <2> QED
    BY <2>1, <2>2, <2>3, EndAccount DEF Outcomes
<1>6. CASE UNCHANGED callVars
  <2>1. Log' = Log
    BY <1>6, LastCall, LogStep DEF callVars, Push, DoneAfter, NextBatch
  <2>2. Last' = Last /\ \A c : PushedIn(Log, c)' = PushedIn(Log, c)
    BY <1>6, <2>1 DEF callVars, Last, PushedIn
  <2>3. (\A c \in 1..Last : Accounts(requests[c], answers[c], PushedIn(Log, c), done))'
    BY <1>6, <2>2, AccountsEach DEF callVars, Accounts
  <2> QED
    BY <2>3, AccountsEach, PTL
<1>7. CASE Next
  BY <1>1, <1>2, <1>3, <1>4, <1>5, <1>6, <1>7
  DEF Next, OpenWriter, CloseWriter, Watermark, Latch, Unlatch, EngineStops, Drain
<1> QED
  BY <1>6, <1>7 DEF vars

-----------------------------------------------------------------------------
(* The inductive invariant holds, whatever the engine, the writer's close()  *)
(* and Connection.close() do between two pushes.                             *)
LEMMA Invariance == Spec => []IInv
<1>1. Init => IInv
  <2> SUFFICES ASSUME Init PROVE IInv
    OBVIOUS
  <2>1. Last = 0 /\ ~Busy /\ DOMAIN Log = {}
    BY DEF Init, Last, Busy, Log
  <2>2. TypeOK
    BY TypeInit
  <2> QED
    BY <2>1, <2>2 DEF IInv, CallsInTurn, AnswersAccount, Intact, EntriesKnown, EndsWithDone
<1>2. IInv /\ [Next]_vars => IInv'
  <2> SUFFICES ASSUME IInv, [Next]_vars PROVE IInv'
    OBVIOUS
  <2>1. TypeOK' /\ CallsInTurn' /\ AnswersAccount'
    BY TypeStep, CallsInTurnStep, AnswersAccountStep DEF IInv
  <2>2. Intact(Log)' /\ EntriesKnown(Log)' /\ EndsWithDone(Log)'
    BY IntactStep, EntriesKnownStep, EndsWithDoneStep DEF IInv
  <2> QED
    BY <2>1, <2>2 DEF IInv
<1> QED
  BY <1>1, <1>2, PTL DEF Spec

(* The source takes the batches of all calls in order, without a gap, none    *)
(* twice and none of a foreign schema, drained or not.                       *)
THEOREM LogStaysIntact == Spec => []LogIntact
<1>1. IInv => LogIntact
  BY DEF IInv, Intact, LogIntact
<1> QED
  BY <1>1, Invariance, PTL

(* A number that a call returns is the rows of all its batches, each of them *)
(* pushed; an error means that nothing was, unless the core refused a later  *)
(* batch of an Arrow stream.                                                 *)
THEOREM AnswersAreAccounted == Spec => []AnswersAccount
<1>1. IInv => AnswersAccount
  BY DEF IInv
<1> QED
  BY <1>1, Invariance, PTL

(* A closed writer pushes nothing: a call that runs was made while it was    *)
(* open, and close() runs between calls.                                     *)
THEOREM ClosedWritersAreQuiet == Spec => ClosedWriterIsQuiet
<1>1. ASSUME IInv, [Next]_vars, writer = "closed", Len(Log') > Len(Log)
      PROVE  requests[Log'[Len(Log')].call].kind \in Inserts
  <2>1. Push /\ Log' = Append(Log, [call |-> Last, batch |-> NextBatch])
    BY <1>1, LogStep, LogType DEF IInv
  <2>2. Log'[Len(Log')].call = Last
    BY <1>1, <2>1, LogType DEF IInv
  <2>3. Busy /\ Last \in 1..Last /\ requests[Last] \in Requests
    BY <1>1, <2>1, LastCall DEF IInv, Push, HasNext
  <2>4. requests[Last].kind \notin Writes
    BY <1>1, <2>3 DEF IInv, CallsInTurn
  <2> QED
    BY <2>2, <2>3, <2>4 DEF Requests
<1>2. IInv /\ [Next]_vars
        => [writer = "closed" /\ Len(Log') > Len(Log) =>
              requests[Log'[Len(Log')].call].kind \in Inserts]_vars
  BY <1>1
<1> QED
  BY <1>2, Invariance, PTL DEF Spec, ClosedWriterIsQuiet
=============================================================================
