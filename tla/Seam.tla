--------------------------------- MODULE Seam ---------------------------------
(***************************************************************************)
(* The rest of what crosses the native seam, beside the cells of           *)
(* Conversion: the engine's unsigned numbers (counters of                  *)
(* src/telemetry.rs, ids and epochs) on their way out, the same numbers    *)
(* and plain ones on their way back in, the options of open()              *)
(* (src/config.rs, src/database.rs) and the errors (src/error.rs and       *)
(* src/ts/errors.ts).                                                      *)
(***************************************************************************)
EXTENDS Conversion

CONSTANTS
  U32Max,       \* the largest u32
  Idents,       \* unsigned numbers of the engine that are tried
  Codes,        \* codes that errors are raised with
  NumBatches    \* batches of a collected result

U64Max == 2 * I64Max + 1

ASSUME IdentAssumption == Idents \subseteq 0..U64Max
ASSUME CodeAssumption == Codes \subseteq 100..999
ASSUME BatchesAssumption == NumBatches \in 0..I64Max   \* a Vec holds no more
ASSUME U32Assumption == U32Max \in Nat

(* An error has no code when napi raises it, and a typed one has no prefix. *)
Uncoded == 0

Absent == Plain("absent")
Places == {"absent", ":memory:", "dirA", "dirB"}

(* Options of open(), one of the numbers being given at a time. *)
Options ==
  {c \in [storageDir : Places, maxNodeDataBytes : {Absent} \cup {Item("num", q) : q \in Numbers},
          bufferSize : {Absent} \cup {Item("num", q) : q \in Numbers}] :
     Absent \in {c.maxNodeDataBytes, c.bufferSize}}
NoOptions == [storageDir |-> "absent", maxNodeDataBytes |-> Absent, bufferSize |-> Absent]

(* Where an error comes out: of a method that the facade wraps, at onError,  *)
(* or of a method of a native object that the facade hands out as it is: a   *)
(* batch that nextBatch() or nextFrame() has resolved to.                    *)
Ways == {"wrapped", "onError", "bare"}

(* toArray() and toIPC() of a batch raise this one alone. *)
BatchCode == 900

Cell == [what |-> "cell"]
Crossings ==
  {Cell}
    \cup [what : {"ident"}, n : Idents]
    \cup [what : {"number", "index"}, q : Numbers]
    \cup [what : {"open"}, path : Places, given : BOOLEAN, config : Options]
    \cup [what : {"error"}, code : Codes \cup {Uncoded}, way : {"wrapped", "onError"}]
    \cup [what : {"error"}, code : {BatchCode}, way : {"bare"}]

VARIABLES
  crossing,   \* what crosses
  arrived     \* what it has become on the other side

seamVars == <<crossing, arrived>>

-----------------------------------------------------------------------------
(* Faulty: "value as i64". *)
SaturatingWrapped(n) == IF n <= I64Max THEN n ELSE n - U64Max - 1

(* saturating(): u64 to i64; napi hands an i64 over as an f64. *)
Saturating(n) == IF n <= I64Max THEN n ELSE I64Max
Shown(n) == Round(Whole(Saturating(n)), Precision)

(* napi's i64 argument: a fraction is cut off, what does not fit saturates,  *)
(* NaN and the infinities are 0.                                             *)
AsInt64(q) ==
  CASE ~IsFinite(q) -> 0
    [] IsFinite(q) /\ Trunc(q) \in Width("Int64") -> Trunc(q)
    [] IsFinite(q) /\ Trunc(q) > I64Max -> I64Max
    [] IsFinite(q) /\ Trunc(q) < -I64Max - 1 -> -I64Max - 1

(* u64::try_from(..).unwrap_or(u64::MAX): fromEpoch and cancelQuery's id.    *)
AsU64(i) == IF i < 0 THEN U64Max ELSE i

(* QueryResult.batch(): the index in the same way, then a lookup. *)
BatchAt(q) ==
  LET i == AsU64(AsInt64(q))
  IN IF i < NumBatches THEN [as |-> "batch", n |-> i] ELSE [as |-> "error", n |-> 400]

-----------------------------------------------------------------------------
(* The directory that into_core() gives the core. *)
Storage(place) == IF place \in {"absent", ":memory:"} THEN "memory" ELSE place

(* storageDir wins over the positional path. *)
Placed(dir, path) == IF dir = "absent" THEN path ELSE dir

(* maxNodeDataBytes: "bytes as u64" saturates. *)
BytesRefused(b) == b.kind = "num" /\ (~IsFinite(b.num) \/ b.num.num < 0)
Bytes(b) ==
  IF b = Absent THEN Absent
  ELSE Item("num", Whole(IF Trunc(b.num) > U64Max THEN U64Max ELSE Trunc(b.num)))

(* napi's u32 argument (bufferSize, intervalMs, timeoutMs) wraps around. *)
AsUint32(b) ==
  IF b = Absent THEN Absent
  ELSE Item("num", Whole(IF IsFinite(b.num) THEN Trunc(b.num) % (U32Max + 1) ELSE 0))

Opened(storage, bytes, rows) ==
  [as |-> "config", storage |-> storage, maxNodeDataBytes |-> bytes, bufferSize |-> rows]

(* OpenConfig::into_core *)
IntoCore(config, path) ==
  IF BytesRefused(config.maxNodeDataBytes) THEN [as |-> "error", n |-> 100]
  ELSE Opened(Storage(Placed(config.storageDir, path)), Bytes(config.maxNodeDataBytes),
              AsUint32(config.bufferSize))

(* Faulty: ":memory:" is not special, and becomes a directory of that name. *)
StorageOfPathLiteral(path) ==
  CASE path = "absent" -> "memory"
    [] path # "absent" -> path

(* open()'s own copy of the rule, for a path without options. *)
StorageOfPath(path) ==
  CASE path \in {"absent", ":memory:"} -> "memory"
    [] path \notin {"absent", ":memory:"} -> path

(* open() *)
OpenedBy(path, given, config) ==
  IF given THEN IntoCore(config, path) ELSE Opened(StorageOfPath(path), Absent, Absent)

-----------------------------------------------------------------------------
Err(class, number, prefix) ==
  [as |-> "thrown", class |-> class, code |-> number, prefix |-> prefix]

(* coded_error(): the code is a prefix of the message; napi's own has none. *)
CodedError(c) == Err("Error", Uncoded, c)

(* Faulty: the first code of a hundred falls through. *)
ClassForExclusive(c) ==
  CASE c > 100 /\ c <= 199 -> "Connection"
    [] c > 200 /\ c <= 299 -> "Schema"
    [] c > 300 /\ c <= 399 -> "Ingestion"
    [] c > 400 /\ c <= 499 -> "Query"
    [] c > 500 /\ c <= 599 -> "Subscription"
    [] OTHER -> "Internal"

ClassFor(c) ==
  CASE c \in 100..199 -> "Connection"
    [] c \in 200..299 -> "Schema"
    [] c \in 300..399 -> "Ingestion"
    [] c \in 400..499 -> "Query"
    [] c \in 500..599 -> "Subscription"
    [] OTHER -> "Internal"

(* toLaminarError(): the prefix becomes the code and leaves the message. *)
ToLaminarError(e) ==
  LET c == IF e.prefix = Uncoded THEN 900 ELSE e.prefix
  IN Err(ClassFor(c), c, Uncoded)

(* emit_error(): onError gets the code beside the whole message. *)
EmitError(e) == Err("object", IF e.prefix = Uncoded THEN 500 ELSE e.prefix, e.prefix)

Thrown(c, way) ==
  CASE way = "wrapped" -> ToLaminarError(CodedError(c))
    [] way = "onError" -> EmitError(CodedError(c))
    [] way = "bare" -> CodedError(c)

-----------------------------------------------------------------------------
Nothing == [as |-> "nothing"]

(* Another crossing than a cell's leaves Conversion where it begins. *)
Resting ==
  /\ field = [type |-> "Null", nullable |-> TRUE] /\ value = Plain("null")
  /\ stage = "row" /\ slot = Plain("none") /\ answer = Plain("none") /\ code = 0

SeamInit ==
  /\ \/ crossing = Cell /\ Init
     \/ crossing \in Crossings \ {Cell} /\ Resting
  /\ arrived = Nothing

Crosses(what, then) ==
  /\ crossing.what = what /\ arrived = Nothing
  /\ arrived' = then
  /\ UNCHANGED crossing

(* A counter, an id or an epoch is read. *)
Report == Crosses("ident", [as |-> "shown", q |-> Shown(crossing.n)])

(* A number is given as an id or epoch: one that was reported, or any. *)
PassBack ==
  /\ arrived.as = "shown"
  /\ arrived' = [as |-> "u64", n |-> AsU64(AsInt64(arrived.q))]
  /\ UNCHANGED crossing
PassAny == Crosses("number", [as |-> "u64", n |-> AsU64(AsInt64(crossing.q))])

Batch == Crosses("index", BatchAt(crossing.q))
Open == Crosses("open", OpenedBy(crossing.path, crossing.given, crossing.config))
Throw == Crosses("error", Thrown(crossing.code, crossing.way))

SeamNext ==
  \/ crossing = Cell /\ Next /\ UNCHANGED seamVars
  \/ (Report \/ PassBack \/ PassAny \/ Batch \/ Open \/ Throw) /\ UNCHANGED vars

SeamSpec == SeamInit /\ [][SeamNext]_<<vars, seamVars>>

-----------------------------------------------------------------------------
(* Properties *)

(* Besides the types: a u64 is one, and so are the sizes given to open(),    *)
(* whatever number they were.                                                *)
SeamTypeOK ==
  /\ TypeOK
  /\ arrived.as \in {"nothing", "shown", "u64", "batch", "error", "config", "thrown"}
  /\ arrived.as = "u64" => arrived.n \in 0..U64Max
  /\ arrived.as = "config" =>
       /\ arrived.maxNodeDataBytes = Absent \/ arrived.maxNodeDataBytes.num.num \in 0..U64Max
       /\ arrived.bufferSize = Absent \/ arrived.bufferSize.num.num \in 0..U32Max

(* Numbers of the engine never turn negative and never change their order.   *)
(* Up to 2^53 - 1 one that is reported and given back names the same query   *)
(* or epoch; a negative one names none, for the core has not got to u64::MAX.*)
(* A number finds the batch of a result that it counts, cut to a whole one,  *)
(* or none; NaN, which napi takes for 0, finds the first.                    *)
NumbersCross ==
  /\ arrived.as = "shown" =>
       /\ arrived.q.num >= 0
       /\ \A m \in Idents : m <= crossing.n =>
            Shown(m).num * arrived.q.den <= arrived.q.num * Shown(m).den
  /\ arrived.as = "u64" =>
       IF crossing.what = "ident" THEN crossing.n <= MaxSafe => arrived.n = crossing.n
       ELSE IsFinite(crossing.q) /\ Trunc(crossing.q) < 0 => arrived.n = U64Max
  /\ arrived.as = "batch" /\ IsFinite(crossing.q) => arrived.n = Trunc(crossing.q)

(* A database is the same one however it is named: by a path alone, by a     *)
(* path beside options that leave it open, or by storageDir, which wins.     *)
(* open() decides the first by a rule of its own, into_core() the others.    *)
OptionsAgree ==
  arrived.as = "config" =>
    LET dir == crossing.config.storageDir
        name == IF crossing.given /\ dir # "absent" THEN dir ELSE crossing.path
    IN
    /\ arrived.storage = OpenedBy(name, FALSE, NoOptions).storage
    /\ arrived.storage = OpenedBy(name, TRUE, NoOptions).storage
    /\ arrived.storage = OpenedBy("absent", TRUE, [NoOptions EXCEPT !.storageDir = name]).storage

(* The code that an error was raised with can be told where it comes out: as *)
(* the code of an error of the class that README.md:85-92 and errors.ts give *)
(* its hundred, or as the code at onError.  An error without a code never    *)
(* passes for one of the caller's.                                           *)
Documented == <<"Connection", "Schema", "Ingestion", "Query", "Subscription">>
ClassOf(c) == IF c < 600 THEN Documented[c \div 100] ELSE "Internal"
CodesSurvive ==
  /\ arrived.as = "thrown" /\ crossing.way = "wrapped" =>
       /\ arrived.prefix = Uncoded
       /\ crossing.code # Uncoded =>
            arrived.code = crossing.code /\ arrived.class = ClassOf(crossing.code)
       /\ crossing.code = Uncoded => arrived.code = 900 /\ arrived.class = "Internal"
  /\ arrived.as = "thrown" /\ crossing.way = "onError" =>
       arrived.code = IF crossing.code = Uncoded THEN 500 ELSE crossing.code

(* README.md:83 says that every failure throws a LaminarError with a numeric *)
(* code, and error.rs:5-8 that the prefix is internal.  The methods of a     *)
(* batch that nextBatch() resolved to throw the native Error.                *)
EveryFailureIsTyped ==
  arrived.as = "thrown" /\ crossing.way # "onError" =>
    /\ arrived.class # "Error" /\ arrived.code # Uncoded
    /\ arrived.prefix = Uncoded
=============================================================================
