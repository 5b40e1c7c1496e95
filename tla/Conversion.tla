------------------------------ MODULE Conversion ------------------------------
(***************************************************************************)
(* src/conversion.rs: a JavaScript value becomes a slot of an Arrow column *)
(* (rows_to_batch) and a slot becomes a JavaScript value (batch_to_rows).  *)
(*                                                                         *)
(* The widths, the precision of f64 and the time units are parameters, so  *)
(* that every boundary (the ends of the integer types, 2^53 - 1, the range *)
(* of a unit) lies within TLC's reach in their real order:                 *)
(* Date32's days times MsPerDay lie between MaxSafe and I64Max.            *)
(***************************************************************************)
EXTENDS Float

CONSTANTS
  Precision,     \* bits of an f64's significand (53)
  Precision32,   \* bits of an f32's significand (24)
  I8Max, I16Max, I32Max, I64Max,
  MsPerDay, MsPerSecond, MicrosPerMs, NanosPerMs,
  Numbers,       \* JS numbers that are tried, as f64 can hold them
  BigInts        \* JS bigints that are tried

MaxSafe == Pow2[Precision] - 1   \* MAX_SAFE_INTEGER

ASSUME WidthAssumption ==
  /\ {I8Max, I16Max, I32Max, I64Max} \subseteq Nat
  /\ I8Max <= I16Max /\ I16Max <= I32Max /\ I32Max <= I64Max
  /\ {Precision, Precision32} \subseteq Nat \ {0} /\ Precision32 <= Precision
  /\ 2 * I32Max + 1 <= MaxSafe /\ MaxSafe <= I64Max
  /\ Precision <= ExpBelow + 1
  /\ I64Max < Pow2[Precision + ExpAbove]
ASSUME UnitAssumption ==
  {MsPerDay, MsPerSecond, MicrosPerMs, NanosPerMs} \subseteq Nat \ {0}
ASSUME NumberAssumption ==
  /\ Numbers \subseteq [num : Int, den : Nat] /\ BigInts \subseteq Int
  /\ \A q \in Numbers : IsFinite(q) /\ Covered(q, Precision) => SameNumber(Round(q, Precision), q)

Signed == {"Int8", "Int16", "Int32", "Int64"}
Unsigned == {"UInt8", "UInt16", "UInt32", "UInt64"}
Integral == Signed \cup Unsigned
Timestamp == {"Second", "Millisecond", "Microsecond", "Nanosecond"}
Temporal == Timestamp \cup {"Date32", "Date64"}
Floating == {"Float32", "Float64"}
Numeric == Integral \cup Temporal \cup Floating
Types == Numeric \cup {"Boolean", "Utf8", "Null", "Other"}

(* The largest value of the primitive that holds a slot of the type. *)
MaxOf(t) ==
  CASE t = "Int8" -> I8Max
    [] t = "Int16" -> I16Max
    [] t \in {"Int32", "Date32"} -> I32Max
    [] t \in {"Int64", "Date64"} \cup Timestamp -> I64Max
    [] t = "UInt8" -> 2 * I8Max + 1
    [] t = "UInt16" -> 2 * I16Max + 1
    [] t = "UInt32" -> 2 * I32Max + 1
    [] t = "UInt64" -> 2 * I64Max + 1

Width(t) == (IF t \in Unsigned THEN 0 ELSE -MaxOf(t) - 1) .. MaxOf(t)

-----------------------------------------------------------------------------
(* A JavaScript value, a slot and the answer to a read are all a kind and,  *)
(* for the numeric kinds, a number.                                         *)
Item(kind, q) == [kind |-> kind, num |-> q]
Plain(kind) == Item(kind, Whole(0))

JsValues ==
  {Plain(kind) : kind \in {"undefined", "null", "bool", "str", "date", "object"}}
    \cup {Item("num", q) : q \in Numbers}
    \cup {Item("bigint", Whole(n)) : n \in BigInts}

Ok(x) == [code |-> 0, item |-> x]
Fail(code) == [code |-> code, item |-> Plain("none")]

(* cell_from_unknown: a bigint must fit 64 bits, a Date comes as a number.  *)
CellFromUnknown(js) ==
  CASE js.kind \in {"undefined", "null"} -> Ok(Plain("null"))
    [] js.kind \in {"bool", "num", "str"} -> Ok(js)
    [] js.kind = "bigint" ->
         IF js.num.num \in Width("Int64") THEN Ok(js) ELSE Fail(300)
    [] js.kind \in {"date", "object"} -> Fail(300)

Slot(n) == Ok(Item("raw", Whole(n)))

(* The bounds that column_from_cells gives int_in_range: UInt64 ends at     *)
(* i64::MAX, the most that a Cell can carry.                                *)
HighOf(t) == IF t = "UInt64" THEN I64Max ELSE MaxOf(t)
LowOf(t) == IF t \in Unsigned THEN 0 ELSE -MaxOf(t) - 1

(* Faulty: the upper bound is excluded. *)
IntInRangeExclusive(cell, lo, hi) ==
  /\ cell.kind = "bigint" \/ (cell.kind = "num" /\ IsWhole(cell.num))
  /\ cell.kind = "num" => Magnitude(Trunc(cell.num)) <= MaxSafe
  /\ lo <= Trunc(cell.num) /\ Trunc(cell.num) < hi

(* int_in_range: a bigint is exact; a number must be whole and no larger    *)
(* than what f64 holds exactly.                                             *)
IntInRange(cell, lo, hi) ==
  /\ cell.kind = "bigint" \/ (cell.kind = "num" /\ IsWhole(cell.num))
  /\ cell.kind = "num" => Magnitude(Trunc(cell.num)) <= MaxSafe
  /\ lo <= Trunc(cell.num) /\ Trunc(cell.num) <= hi

(* millis_cell: fractions of a millisecond are cut off. *)
IsMillis(cell) ==
  \/ cell.kind = "bigint"
  \/ cell.kind = "num" /\ IsFinite(cell.num) /\ Magnitude(Trunc(cell.num)) <= MaxSafe
Millis(cell) == Trunc(cell.num)

(* Faulty: division rounds towards zero. *)
RawOfTruncating(t, ms) ==
  CASE t = "Date32" -> Trunc(Frac(ms, MsPerDay))
    [] t = "Second" -> Trunc(Frac(ms, MsPerSecond))
    [] t \in {"Date64", "Millisecond"} -> ms
    [] t = "Microsecond" -> ms * MicrosPerMs
    [] t = "Nanosecond" -> ms * NanosPerMs

(* Milliseconds in the column's unit, before the check of its width:       *)
(* div_euclid, which is \div for a positive divisor, or checked_mul.       *)
RawOf(t, ms) ==
  CASE t = "Date32" -> ms \div MsPerDay
    [] t = "Second" -> ms \div MsPerSecond
    [] t \in {"Date64", "Millisecond"} -> ms
    [] t = "Microsecond" -> ms * MicrosPerMs
    [] t = "Nanosecond" -> ms * NanosPerMs

(* Faulty: the width of the column is not checked. *)
TemporalSlotUnchecked(t, cell) ==
  IF IsMillis(cell) THEN Slot(RawOf(t, Millis(cell))) ELSE Fail(300)

TemporalSlot(t, cell) ==
  IF IsMillis(cell) /\ RawOf(t, Millis(cell)) \in Width(t)
    THEN Slot(RawOf(t, Millis(cell))) ELSE Fail(300)

(* numeric_cell: what an f64 makes of the cell, what an f32 makes of that. *)
FloatOf(t, q) ==
  IF t = "Float32" THEN Round(Round(q, Precision), Precision32) ELSE Round(q, Precision)

(* column_from_cells *)
SlotFromCell(t, cell) ==
  CASE t = "Other" -> Fail(900)
    [] t # "Other" /\ cell.kind = "null" -> Ok(Plain("null"))
    [] t \in Integral /\ cell.kind # "null" ->
         IF IntInRange(cell, LowOf(t), HighOf(t)) THEN Slot(Trunc(cell.num)) ELSE Fail(300)
    [] t \in Temporal /\ cell.kind # "null" -> TemporalSlot(t, cell)
    [] t \in Floating /\ cell.kind # "null" ->
         IF cell.kind \in {"num", "bigint"}
           THEN Ok(Item("raw", FloatOf(t, cell.num))) ELSE Fail(300)
    [] t \in {"Boolean", "Utf8", "Null"} /\ cell.kind # "null" ->
         IF <<t, cell.kind>> \in {<<"Boolean", "bool">>, <<"Utf8", "str">>}
           THEN Ok(cell) ELSE Fail(300)

(* rows_to_batch for one cell: null in a non-nullable column is found when  *)
(* the row is extracted, before any column is built.                        *)
Written(field, js) ==
  LET cell == CellFromUnknown(js)
  IN CASE cell.code # 0 -> cell
       [] cell.code = 0 /\ cell.item.kind = "null" /\ ~field.nullable -> Fail(300)
       [] cell.code = 0 /\ (cell.item.kind = "null" => field.nullable) ->
            SlotFromCell(field.type, cell.item)

-----------------------------------------------------------------------------
(* Faulty: seconds are handed out as they are. *)
MillisOfUnscaled(t, raw) ==
  CASE t = "Date32" -> Round(Times(raw, MsPerDay), Precision)
    [] t \in {"Date64", "Millisecond", "Second"} -> Round(raw, Precision)
    [] t = "Microsecond" -> Round(Over(Round(raw, Precision), MicrosPerMs), Precision)
    [] t = "Nanosecond" -> Round(Over(Round(raw, Precision), NanosPerMs), Precision)

(* A temporal slot in milliseconds.  Date32 is scaled as an i64; the other  *)
(* units become f64 first and are scaled, and rounded again, after that.    *)
MillisOf(t, raw) ==
  CASE t = "Date32" -> Round(Times(raw, MsPerDay), Precision)
    [] t \in {"Date64", "Millisecond"} -> Round(raw, Precision)
    [] t = "Second" -> Round(Times(Round(raw, Precision), MsPerSecond), Precision)
    [] t = "Microsecond" -> Round(Over(Round(raw, Precision), MicrosPerMs), Precision)
    [] t = "Nanosecond" -> Round(Over(Round(raw, Precision), NanosPerMs), Precision)

(* cell_from_array.  is_null() comes before the type, so a null is read even *)
(* from a column of an unsupported type.  A NullArray has no validity        *)
(* bitmap: is_null() is false for its slots and they end in the last arm.    *)
Answer(t, slot) ==
  CASE t # "Null" /\ slot.kind = "null" -> Ok(Plain("null"))
    [] t = "Null" \/ (t = "Other" /\ slot.kind # "null") -> Fail(900)
    [] t = "Int64" /\ slot.kind = "raw" -> Ok(Item("bigint", slot.num))
    [] t = "UInt64" /\ slot.kind = "raw" ->
         Ok(Item("bigint", IF slot.num.num <= I64Max THEN slot.num ELSE Whole(I64Max)))
    [] t \in (Integral \ {"Int64", "UInt64"}) \cup Floating /\ slot.kind = "raw" ->
         Ok(Item("num", Round(slot.num, Precision)))
    [] t \in Temporal /\ slot.kind = "raw" -> Ok(Item("num", MillisOf(t, slot.num)))
    [] t \in {"Boolean", "Utf8"} /\ slot.kind \in {"bool", "str"} -> Ok(slot)

-----------------------------------------------------------------------------
VARIABLES
  field,   \* the column's type and whether it is nullable
  value,   \* the JavaScript value, or "engine" for a slot the engine made
  slot,    \* what the column holds
  answer,  \* what the read gave
  code,    \* the code of the error, 0 for none
  stage    \* "row", "array", "read", "rejected" or "unreadable"

vars == <<field, value, slot, answer, code, stage>>

Fields == [type : Types, nullable : BOOLEAN]

(* What the engine may put into a column, a null being for a nullable one. *)
EngineSlots(t) ==
  {Plain("null")} \cup
  CASE t \in Integral \cup Temporal -> {Item("raw", Whole(n)) : n \in Width(t)}
    [] t \in Floating -> {Item("raw", Round(q, Precision32)) : q \in Numbers}
    [] t = "Boolean" -> {Plain("bool")}
    [] t = "Utf8" -> {Plain("str")}
    [] t = "Other" -> {Plain("opaque")}
    [] t = "Null" -> {}

Init ==
  /\ field \in Fields
  /\ \/ stage = "row" /\ value \in JsValues /\ slot = Plain("none")
     \/ /\ stage = "array" /\ value = Plain("engine") /\ slot \in EngineSlots(field.type)
        /\ slot.kind = "null" => field.nullable
  /\ answer = Plain("none")
  /\ code = 0

(* rows_to_batch *)
RowsToBatch ==
  /\ stage = "row"
  /\ LET w == Written(field, value)
     IN /\ slot' = w.item
        /\ code' = w.code
        /\ stage' = IF w.code = 0 THEN "array" ELSE "rejected"
  /\ UNCHANGED <<field, value, answer>>

(* batch_to_rows *)
BatchToRows ==
  /\ stage = "array"
  /\ LET r == Answer(field.type, slot)
     IN /\ answer' = r.item
        /\ code' = r.code
        /\ stage' = IF r.code = 0 THEN "read" ELSE "unreadable"
  /\ UNCHANGED <<field, value, slot>>

Next == RowsToBatch \/ BatchToRows

Spec == Init /\ [][Next]_vars

-----------------------------------------------------------------------------
(* Properties *)

(* Every slot fits the primitive that holds it: no cast and no               *)
(* multiplication wraps.                                                     *)
TypeOK ==
  /\ field \in Fields
  /\ stage \in {"row", "array", "read", "rejected", "unreadable"}
  /\ code \in {0, 300, 900}
  /\ field.type \in Integral \cup Temporal /\ slot.kind = "raw" =>
       slot.num.den = 1 /\ slot.num.num \in Width(field.type)

Accepted == value.kind # "engine" /\ stage \in {"array", "read", "unreadable"}

(* What a slot of an integral or temporal column says: the number itself,   *)
(* or the unit of time that the millisecond lies in.                        *)
Denotes(t, raw, q) ==
  CASE t \in Integral -> SameNumber(Whole(raw), q)
    [] t = "Date32" -> raw * MsPerDay <= Trunc(q) /\ Trunc(q) < (raw + 1) * MsPerDay
    [] t = "Second" -> raw * MsPerSecond <= Trunc(q) /\ Trunc(q) < (raw + 1) * MsPerSecond
    [] t \in {"Date64", "Millisecond"} -> raw = Trunc(q)
    [] t = "Microsecond" -> raw = Trunc(q) * MicrosPerMs
    [] t = "Nanosecond" -> raw = Trunc(q) * NanosPerMs

(* A value is stored as it is or not at all: it is never clamped, wrapped,   *)
(* rounded to a neighbour or put on the wrong side of the epoch.             *)
StoredFaithfully ==
  Accepted /\ slot.kind = "raw" /\ field.type \in Integral \cup Temporal =>
    Denotes(field.type, slot.num.num, value.num)

(* And it is rejected only when it must be: a value that a Cell can carry    *)
(* exactly is refused only by a column that has no slot for it.              *)
Exact(js) ==
  \/ js.kind = "bigint" /\ js.num.num \in Width("Int64")
  \/ js.kind = "num" /\ IsFinite(js.num) /\ Magnitude(Trunc(js.num)) <= MaxSafe
RejectedForCause ==
  stage = "rejected" /\ field.type \in Integral \cup Temporal /\ Exact(value) =>
    ~\E raw \in Width(field.type) : Denotes(field.type, raw, value.num)

(* What was written is read back: integers exactly, instants to the         *)
(* millisecond (or to the coarser unit of the column) as long as the slot   *)
(* is a number that f64 holds exactly, and in a column of floats whatever   *)
(* the float can hold.  Nulls are read as nulls, and nothing else is; what  *)
(* was accepted can be read, and so can a null whatever its column's type,  *)
(* but for a column of type Null.                                           *)
UnitOf(t) == CASE t = "Date32" -> MsPerDay [] t = "Second" -> MsPerSecond [] OTHER -> 1
Floored(t, q) == Whole((Trunc(q) \div UnitOf(t)) * UnitOf(t))
Held(t, js) ==
  /\ IsFinite(js.num) /\ Covered(js.num, Precision) /\ Covered(js.num, Precision32)
  /\ js.kind = "bigint" => Magnitude(js.num.num) <= MaxSafe
  /\ t = "Float32" => SameNumber(Round(js.num, Precision32), js.num)
NumbersReadBack ==
  Accepted /\ stage = "read" /\ slot.kind = "raw" =>
    /\ field.type \in Integral => SameNumber(answer.num, value.num)
    /\ field.type \in Temporal
         /\ Magnitude(slot.num.num) <= MaxSafe
         /\ Magnitude(Floored(field.type, value.num).num) <= MaxSafe =>
         SameNumber(answer.num, Floored(field.type, value.num))
    /\ field.type \in Floating /\ Held(field.type, value) =>
         SameNumber(answer.num, value.num)
NullsReadBack ==
  /\ stage = "read" => (answer.kind = "null" <=> slot.kind = "null")
  /\ stage = "unreadable" /\ (Accepted \/ slot.kind = "null") => field.type = "Null"
ReadBack == NumbersReadBack /\ NullsReadBack

(* docs/reviews/phase1-2026-09-02.md:19 says that reading a UInt64 above     *)
(* i64::MAX rejects with code 900.  It is clamped to i64::MAX.               *)
LargeUInt64IsRefused ==
  stage = "read" /\ field.type = "UInt64" => SameNumber(answer.num, slot.num)

(* README.md:49-50 says that Date-like columns read as epoch milliseconds.   *)
(* A whole number of milliseconds written to a nanosecond column comes back  *)
(* with a fraction when the slot exceeds what f64 holds exactly: the slot is *)
(* rounded before it is divided.                                             *)
WholeMillisReadBackWhole ==
  Accepted /\ stage = "read" /\ field.type = "Nanosecond" /\ slot.kind = "raw"
    /\ value.kind = "num" /\ IsWhole(value.num) =>
      IsWhole(answer.num)
=============================================================================
