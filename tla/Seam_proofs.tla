------------------------------- MODULE Seam_proofs -------------------------------
(***************************************************************************)
(* Proofs about the native seam: the cells of Conversion, whose steps Seam *)
(* takes for a crossing of a cell, and the numbers, options and errors.    *)
(***************************************************************************)
EXTENDS Seam, Numbers_proofs

(* The kinds of JavaScript values, and what a Cell is made of each.          *)
LEMMA JsKinds ==
  ASSUME NEW js \in JsValues
  PROVE  /\ \/ js.kind \in {"undefined", "null", "bool", "str", "date", "object"}
            \/ js.kind = "num" /\ js.num \in Numbers
            \/ js.kind = "bigint" /\ \E n \in Int : js.num = Whole(n)
         /\ js = [kind |-> js.kind, num |-> js.num]
BY NumberAssumption DEF JsValues, Item, Plain

(* A JavaScript number is a fraction; a finite one has a denominator.        *)
LEMMA JsNumber ==
  ASSUME NEW js \in JsValues, js.kind \in {"num", "bigint"}, IsFinite(js.num)
  PROVE  js.num \in Rational
<1>1. CASE js.kind = "num"
  <2>1. js.num \in [num : Int, den : Nat]
    BY <1>1, JsKinds, NumberAssumption
  <2> QED
    BY <2>1 DEF IsFinite, Rational
<1>2. CASE js.kind = "bigint"
  <2>1. PICK n \in Int : js.num = Whole(n)
    BY <1>2, JsKinds
  <2> QED
    BY <2>1 DEF Whole, Frac, Rational
<1> QED
  BY <1>1, <1>2

LEMMA NumberIsRational == \A q \in Numbers : IsFinite(q) => q \in Rational
BY NumberAssumption DEF IsFinite, Rational

(* A number that is cut to a whole one is an integer.                        *)
LEMMA TruncType == \A q \in Rational : Trunc(q) \in Int
<1> SUFFICES ASSUME NEW q \in Rational PROVE Trunc(q) \in Int
  OBVIOUS
<1>1. q.num \in Int /\ q.den \in Nat \ {0} /\ -q.num \in Int
  BY DEF Rational
<1> QED
  BY <1>1, Division DEF Trunc

(* A whole number is not changed by cutting it.                              *)
LEMMA WholeIsCut ==
  ASSUME NEW q \in Rational, IsWhole(q)
  PROVE  q.num = Trunc(q) * q.den
<1>1. q.num \in Int /\ q.den \in Nat \ {0} /\ q.num % q.den = 0
  BY DEF Rational, IsWhole
<1>2. q.num \div q.den \in Int /\ q.num = (q.num \div q.den) * q.den
  <2> DEFINE k == q.num \div q.den
  <2>1. k \in Int /\ q.num = (k * q.den) + (q.num % q.den)
    BY <1>1, Division
  <2>2. k * q.den \in Int
    BY <1>1, <2>1
  <2> HIDE DEF k
  <2> QED
    BY <1>1, <2>1, <2>2 DEF k
<1>3. Trunc(q) = q.num \div q.den
  BY <1>2, TruncWhole
<1> QED
  BY <1>2, <1>3

(* A quotient rounded down is the one number whose span holds the dividend.  *)
LEMMA DivisionSpan ==
  \A a, k \in Int, d \in Nat \ {0} : (k * d <= a /\ a < (k + 1) * d) <=> k = a \div d
<1> SUFFICES ASSUME NEW a \in Int, NEW k \in Int, NEW d \in Nat \ {0}
             PROVE  (k * d <= a /\ a < (k + 1) * d) <=> k = a \div d
  OBVIOUS
<1> DEFINE c == a \div d
<1>1. c \in Int /\ c * d <= a /\ a < (c + 1) * d
  <2>1. a \div d \in Int /\ a % d \in Int /\ 0 <= a % d /\ a % d < d /\ a = ((a \div d) * d) + (a % d)
    BY Division
  <2>2. ((a \div d) + 1) * d = ((a \div d) * d) + d
    BY <2>1
  <2> QED
    BY <2>1, <2>2
<1> HIDE DEF c
<1>2. ASSUME k * d <= a, a < (k + 1) * d PROVE k = c
  <2>1. k * d < (c + 1) * d /\ c * d < (k + 1) * d
    BY <1>1, <1>2
  <2>2. k < c + 1 /\ c < k + 1
    BY <1>1, <2>1, ProductOrder
  <2> QED
    BY <1>1, <2>2
<1> QED
  BY <1>1, <1>2 DEF c

-----------------------------------------------------------------------------
(* Widths of the columns.                                                    *)
LEMMA MaxOfType ==
  \A t \in Integral \cup Temporal :
    /\ MaxOf(t) \in Nat /\ MaxOf(t) <= 2 * I64Max + 1
    /\ t \notin {"UInt64"} => MaxOf(t) <= I64Max
    /\ t \in Integral \ {"Int64", "UInt64"} => MaxOf(t) <= 2 * I32Max + 1
    /\ t \in Signed \ {"Int64"} => MaxOf(t) <= I32Max
<1>1. I8Max \in Nat /\ I16Max \in Nat /\ I32Max \in Nat /\ I64Max \in Nat
      /\ I8Max <= I16Max /\ I16Max <= I32Max /\ 2 * I32Max + 1 <= I64Max
  <2>1. Precision \in Nat /\ Pow2[Precision] \in Nat
    BY WidthAssumption, Pow2Pos
  <2> QED
    BY <2>1, WidthAssumption DEF MaxSafe
<1>2. \A t \in Signed \cup Unsigned \cup Timestamp \cup {"Date32", "Date64"} :
        MaxOf(t) = CASE t = "Int8" -> I8Max
                     [] t = "Int16" -> I16Max
                     [] t \in {"Int32", "Date32"} -> I32Max
                     [] t \in {"Int64", "Date64", "Second", "Millisecond", "Microsecond", "Nanosecond"} -> I64Max
                     [] t = "UInt8" -> 2 * I8Max + 1
                     [] t = "UInt16" -> 2 * I16Max + 1
                     [] t = "UInt32" -> 2 * I32Max + 1
                     [] t = "UInt64" -> 2 * I64Max + 1
  BY DEF MaxOf, Timestamp
<1> QED
  BY <1>1, <1>2 DEF Integral, Temporal, Signed, Unsigned, Timestamp

-----------------------------------------------------------------------------
(* What a column of a type may hold. *)
SlotOf(t, s) ==
  \/ s.kind = "null"
  \/ /\ t \in Numeric /\ s.kind = "raw"
     /\ t \in Integral \cup Temporal => s.num.den = 1 /\ s.num.num \in Width(t)
  \/ t = "Boolean" /\ s.kind = "bool"
  \/ t = "Utf8" /\ s.kind = "str"
  \/ t = "Other" /\ s.kind = "opaque"

(* A slot of a type that rows can be made for. *)
Writable(t, s) == SlotOf(t, s) /\ t # "Other"

(* column_from_cells for the integral types: the bounds that it gives        *)
(* int_in_range lie within the column's primitive.                           *)
LEMMA BoundsInWidth ==
  \A t \in Integral : \A n \in Int : LowOf(t) <= n /\ n <= HighOf(t) => n \in Width(t)
<1> SUFFICES ASSUME NEW t \in Integral, NEW n \in Int, LowOf(t) <= n, n <= HighOf(t)
             PROVE  n \in Width(t)
  OBVIOUS
<1>1. MaxOf(t) \in Nat /\ I64Max \in Nat
  BY MaxOfType, WidthAssumption DEF Temporal
<1>2. HighOf(t) <= MaxOf(t)
  <2>1. CASE t = "UInt64"
    <3>1. MaxOf(t) = 2 * I64Max + 1
      BY <2>1 DEF MaxOf, Timestamp
    <3> QED
      BY <1>1, <2>1, <3>1 DEF HighOf
  <2>2. CASE t # "UInt64"
    BY <1>1, <2>2 DEF HighOf
  <2> QED
    BY <2>1, <2>2
<1>3. HighOf(t) \in Int
  BY <1>1, WidthAssumption DEF HighOf
<1>4. n <= MaxOf(t)
  BY <1>1, <1>2, <1>3
<1> QED
  BY <1>1, <1>4 DEF Width, LowOf

(* rows_to_batch of a number: null, missing and wrong kinds are settled      *)
(* before; a number goes to the column as it is, a bigint if it has 64 bits. *)
Carried(js) == js.kind = "num" \/ (js.kind = "bigint" /\ js.num.num \in Width("Int64"))

LEMMA WrittenCarried ==
  ASSUME NEW f \in Fields, NEW js \in JsValues, Carried(js)
  PROVE  Written(f, js) = SlotFromCell(f.type, js)
<1>1. CellFromUnknown(js) = [code |-> 0, item |-> js]
  BY DEF Carried, CellFromUnknown, Ok
<1>2. js.kind # "null"
  BY DEF Carried
<1> QED
  BY <1>1, <1>2 DEF Written

(* Any other value is refused, or leaves a null or a plain slot.             *)
LEMMA WrittenOther ==
  ASSUME NEW f \in Fields, NEW js \in JsValues, ~Carried(js)
  PROVE  LET w == Written(f, js)
         IN  /\ w.code \in {0, 300, 900}
             /\ w.item.kind # "raw"
             /\ w.code = 0 => Writable(f.type, w.item)
<1>0. Plain("none").kind = "none" /\ Plain("null").kind = "null"
  BY DEF Plain, Item
<1>1. CASE js.kind \in {"undefined", "null"}
  <2>1. CellFromUnknown(js) = [code |-> 0, item |-> Plain("null")] /\ Plain("null").kind = "null"
    BY <1>1 DEF CellFromUnknown, Ok, Plain, Item
  <2>2. f.nullable \in BOOLEAN
    BY DEF Fields
  <2>3. Written(f, js) \in {[code |-> 300, item |-> Plain("none")], SlotFromCell(f.type, Plain("null"))}
    BY <2>1, <2>2 DEF Written, Fail
  <2>4. SlotFromCell(f.type, Plain("null")) =
          IF f.type = "Other" THEN [code |-> 900, item |-> Plain("none")]
          ELSE [code |-> 0, item |-> Plain("null")]
    BY <2>1 DEF SlotFromCell, Fail, Ok
  <2> QED
    BY <1>0, <2>3, <2>4 DEF Writable, SlotOf
<1>2. CASE js.kind \in {"bool", "str"}
  <2>1. Written(f, js) = SlotFromCell(f.type, js)
    <3>1. CellFromUnknown(js) = [code |-> 0, item |-> js]
      BY <1>2 DEF CellFromUnknown, Ok
    <3> QED
      BY <1>2, <3>1 DEF Written
  <2>2. f.type \in Types
    BY DEF Fields
  <2>3. CASE f.type = "Other"
    BY <1>0, <1>2, <2>1, <2>3 DEF SlotFromCell, Fail, Integral, Signed, Unsigned, Temporal, Timestamp,
       Floating
  <2>4. CASE f.type \in Numeric
    <3>1. ~IntInRange(js, LowOf(f.type), HighOf(f.type)) /\ ~IsMillis(js)
      BY <1>2 DEF IntInRange, IsMillis
    <3>2. SlotFromCell(f.type, js) = [code |-> 300, item |-> Plain("none")]
      BY <1>2, <2>4, <3>1 DEF SlotFromCell, Fail, TemporalSlot, Numeric, Integral, Signed, Unsigned,
         Temporal, Timestamp, Floating
    <3> QED
      BY <1>0, <2>1, <3>2
  <2>5. CASE f.type \in {"Boolean", "Utf8", "Null"}
    BY <1>0, <1>2, <2>1, <2>5 DEF SlotFromCell, Fail, Ok, Writable, SlotOf, Integral, Signed,
       Unsigned, Temporal, Timestamp, Floating
  <2> QED
    BY <2>2, <2>3, <2>4, <2>5 DEF Types
<1>3. CASE js.kind \in {"date", "object"} \/ (js.kind = "bigint" /\ js.num.num \notin Width("Int64"))
  <2>1. CellFromUnknown(js) = [code |-> 300, item |-> Plain("none")]
    BY <1>3 DEF CellFromUnknown, Fail
  <2> QED
    BY <1>0, <2>1 DEF Written
<1> QED
  BY <1>1, <1>2, <1>3, JsKinds DEF Carried

(* column_from_cells of a number, type by type.                              *)
LEMMA IntegralSlot ==
  ASSUME NEW t \in Integral, NEW js \in JsValues, Carried(js)
  PROVE  SlotFromCell(t, js) =
           IF IntInRange(js, LowOf(t), HighOf(t)) THEN Slot(Trunc(js.num)) ELSE Fail(300)
<1>1. t # "Other" /\ t \notin Temporal \cup Floating \cup {"Boolean", "Utf8", "Null"}
  BY DEF Integral, Signed, Unsigned, Temporal, Timestamp, Floating
<1>2. js.kind # "null"
  BY DEF Carried
<1> QED
  BY <1>1, <1>2 DEF SlotFromCell

LEMMA TemporalSlots ==
  ASSUME NEW t \in Temporal, NEW js \in JsValues, Carried(js)
  PROVE  SlotFromCell(t, js) = TemporalSlot(t, js)
<1>1. t # "Other" /\ t \notin Integral \cup Floating \cup {"Boolean", "Utf8", "Null"}
  BY DEF Integral, Signed, Unsigned, Temporal, Timestamp, Floating
<1>2. js.kind # "null"
  BY DEF Carried
<1> QED
  BY <1>1, <1>2 DEF SlotFromCell

(* The units of time: what a millisecond is in the column's unit is the one  *)
(* slot that denotes it.                                                     *)
LEMMA UnitDenotes ==
  ASSUME NEW t \in Temporal, NEW q \in Rational, NEW raw \in Int
  PROVE  Denotes(t, raw, q) <=> raw = RawOf(t, Trunc(q))
<1>1. Trunc(q) \in Int
  BY TruncType
<1>2. MsPerDay \in Nat \ {0} /\ MsPerSecond \in Nat \ {0}
  BY UnitAssumption
<1>3. t \notin Integral
  BY DEF Integral, Signed, Unsigned, Temporal, Timestamp
<1>4. CASE t = "Date32"
  <2>1. Denotes(t, raw, q) <=> (raw * MsPerDay <= Trunc(q) /\ Trunc(q) < (raw + 1) * MsPerDay)
    BY <1>3, <1>4 DEF Denotes
  <2>2. RawOf(t, Trunc(q)) = Trunc(q) \div MsPerDay
    BY <1>4 DEF RawOf
  <2> QED
    BY <1>1, <1>2, <2>1, <2>2, DivisionSpan
<1>5. CASE t = "Second"
  <2>1. Denotes(t, raw, q) <=> (raw * MsPerSecond <= Trunc(q) /\ Trunc(q) < (raw + 1) * MsPerSecond)
    BY <1>3, <1>5 DEF Denotes
  <2>2. RawOf(t, Trunc(q)) = Trunc(q) \div MsPerSecond
    BY <1>5 DEF RawOf
  <2> QED
    BY <1>1, <1>2, <2>1, <2>2, DivisionSpan
<1>6. CASE t \in {"Date64", "Millisecond", "Microsecond", "Nanosecond"}
  BY <1>3, <1>6 DEF Denotes, RawOf
<1> QED
  BY <1>4, <1>5, <1>6 DEF Temporal, Timestamp

LEMMA RawOfType ==
  ASSUME NEW t \in Temporal, NEW ms \in Int
  PROVE  RawOf(t, ms) \in Int
<1>1. {MsPerDay, MsPerSecond, MicrosPerMs, NanosPerMs} \subseteq Nat \ {0}
  BY UnitAssumption
<1>2. ms \div MsPerDay \in Int /\ ms \div MsPerSecond \in Int
  BY <1>1, Division
<1>3. ms * MicrosPerMs \in Int /\ ms * NanosPerMs \in Int
  BY <1>1
<1> QED
  BY <1>2, <1>3 DEF RawOf, Temporal, Timestamp

(* A number that int_in_range or millis_cell takes is finite.                *)
LEMMA TakenIsRational ==
  ASSUME NEW js \in JsValues, Carried(js),
         js.kind = "num" => IsFinite(js.num)
  PROVE  js.num \in Rational
<1>1. js.kind \in {"num", "bigint"}
  BY DEF Carried
<1>2. IsFinite(js.num)
  <2>1. CASE js.kind = "bigint"
    <3>1. PICK n \in Int : js.num = Whole(n)
      BY <2>1, JsKinds
    <3> QED
      BY <3>1 DEF Whole, Frac, IsFinite
  <2> QED
    BY <1>1, <2>1
<1> QED
  BY <1>1, <1>2, JsNumber

(* A bigint is whole.                                                        *)
LEMMA BigIntIsWhole ==
  ASSUME NEW js \in JsValues, js.kind = "bigint"
  PROVE  IsWhole(js.num) /\ js.num \in Rational /\ js.num.num = Trunc(js.num)
<1>1. PICK n \in Int : js.num = Whole(n)
  BY JsKinds
<1>2. js.num \in Rational /\ js.num.num = n /\ js.num.den = 1
  BY <1>1 DEF Whole, Frac, Rational
<1>3. \A k \in Int : k % 1 = 0 /\ k = k * 1
  OBVIOUS
<1>4. IsWhole(js.num)
  BY <1>2, <1>3 DEF IsWhole, IsFinite
<1>5. Trunc(js.num) = n
  BY <1>2, <1>3, TruncWhole
<1> QED
  BY <1>2, <1>4, <1>5

(* What a column of integers stores is the number itself.                    *)
LEMMA IntegralStored ==
  ASSUME NEW t \in Integral, NEW js \in JsValues, Carried(js), SlotFromCell(t, js).code = 0
  PROVE  LET s == SlotFromCell(t, js).item
         IN  /\ js.num \in Rational
             /\ s = [kind |-> "raw", num |-> Whole(Trunc(js.num))]
             /\ Trunc(js.num) \in Int /\ LowOf(t) <= Trunc(js.num) /\ Trunc(js.num) <= HighOf(t)
             /\ js.num.num = Trunc(js.num) * js.num.den
<1>1. IntInRange(js, LowOf(t), HighOf(t))
  BY IntegralSlot DEF Fail
<1>2. SlotFromCell(t, js) = [code |-> 0, item |-> [kind |-> "raw", num |-> Whole(Trunc(js.num))]]
  BY <1>1, IntegralSlot DEF Slot, Ok, Item
<1>3. js.kind = "num" => IsFinite(js.num)
  BY <1>1 DEF IntInRange, IsWhole
<1>4. js.num \in Rational
  BY <1>3, TakenIsRational
<1>5. IsWhole(js.num)
  BY <1>1, BigIntIsWhole DEF IntInRange
<1>6. Trunc(js.num) \in Int /\ js.num.num = Trunc(js.num) * js.num.den
  BY <1>4, <1>5, TruncType, WholeIsCut
<1> QED
  BY <1>1, <1>2, <1>4, <1>6 DEF IntInRange

(* What a column of instants stores is the unit that the millisecond is in.  *)
LEMMA TemporalStored ==
  ASSUME NEW t \in Temporal, NEW js \in JsValues, Carried(js), SlotFromCell(t, js).code = 0
  PROVE  LET s == SlotFromCell(t, js).item
             raw == RawOf(t, Trunc(js.num))
         IN  /\ js.num \in Rational /\ Trunc(js.num) \in Int
             /\ s = [kind |-> "raw", num |-> Whole(raw)]
             /\ raw \in Int /\ raw \in Width(t)
<1>1. IsMillis(js) /\ RawOf(t, Millis(js)) \in Width(t)
  BY TemporalSlots DEF TemporalSlot, Fail
<1>2. SlotFromCell(t, js) = [code |-> 0, item |-> [kind |-> "raw", num |-> Whole(RawOf(t, Trunc(js.num)))]]
  BY <1>1, TemporalSlots DEF TemporalSlot, Slot, Ok, Item, Millis
<1>3. js.num \in Rational
  BY <1>1, TakenIsRational DEF IsMillis
<1>4. Trunc(js.num) \in Int
  BY <1>3, TruncType
<1>5. RawOf(t, Trunc(js.num)) \in Int
  BY <1>4, RawOfType
<1> QED
  BY <1>1, <1>2, <1>3, <1>4, <1>5 DEF Millis

(* rows_to_batch never leaves a slot that its column cannot hold.            *)
LEMMA WrittenFits ==
  ASSUME NEW f \in Fields, NEW js \in JsValues
  PROVE  LET w == Written(f, js)
         IN  /\ w.code \in {0, 300, 900}
             /\ w.code # 0 => w.item.kind # "raw"
             /\ w.code = 0 => Writable(f.type, w.item)
<1>0. /\ Plain("none").kind = "none" /\ f.type \in Types
      /\ "Other" \notin Numeric
  BY DEF Plain, Item, Fields, Numeric, Integral, Signed, Unsigned, Temporal, Timestamp, Floating
<1> DEFINE w == Written(f, js)
<1>1. CASE ~Carried(js)
  BY <1>1, WrittenOther
<1>2. CASE Carried(js)
  <2>1. w = SlotFromCell(f.type, js) /\ js.kind \in {"num", "bigint"}
    BY <1>2, WrittenCarried DEF Carried
  <2>2. CASE f.type \in Integral
    <3>1. CASE w.code = 0
      <4>1. w.item = [kind |-> "raw", num |-> Whole(Trunc(js.num))] /\ Trunc(js.num) \in Width(f.type)
        BY <1>2, <2>1, <2>2, <3>1, IntegralStored, BoundsInWidth
      <4> QED
        BY <1>0, <2>2, <3>1, <4>1 DEF Writable, SlotOf, Numeric, Whole, Frac
    <3>2. CASE w.code # 0
      <4>1. w = [code |-> 300, item |-> Plain("none")]
        BY <1>2, <2>1, <2>2, <3>2, IntegralSlot DEF Slot, Ok, Fail
      <4> QED
        BY <1>0, <4>1
    <3> QED
      BY <3>1, <3>2
  <2>3. CASE f.type \in Temporal
    <3>1. CASE w.code = 0
      <4> DEFINE raw == RawOf(f.type, Trunc(js.num))
      <4>1. w.item = [kind |-> "raw", num |-> Whole(raw)] /\ raw \in Width(f.type)
        BY <1>2, <2>1, <2>3, <3>1, TemporalStored
      <4> QED
        BY <1>0, <2>3, <3>1, <4>1 DEF Writable, SlotOf, Numeric, Whole, Frac
    <3>2. CASE w.code # 0
      <4>1. w = [code |-> 300, item |-> Plain("none")]
        BY <1>2, <2>1, <2>3, <3>2, TemporalSlots DEF TemporalSlot, Slot, Ok, Fail
      <4> QED
        BY <1>0, <4>1
    <3> QED
      BY <3>1, <3>2
  <2>4. CASE f.type \in Floating
    <3>1. w = [code |-> 0, item |-> [kind |-> "raw", num |-> FloatOf(f.type, js.num)]]
      BY <2>1, <2>4 DEF SlotFromCell, Ok, Item, Integral, Signed, Unsigned, Temporal, Timestamp,
         Floating
    <3>2. f.type \notin Integral \cup Temporal
      BY <2>4 DEF Integral, Signed, Unsigned, Temporal, Timestamp, Floating
    <3> QED
      BY <1>0, <2>4, <3>1, <3>2 DEF Writable, SlotOf, Numeric
  <2>5. CASE f.type \in {"Boolean", "Utf8", "Null"}
    <3>1. w = [code |-> 300, item |-> Plain("none")]
      BY <2>1, <2>5 DEF SlotFromCell, Fail, Integral, Signed, Unsigned, Temporal, Timestamp,
         Floating
    <3> QED
      BY <1>0, <3>1
  <2>6. CASE f.type = "Other"
    <3>1. w = [code |-> 900, item |-> Plain("none")]
      BY <2>1, <2>6 DEF SlotFromCell, Fail, Integral, Signed, Unsigned, Temporal, Timestamp,
         Floating
    <3> QED
      BY <1>0, <3>1
  <2> QED
    BY <1>0, <2>2, <2>3, <2>4, <2>5, <2>6 DEF Types, Numeric
<1> QED
  BY <1>1, <1>2

(* Nor does the engine; batch_to_rows answers, or refuses with code 900.     *)
LEMMA EngineFits == \A t \in Types : \A s \in EngineSlots(t) : SlotOf(t, s)
<1> SUFFICES ASSUME NEW t \in Types, NEW s \in EngineSlots(t) PROVE SlotOf(t, s)
  OBVIOUS
<1>0. CASE s = Plain("null")
  BY <1>0 DEF SlotOf, Plain, Item
<1>1. CASE t \in Integral \cup Temporal /\ s # Plain("null")
  <2>0. t \notin Floating \cup {"Boolean", "Utf8", "Null", "Other"}
    BY <1>1 DEF Integral, Signed, Unsigned, Temporal, Timestamp, Floating
  <2>1. PICK n \in Width(t) : s = Item("raw", Whole(n))
    BY <1>1, <2>0 DEF EngineSlots
  <2> QED
    BY <1>1, <2>1 DEF SlotOf, Item, Whole, Frac, Numeric
<1>2. CASE t \in Floating /\ s # Plain("null")
  <2>1. t \notin Integral \cup Temporal
    BY <1>2 DEF Integral, Signed, Unsigned, Temporal, Timestamp, Floating
  <2>2. s.kind = "raw"
    BY <1>2, <2>1 DEF EngineSlots, Item, Floating
  <2> QED
    BY <1>2, <2>1, <2>2 DEF SlotOf, Numeric
<1>3. CASE t \in {"Boolean", "Utf8", "Null", "Other"} /\ s # Plain("null")
  BY <1>3 DEF EngineSlots, SlotOf, Plain, Item, Integral, Signed, Unsigned, Temporal, Timestamp,
     Floating
<1> QED
  BY <1>0, <1>1, <1>2, <1>3 DEF Types, Numeric

(* A null, and nothing else, answers null; what can be written can be read.  *)
LEMMA AnswerKind ==
  ASSUME NEW t \in Types, NEW s, SlotOf(t, s)
  PROVE  /\ Answer(t, s).code \in {0, 900}
         /\ Answer(t, s).code = 0 => (Answer(t, s).item.kind = "null" <=> s.kind = "null")
         /\ t # "Null" /\ (t # "Other" \/ s.kind = "null") => Answer(t, s).code = 0
<1>0. t \in Numeric => t \notin {"Boolean", "Utf8", "Null", "Other"}
  BY DEF Numeric, Integral, Signed, Unsigned, Temporal, Timestamp, Floating
<1>1. CASE t = "Null"
  <2>1. t \notin Integral \cup Temporal \cup Floating
    BY <1>0, <1>1 DEF Numeric
  <2>2. Answer(t, s) = Fail(900)
    BY <1>1, <2>1 DEF Answer
  <2> QED
    BY <1>1, <2>2 DEF Fail
<1>2. CASE t # "Null" /\ s.kind = "null"
  BY <1>2 DEF Answer, Ok, Plain, Item
<1>3. CASE t = "Other" /\ s.kind # "null"
  <2>1. t \notin Integral \cup Temporal \cup Floating
    BY <1>0, <1>3 DEF Numeric
  <2>2. Answer(t, s) = Fail(900)
    BY <1>3, <2>1 DEF Answer
  <2> QED
    BY <1>3, <2>2 DEF Fail
<1>4. CASE t \in Numeric /\ s.kind # "null"
  <2>1. s.kind = "raw"
    BY <1>0, <1>4 DEF SlotOf
  <2>2. \E kind \in {"bigint", "num"} : \E q : Answer(t, s) = Ok(Item(kind, q))
    <3>1. CASE t \in Integral
      <4>1. t \notin Temporal \cup Floating
        BY <3>1 DEF Integral, Signed, Unsigned, Temporal, Timestamp, Floating
      <4> QED
        BY <1>0, <1>4, <2>1, <3>1, <4>1 DEF Answer
    <3>2. CASE t \in Temporal
      <4>1. t \notin Integral \cup Floating /\ t # "Int64" /\ t # "UInt64"
        BY <3>2 DEF Integral, Signed, Unsigned, Temporal, Timestamp, Floating
      <4> QED
        BY <1>0, <1>4, <2>1, <3>2, <4>1 DEF Answer
    <3>3. CASE t \in Floating
      <4>1. t \notin Integral \cup Temporal /\ t # "Int64" /\ t # "UInt64"
        BY <3>3 DEF Integral, Signed, Unsigned, Temporal, Timestamp, Floating
      <4> QED
        BY <1>0, <1>4, <2>1, <3>3, <4>1 DEF Answer
    <3> QED
      BY <1>4, <3>1, <3>2, <3>3 DEF Numeric
  <2> QED
    BY <1>0, <1>4, <2>2 DEF Ok, Item
<1>5. CASE t \in {"Boolean", "Utf8"} /\ s.kind # "null"
  <2>1. s.kind \in {"bool", "str"} /\ t \notin Integral \cup Temporal \cup Floating
    BY <1>0, <1>5 DEF SlotOf, Numeric
  <2>2. t # "Int64" /\ t # "UInt64"
    BY <1>5
  <2>3. Answer(t, s) = Ok(s)
    BY <1>5, <2>1, <2>2 DEF Answer
  <2> QED
    BY <1>5, <2>3 DEF Ok
<1> QED
  BY <1>1, <1>2, <1>3, <1>4, <1>5 DEF Types

-----------------------------------------------------------------------------
(* The stages of a cell follow from the field and the value: what a step     *)
(* has stored is what rows_to_batch and batch_to_rows compute.               *)
CellStages ==
  /\ field \in Fields
  /\ value \in JsValues \cup {Plain("engine")}
  /\ stage \in {"row", "array", "read", "rejected", "unreadable"}
  /\ code \in {0, 300, 900}
WrittenFromRow ==
  value.kind # "engine" =>
    IF stage = "row" THEN slot.kind = "none"
    ELSE /\ slot = Written(field, value).item
         /\ stage = "rejected" <=> Written(field, value).code # 0
FromEngine ==
  value.kind = "engine" => stage \notin {"row", "rejected"} /\ SlotOf(field.type, slot)
ReadFromSlot ==
  LET r == Answer(field.type, slot)
  IN  /\ stage = "read" => r.code = 0 /\ answer = r.item
      /\ stage = "unreadable" => r.code # 0

CellInv == CellStages /\ WrittenFromRow /\ FromEngine /\ ReadFromSlot

LEMMA EngineIsNoRow == Plain("engine").kind = "engine" /\ \A js \in JsValues : js.kind # "engine"
<1>1. \A js \in JsValues : js.kind # "engine"
  BY JsKinds
<1> QED
  BY <1>1 DEF Plain, Item

LEMMA CellInit == Init => CellInv
<1> SUFFICES ASSUME Init PROVE CellInv
  OBVIOUS
<1>1. CASE stage = "row" /\ value \in JsValues /\ slot = Plain("none")
  <2>1. value.kind # "engine" /\ slot.kind = "none"
    BY <1>1, EngineIsNoRow DEF Plain, Item
  <2> QED
    BY <1>1, <2>1 DEF Init, CellInv, CellStages, WrittenFromRow, FromEngine, ReadFromSlot
<1>2. CASE stage = "array" /\ value = Plain("engine") /\ slot \in EngineSlots(field.type)
  <2>1. value.kind = "engine" /\ SlotOf(field.type, slot)
    BY <1>2, EngineIsNoRow, EngineFits DEF Init, Fields
  <2> QED
    BY <1>2, <2>1 DEF Init, CellInv, CellStages, WrittenFromRow, FromEngine, ReadFromSlot
<1> QED
  BY <1>1, <1>2 DEF Init

LEMMA CellStep == CellInv /\ [Next]_vars => CellInv'
<1> SUFFICES ASSUME CellInv, [Next]_vars PROVE CellInv'
  OBVIOUS
<1>1. field.type \in Types
  BY DEF CellInv, CellStages, Fields
<1>2. CASE RowsToBatch
  <2> DEFINE w == Written(field, value)
  <2>1. stage = "row" /\ slot' = w.item /\ code' = w.code
        /\ stage' = (IF w.code = 0 THEN "array" ELSE "rejected")
        /\ field' = field /\ value' = value
    BY <1>2 DEF RowsToBatch
  <2>2. value.kind # "engine"
    BY <2>1 DEF CellInv, FromEngine
  <2>3. value \in JsValues
    BY <2>2, EngineIsNoRow DEF CellInv, CellStages
  <2>4. w.code \in {0, 300, 900}
    BY <2>3, WrittenFits DEF CellInv, CellStages
  <2>5. CellStages' /\ FromEngine' /\ ReadFromSlot'
    BY <2>1, <2>2, <2>4 DEF CellInv, CellStages, FromEngine, ReadFromSlot
  <2>6. WrittenFromRow'
    <3>1. stage' # "row" /\ (stage' = "rejected" <=> w.code # 0)
      BY <2>1
    <3>2. Written(field, value)' = w
      BY <2>1
    <3> QED
      BY <2>1, <3>1, <3>2 DEF WrittenFromRow
  <2> QED
    BY <2>5, <2>6 DEF CellInv
<1>3. CASE BatchToRows
  <2> DEFINE r == Answer(field.type, slot)
  <2>1. stage = "array" /\ answer' = r.item /\ code' = r.code
        /\ stage' = (IF r.code = 0 THEN "read" ELSE "unreadable")
        /\ field' = field /\ value' = value /\ slot' = slot
    BY <1>3 DEF BatchToRows
  <2>2. SlotOf(field.type, slot)
    <3>1. CASE value.kind = "engine"
      BY <3>1 DEF CellInv, FromEngine
    <3>2. CASE value.kind # "engine"
      <4>1. value \in JsValues /\ field \in Fields
        BY <3>2, EngineIsNoRow DEF CellInv, CellStages
      <4>2. slot = Written(field, value).item /\ Written(field, value).code = 0
        BY <2>1, <3>2 DEF CellInv, WrittenFromRow
      <4> QED
        BY <4>1, <4>2, WrittenFits DEF Writable
    <3> QED
      BY <3>1, <3>2
  <2>3. r.code \in {0, 900}
    BY <1>1, <2>2, AnswerKind
  <2>4. CellStages' /\ FromEngine'
    BY <2>1, <2>2, <2>3 DEF CellInv, CellStages, FromEngine
  <2>5. ReadFromSlot'
    BY <2>1 DEF ReadFromSlot
  <2>6. WrittenFromRow'
    <3>1. stage' \notin {"row", "rejected"}
      BY <2>1
    <3>2. Written(field, value)' = Written(field, value)
      BY <2>1
    <3> QED
      BY <2>1, <3>1, <3>2 DEF CellInv, WrittenFromRow
  <2> QED
    BY <2>4, <2>5, <2>6 DEF CellInv
<1>4. CASE UNCHANGED vars
  BY <1>4 DEF vars, CellInv, CellStages, WrittenFromRow, FromEngine, ReadFromSlot
<1> QED
  BY <1>2, <1>3, <1>4 DEF Next

-----------------------------------------------------------------------------
(* What the stages say of the properties.                                    *)
LEMMA CellTypes == CellInv => TypeOK
<1> SUFFICES ASSUME CellInv PROVE TypeOK
  OBVIOUS
<1>1. slot.kind = "raw" => SlotOf(field.type, slot)
  <2> SUFFICES ASSUME slot.kind = "raw" PROVE SlotOf(field.type, slot)
    OBVIOUS
  <2>1. CASE value.kind = "engine"
    BY <2>1 DEF CellInv, FromEngine
  <2>2. CASE value.kind # "engine"
    <3>1. value \in JsValues /\ field \in Fields
      BY <2>2, EngineIsNoRow DEF CellInv, CellStages
    <3>2. slot = Written(field, value).item
      BY <2>2 DEF CellInv, WrittenFromRow
    <3> QED
      BY <3>1, <3>2, WrittenFits DEF Writable
  <2> QED
    BY <2>1, <2>2
<1> QED
  BY <1>1 DEF TypeOK, CellInv, CellStages, SlotOf

(* The accepted value of a numeric column was a number or a 64-bit bigint.   *)
LEMMA AcceptedIsCarried ==
  ASSUME CellInv, Accepted, slot.kind = "raw"
  PROVE  /\ value \in JsValues /\ field \in Fields /\ Carried(value)
         /\ SlotFromCell(field.type, value).code = 0
         /\ slot = SlotFromCell(field.type, value).item
<1>1. value \in JsValues /\ field \in Fields
  BY EngineIsNoRow DEF CellInv, CellStages, Accepted
<1>2. slot = Written(field, value).item /\ Written(field, value).code = 0
  BY DEF CellInv, WrittenFromRow, Accepted
<1>3. Carried(value)
  BY <1>1, <1>2, WrittenOther
<1> QED
  BY <1>1, <1>2, <1>3, WrittenCarried

LEMMA CellsStored == CellInv => StoredFaithfully
<1> SUFFICES ASSUME CellInv, Accepted, slot.kind = "raw", field.type \in Integral \cup Temporal
             PROVE  Denotes(field.type, slot.num.num, value.num)
  BY DEF StoredFaithfully
<1> DEFINE t == field.type
           q == value.num
<1>1. /\ value \in JsValues /\ Carried(value)
      /\ SlotFromCell(t, value).code = 0 /\ slot = SlotFromCell(t, value).item
  BY AcceptedIsCarried
<1>2. CASE t \in Integral
  <2>1. /\ q \in Rational /\ slot = [kind |-> "raw", num |-> Whole(Trunc(q))]
        /\ Trunc(q) \in Int /\ q.num = Trunc(q) * q.den
    BY <1>1, <1>2, IntegralStored
  <2>2. q.den \in Nat \ {0} /\ q.num \in Int
    BY <2>1 DEF Rational
  <2>3. slot.num = [num |-> Trunc(q), den |-> 1]
    BY <2>1 DEF Whole, Frac
  <2>4. Whole(Trunc(q)) = [num |-> Trunc(q), den |-> 1]
    BY DEF Whole, Frac
  <2>5. SameNumber(Whole(Trunc(q)), q)
    <3> HIDE DEF q
    <3>1. q.num * 1 = q.num
      BY <2>2
    <3> QED
      BY <2>1, <2>2, <2>4, <3>1 DEF SameNumber, IsFinite
  <2>6. t \notin {"Date32", "Second", "Date64", "Millisecond", "Microsecond", "Nanosecond"}
    BY <1>2 DEF Integral, Signed, Unsigned
  <2>7. slot.num.num = Trunc(q)
    BY <2>3
  <2>8. Denotes(t, Trunc(q), q)
    <3> HIDE DEF t, q
    <3> QED
      BY <1>2, <2>5, <2>6 DEF Denotes
  <2> QED
    BY <2>7, <2>8
<1>3. CASE t \in Temporal
  <2>1. /\ q \in Rational /\ slot = [kind |-> "raw", num |-> Whole(RawOf(t, Trunc(q)))]
        /\ RawOf(t, Trunc(q)) \in Int
    BY <1>1, <1>3, TemporalStored
  <2>2. slot.num.num = RawOf(t, Trunc(q))
    BY <2>1 DEF Whole, Frac
  <2> QED
    BY <1>3, <2>1, <2>2, UnitDenotes
<1> QED
  BY <1>2, <1>3

(* A number whose slot exists is taken by the column.                        *)
LEMMA ExactIsTaken ==
  ASSUME NEW t \in Integral \cup Temporal, NEW js \in JsValues, Exact(js),
         NEW raw \in Width(t), Denotes(t, raw, js.num)
  PROVE  Carried(js) /\ SlotFromCell(t, js).code = 0
<1> DEFINE q == js.num
<1>1. Carried(js) /\ js.kind \in {"num", "bigint"}
  BY DEF Exact, Carried
<1>2. q \in Rational
  BY <1>1, TakenIsRational DEF Exact
<1>3. q.num \in Int /\ q.den \in Nat \ {0} /\ Trunc(q) \in Int
  BY <1>2, TruncType DEF Rational
<1>4. raw \in Int /\ -MaxOf(t) - 1 <= raw /\ raw <= MaxOf(t) /\ (t \in Unsigned => raw >= 0)
  <2>1. MaxOf(t) \in Nat
    BY MaxOfType
  <2> QED
    BY <2>1 DEF Width
<1>5. js.kind = "bigint" => Trunc(q) \in Width("Int64")
  <2>1. js.kind = "bigint" => js.num.num \in Width("Int64")
    BY DEF Exact
  <2> QED
    BY <2>1, BigIntIsWhole
<1>6. Trunc(q) <= I64Max
  <2>1. MaxOf("Int64") = I64Max /\ I64Max \in Nat
    BY WidthAssumption DEF MaxOf, Timestamp
  <2>2. CASE js.kind = "bigint"
    BY <1>3, <1>5, <2>1, <2>2 DEF Width
  <2>3. CASE js.kind = "num"
    <3>1. MaxSafe <= I64Max /\ MaxSafe \in Int
      <4>1. Precision \in Nat /\ Pow2[Precision] \in Nat
        BY WidthAssumption, Pow2Pos
      <4> QED
        BY <4>1, WidthAssumption DEF MaxSafe
    <3>2. Magnitude(Trunc(q)) <= MaxSafe
      BY <2>3 DEF Exact
    <3> QED
      BY <1>3, <2>1, <3>1, <3>2 DEF Magnitude
  <2> QED
    BY <1>1, <2>2, <2>3
<1>7. CASE t \in Integral
  <2>1. raw * q.den = q.num
    <3>1. SameNumber(Whole(raw), q)
      BY <1>7 DEF Denotes, Integral, Signed, Unsigned
    <3>2. Whole(raw) = [num |-> raw, den |-> 1] /\ q.num * 1 = q.num
      BY <1>3 DEF Whole, Frac
    <3> QED
      BY <3>1, <3>2 DEF SameNumber
  <2>2. Trunc(q) = raw /\ IsWhole(q)
    <3>1. q.num % q.den = 0
      BY <1>3, <1>4, <2>1, DivisionOfMultiple
    <3> QED
      BY <1>2, <1>3, <1>4, <2>1, <3>1, TruncWhole DEF IsWhole, IsFinite
  <2>3. LowOf(t) <= raw /\ raw <= HighOf(t)
    BY <1>4, <1>6, <2>2 DEF LowOf, HighOf
  <2>4. IntInRange(js, LowOf(t), HighOf(t))
    BY <1>1, <2>2, <2>3 DEF IntInRange, Exact
  <2>5. SlotFromCell(t, js).code = 0
    BY <1>1, <1>7, <2>4, IntegralSlot DEF Slot, Ok
  <2> QED
    BY <1>1, <2>5
<1>8. CASE t \in Temporal
  <2>1. raw = RawOf(t, Trunc(q))
    BY <1>2, <1>4, <1>8, UnitDenotes
  <2>2. IsMillis(js)
    BY <1>1 DEF IsMillis, Exact
  <2>3. SlotFromCell(t, js).code = 0
    BY <1>1, <1>8, <2>1, <2>2, TemporalSlots DEF TemporalSlot, Millis, Slot, Ok
  <2> QED
    BY <1>1, <2>3
<1> QED
  BY <1>7, <1>8

LEMMA CellsRejected == CellInv => RejectedForCause
<1> SUFFICES ASSUME CellInv, stage = "rejected", field.type \in Integral \cup Temporal, Exact(value),
                    NEW raw \in Width(field.type), Denotes(field.type, raw, value.num)
             PROVE  FALSE
  BY DEF RejectedForCause
<1>1. value.kind # "engine"
  BY DEF Exact
<1>2. value \in JsValues /\ field \in Fields
  BY <1>1, EngineIsNoRow DEF CellInv, CellStages
<1>3. Written(field, value).code # 0
  BY <1>1 DEF CellInv, WrittenFromRow
<1> QED
  BY <1>2, <1>3, ExactIsTaken, WrittenCarried

(* Fractions of the same whole number are the same number.                   *)
LEMMA SameWhole ==
  ASSUME NEW q \in Rational, NEW r \in Rational, NEW n \in Int,
         q.num = n * q.den, r.num = n * r.den
  PROVE  SameNumber(q, r)
<1>1. q.den \in Nat \ {0} /\ r.den \in Nat \ {0}
  BY DEF Rational
<1>2. q.num * r.den = r.num * q.den
  BY <1>1
<1> QED
  BY <1>1, <1>2 DEF SameNumber, IsFinite

(* What f64 holds exactly. *)
LEMMA ExactF64 ==
  ASSUME NEW q \in Rational, NEW n \in Int, q.num = n * q.den, Magnitude(n) <= MaxSafe
  PROVE  LET r == Round(q, Precision) IN r \in Rational /\ r.num = n * r.den
<1>1. Precision \in Nat \ {0} /\ Precision <= ExpBelow + 1
  BY WidthAssumption
<1>2. Pow2[Precision] \in Nat
  BY <1>1, Pow2Pos
<1>3. Magnitude(n) < Pow2[Precision]
  BY <1>2 DEF Magnitude, MaxSafe
<1> QED
  BY <1>1, <1>3, ExactRound

LEMMA WholeFraction == \A n \in Int : Whole(n) \in Rational /\ Whole(n).num = n * Whole(n).den
<1>1. \A n \in Int : n * 1 = n
  OBVIOUS
<1> QED
  BY <1>1 DEF Whole, Frac, Rational

(* cell_from_array of an integer that rows_to_batch has stored.              *)
LEMMA IntegralAnswer ==
  ASSUME NEW t \in Integral, NEW n \in Int, LowOf(t) <= n, n <= HighOf(t)
  PROVE  LET a == Answer(t, [kind |-> "raw", num |-> Whole(n)]).item.num
         IN  a \in Rational /\ a.num = n * a.den
<1> DEFINE s == [kind |-> "raw", num |-> Whole(n)]
<1>1. t \notin Temporal \cup Floating \cup {"Boolean", "Utf8", "Null", "Other"}
  BY DEF Integral, Signed, Unsigned, Temporal, Timestamp, Floating
<1>2. CASE t = "Int64"
  <2>1. Answer(t, s).item.num = Whole(n)
    BY <1>1, <1>2 DEF Answer, Ok, Item
  <2> QED
    BY <2>1, WholeFraction
<1>3. CASE t = "UInt64"
  <2>1. s.num.num = n /\ n <= I64Max
    BY <1>3 DEF HighOf, Whole, Frac
  <2>2. Answer(t, s).item.num = Whole(n)
    BY <1>1, <1>3, <2>1 DEF Answer, Ok, Item
  <2> QED
    BY <2>2, WholeFraction
<1>4. CASE t \notin {"Int64", "UInt64"}
  <2>1. Answer(t, s).item.num = Round(Whole(n), Precision)
    BY <1>1, <1>4 DEF Answer, Ok, Item
  <2>2. Magnitude(n) <= MaxSafe
    <3>1. /\ MaxOf(t) \in Nat /\ MaxOf(t) <= 2 * I32Max + 1
          /\ t \in Signed => MaxOf(t) <= I32Max
      BY <1>4, MaxOfType
    <3>2. n <= MaxOf(t) /\ (IF t \in Unsigned THEN 0 ELSE -MaxOf(t) - 1) <= n
      BY <1>4 DEF LowOf, HighOf
    <3>3. 2 * I32Max + 1 <= MaxSafe /\ I32Max \in Nat /\ MaxSafe \in Int
      <4>1. Precision \in Nat /\ Pow2[Precision] \in Nat
        BY WidthAssumption, Pow2Pos
      <4> QED
        BY <4>1, WidthAssumption DEF MaxSafe
    <3>4. CASE t \in Unsigned
      BY <3>1, <3>2, <3>3, <3>4 DEF Magnitude
    <3>5. CASE t \in Signed
      <4>1. t \notin Unsigned
        BY <3>5 DEF Signed, Unsigned
      <4> QED
        BY <3>1, <3>2, <3>3, <3>5, <4>1 DEF Magnitude
    <3> QED
      BY <3>4, <3>5 DEF Integral
  <2> QED
    BY <2>1, <2>2, WholeFraction, ExactF64
<1> QED
  BY <1>2, <1>3, <1>4

(* cell_from_array of an instant: the unit of the column in milliseconds,    *)
(* exactly, as long as f64 holds both the slot and the milliseconds.         *)
LEMMA TemporalAnswer ==
  ASSUME NEW t \in Temporal, NEW q \in Rational,
         Magnitude(RawOf(t, Trunc(q))) <= MaxSafe, Magnitude(Floored(t, q).num) <= MaxSafe
  PROVE  LET a == Answer(t, [kind |-> "raw", num |-> Whole(RawOf(t, Trunc(q)))]).item.num
         IN  a \in Rational /\ a.num = Floored(t, q).num * a.den
<1> DEFINE raw == RawOf(t, Trunc(q))
           ms == Trunc(q)
           f == Round(Whole(raw), Precision)
           a == Answer(t, [kind |-> "raw", num |-> Whole(raw)]).item.num
<1>1. ms \in Int /\ raw \in Int
  BY TruncType, RawOfType
<1>2. a = MillisOf(t, Whole(raw))
  <2>1. t \notin Integral \cup Floating \cup {"Boolean", "Utf8", "Null", "Other"}
    BY DEF Integral, Signed, Unsigned, Temporal, Timestamp, Floating
  <2> QED
    BY <2>1 DEF Answer, Ok, Item
<1>3. MsPerDay \in Nat \ {0} /\ MsPerSecond \in Nat \ {0} /\ MicrosPerMs \in Nat \ {0}
      /\ NanosPerMs \in Nat \ {0}
  BY UnitAssumption
<1>4. Magnitude(Floored(t, q).num) <= MaxSafe /\ Magnitude(raw) <= MaxSafe
  OBVIOUS
<1>5. f \in Rational /\ f.num = raw * f.den
  <2> HIDE DEF raw
  <2> QED
    BY <1>1, <1>4, WholeFraction, ExactF64
<1>6. f.num \in Int /\ f.den \in Nat \ {0}
  BY <1>5 DEF Rational
<1> HIDE DEF f
<1>7. CASE t = "Date32"
  <2>1. raw = ms \div MsPerDay /\ Floored(t, q).num = raw * MsPerDay
    BY <1>7 DEF RawOf, Floored, UnitOf, Whole, Frac
  <2>2. a = Round(Times(Whole(raw), MsPerDay), Precision)
    BY <1>2, <1>7 DEF MillisOf
  <2>3. LET x == Times(Whole(raw), MsPerDay) IN x \in Rational /\ x.num = (raw * MsPerDay) * x.den
    BY <1>1, <1>3 DEF Times, Whole, Frac, Rational
  <2>4. raw * MsPerDay \in Int
    BY <1>1, <1>3
  <2> HIDE DEF a, raw, ms
  <2>5. a \in Rational /\ a.num = (raw * MsPerDay) * a.den
    BY <1>4, <2>1, <2>2, <2>3, <2>4, ExactF64
  <2> QED
    BY <2>1, <2>5 DEF a, raw, ms
<1>8. CASE t \in {"Date64", "Millisecond"}
  <2>1. raw = ms /\ Floored(t, q).num = ms
    <3>1. raw = ms
      BY <1>8 DEF RawOf
    <3>2. Floored(t, q).num = (ms \div 1) * 1
      BY <1>8 DEF Floored, UnitOf, Whole, Frac
    <3>3. \A k \in Int : (k \div 1) * 1 = k
      OBVIOUS
    <3> QED
      BY <1>1, <3>1, <3>2, <3>3
  <2>2. a = f
    BY <1>2, <1>8 DEF MillisOf, f
  <2> QED
    BY <1>5, <2>1, <2>2
<1>9. CASE t = "Second"
  <2>1. raw = ms \div MsPerSecond /\ Floored(t, q).num = raw * MsPerSecond
    BY <1>9 DEF RawOf, Floored, UnitOf, Whole, Frac
  <2>2. a = Round(Times(f, MsPerSecond), Precision)
    BY <1>2, <1>9 DEF MillisOf, f
  <2>3. LET x == Times(f, MsPerSecond) IN x \in Rational /\ x.num = (raw * MsPerSecond) * x.den
    <3>1. f.num * MsPerSecond \in Int /\ f.num * MsPerSecond = (raw * MsPerSecond) * f.den
      <4> HIDE DEF raw
      <4> QED
        BY <1>1, <1>3, <1>5, <1>6
    <3> QED
      BY <1>6, <3>1 DEF Times, Frac, Rational
  <2>4. raw * MsPerSecond \in Int
    BY <1>1, <1>3
  <2> HIDE DEF a, raw, ms
  <2>5. a \in Rational /\ a.num = (raw * MsPerSecond) * a.den
    BY <1>4, <2>1, <2>2, <2>3, <2>4, ExactF64
  <2> QED
    BY <2>1, <2>5 DEF a, raw, ms
<1>10. ASSUME NEW u \in Nat \ {0}, raw = ms * u, a = Round(Over(f, u), Precision),
              Floored(t, q).num = (ms \div 1) * 1
       PROVE  a \in Rational /\ a.num = Floored(t, q).num * a.den
  <2>1. Floored(t, q).num = ms
    <3>1. \A k \in Int : (k \div 1) * 1 = k
      OBVIOUS
    <3> QED
      BY <1>1, <1>10, <3>1
  <2>2. LET x == Over(f, u) IN x \in Rational /\ x.num = ms * x.den
    <3> HIDE DEF raw, ms
    <3>1. f.num = ms * (f.den * u) /\ f.den * u \in Nat \ {0}
      BY <1>1, <1>5, <1>6, <1>10
    <3> QED
      BY <1>6, <3>1 DEF Over, Frac, Rational
  <2> HIDE DEF a, raw, ms
  <2>3. a \in Rational /\ a.num = ms * a.den
    BY <1>1, <1>4, <1>10, <2>1, <2>2, ExactF64
  <2> QED
    BY <2>1, <2>3
<1>11. CASE t = "Microsecond"
  <2>1. raw = ms * MicrosPerMs /\ a = Round(Over(f, MicrosPerMs), Precision)
    BY <1>2, <1>11 DEF RawOf, MillisOf, f
  <2>2. Floored(t, q).num = (ms \div 1) * 1
    BY <1>11 DEF Floored, UnitOf, Whole, Frac
  <2> HIDE DEF a, raw, ms
  <2> QED
    BY <1>3, <1>10, <2>1, <2>2 DEF a, raw, ms
<1>12. CASE t = "Nanosecond"
  <2>1. raw = ms * NanosPerMs /\ a = Round(Over(f, NanosPerMs), Precision)
    BY <1>2, <1>12 DEF RawOf, MillisOf, f
  <2>2. Floored(t, q).num = (ms \div 1) * 1
    BY <1>12 DEF Floored, UnitOf, Whole, Frac
  <2> HIDE DEF a, raw, ms
  <2> QED
    BY <1>3, <1>10, <2>1, <2>2 DEF a, raw, ms
<1> QED
  BY <1>7, <1>8, <1>9, <1>11, <1>12 DEF Temporal, Timestamp

(* numeric_cell and what cell_from_array makes of its slot.                  *)
LEMMA FloatingSlot ==
  ASSUME NEW t \in Floating, NEW js, Carried(js),
         SlotFromCell(t, js).code = 0, SlotFromCell(t, js).item.kind = "raw"
  PROVE  /\ SlotFromCell(t, js).item = [kind |-> "raw", num |-> FloatOf(t, js.num)]
         /\ js.kind \in {"num", "bigint"}
<1>1. /\ t # "Other" /\ t \notin Integral /\ t \notin Temporal
      /\ t \notin {"Boolean", "Utf8", "Null"}
  BY DEF Floating, Integral, Signed, Unsigned, Temporal, Timestamp
<1>2. js.kind # "null"
  BY <1>1 DEF SlotFromCell, Ok, Plain, Item
<1>3. SlotFromCell(t, js) =
        IF js.kind \in {"num", "bigint"} THEN Ok(Item("raw", FloatOf(t, js.num))) ELSE Fail(300)
  BY <1>1, <1>2 DEF SlotFromCell
<1>4. Fail(300).code = 300
  BY DEF Fail
<1>5. js.kind \in {"num", "bigint"}
  BY <1>3, <1>4
<1> QED
  BY <1>3, <1>5 DEF Ok, Item

LEMMA FloatingAnswer ==
  ASSUME NEW t \in Floating, NEW s, s.kind = "raw"
  PROVE  Answer(t, s).item.num = Round(s.num, Precision)
<1>1. /\ t \notin {"Null", "Other"} /\ t # "Int64" /\ t # "UInt64"
      /\ t \notin Temporal /\ t \notin {"Boolean", "Utf8"}
  BY DEF Floating, Temporal, Timestamp
<1>2. Answer(t, s) = Ok(Item("num", Round(s.num, Precision)))
  BY <1>1 DEF Answer
<1> QED
  BY <1>2 DEF Ok, Item

(* What a float can hold is a number that an f64 holds already: one of the   *)
(* JavaScript numbers, or a bigint of no more than 53 bits.                  *)
LEMMA HeldIsExact ==
  ASSUME NEW t \in Floating, NEW js \in JsValues, js.kind \in {"num", "bigint"}, Held(t, js)
  PROVE  /\ js.num \in Rational
         /\ Covered(js.num, Precision) /\ Covered(js.num, Precision32)
         /\ SameNumber(Round(js.num, Precision), js.num)
<1>1. CASE js.kind = "num"
  <2>1. js.num \in Numbers
    BY <1>1, JsKinds
  <2> QED
    BY <2>1, NumberAssumption, NumberIsRational DEF Held
<1>2. CASE js.kind = "bigint"
  <2>1. PICK n \in Int : js.num = Whole(n)
    BY <1>2, JsKinds
  <2>2. Magnitude(n) <= MaxSafe
    BY <1>2, <2>1 DEF Held, Whole, Frac
  <2>3. Round(Whole(n), Precision) \in Rational /\ SameNumber(Round(Whole(n), Precision), Whole(n))
    <3>1. /\ Round(Whole(n), Precision) \in Rational
          /\ Round(Whole(n), Precision).num = n * Round(Whole(n), Precision).den
      BY <2>2, ExactF64, WholeFraction
    <3> QED
      BY <3>1, WholeFraction, SameWhole
  <2> QED
    BY <2>1, <2>3, WholeFraction DEF Held
<1> QED
  BY <1>1, <1>2

(* Rounding a number to what already holds it changes nothing, however often *)
(* it is done and in whichever order.                                        *)
LEMMA FloatHeld ==
  ASSUME NEW t \in Floating, NEW js \in JsValues, js.kind \in {"num", "bigint"}, Held(t, js)
  PROVE  SameNumber(Round(FloatOf(t, js.num), Precision), js.num)
<1> DEFINE q == js.num
           a == Round(q, Precision)
           b == Round(a, Precision32)
<1>1. /\ q \in Rational /\ SameNumber(a, q)
      /\ Covered(q, Precision) /\ Covered(q, Precision32)
  BY HeldIsExact
<1>2. /\ Precision \in Nat \ {0} /\ Precision32 \in Nat \ {0}
  BY WidthAssumption
<1>3. a \in Rational /\ SameNumber(q, a)
  BY <1>1, <1>2, RoundSame, SameItself, SameSymmetric
<1>4. ASSUME NEW r \in Rational, SameNumber(q, r) PROVE SameNumber(Round(r, Precision), q)
  <2>1. Round(r, Precision) \in Rational /\ SameNumber(a, Round(r, Precision))
    BY <1>1, <1>2, <1>4, RoundSame
  <2>2. SameNumber(Round(r, Precision), a)
    BY <2>1, SameSymmetric
  <2> QED
    BY <1>1, <1>3, <2>1, <2>2, SameTransitive
<1>5. CASE t = "Float64"
  BY <1>3, <1>4, <1>5 DEF FloatOf
<1>6. CASE t = "Float32"
  <2>1. b \in Rational /\ Round(q, Precision32) \in Rational /\ SameNumber(Round(q, Precision32), b)
    BY <1>1, <1>2, <1>3, RoundSame
  <2>2. SameNumber(q, Round(q, Precision32))
    BY <1>6, SameSymmetric DEF Held
  <2>3. SameNumber(q, b)
    BY <1>1, <2>1, <2>2, SameTransitive
  <2> QED
    BY <1>4, <1>6, <2>1, <2>3 DEF FloatOf
<1> QED
  BY <1>5, <1>6 DEF Floating

LEMMA CellsReadNumbers == CellInv => NumbersReadBack
<1> SUFFICES ASSUME CellInv, Accepted, stage = "read", slot.kind = "raw"
             PROVE  /\ field.type \in Integral => SameNumber(answer.num, value.num)
                    /\ field.type \in Temporal
                         /\ Magnitude(slot.num.num) <= MaxSafe
                         /\ Magnitude(Floored(field.type, value.num).num) <= MaxSafe =>
                         SameNumber(answer.num, Floored(field.type, value.num))
                    /\ field.type \in Floating /\ Held(field.type, value) =>
                         SameNumber(answer.num, value.num)
  BY DEF NumbersReadBack
<1> DEFINE t == field.type
           q == value.num
<1>1. /\ value \in JsValues /\ Carried(value)
      /\ SlotFromCell(t, value).code = 0 /\ slot = SlotFromCell(t, value).item
  BY AcceptedIsCarried
<1>2. answer = Answer(t, slot).item
  BY DEF CellInv, ReadFromSlot
<1>3. ASSUME t \in Integral PROVE SameNumber(answer.num, q)
  <2> DEFINE n == Trunc(q)
  <2>1. /\ q \in Rational /\ slot = [kind |-> "raw", num |-> Whole(n)]
        /\ n \in Int /\ LowOf(t) <= n /\ n <= HighOf(t) /\ q.num = n * q.den
    BY <1>1, <1>3, IntegralStored
  <2> HIDE DEF n
  <2>2. answer.num \in Rational /\ answer.num.num = n * answer.num.den
    BY <1>2, <1>3, <2>1, IntegralAnswer
  <2> QED
    BY <2>1, <2>2, SameWhole
<1>4. ASSUME t \in Temporal, Magnitude(slot.num.num) <= MaxSafe,
             Magnitude(Floored(t, q).num) <= MaxSafe
      PROVE  SameNumber(answer.num, Floored(t, q))
  <2>1. /\ q \in Rational /\ slot = [kind |-> "raw", num |-> Whole(RawOf(t, Trunc(q)))]
        /\ Trunc(q) \in Int
    BY <1>1, <1>4, TemporalStored
  <2>2. slot.num.num = RawOf(t, Trunc(q))
    BY <2>1 DEF Whole, Frac
  <2>3. Magnitude(RawOf(t, Trunc(q))) <= MaxSafe
    BY <1>4, <2>2
  <2>4. answer.num \in Rational /\ answer.num.num = Floored(t, q).num * answer.num.den
    BY <1>2, <1>4, <2>1, <2>3, TemporalAnswer
  <2>5. \E k \in Int : Floored(t, q) = Whole(k)
    <3>1. UnitOf(t) \in Nat \ {0}
      BY UnitAssumption DEF UnitOf
    <3>2. (Trunc(q) \div UnitOf(t)) * UnitOf(t) \in Int
      <4>1. Trunc(q) \div UnitOf(t) \in Int
        BY <2>1, <3>1, Division
      <4> QED
        BY <3>1, <4>1
    <3> QED
      BY <3>2 DEF Floored
  <2>6. PICK k \in Int : Floored(t, q) = Whole(k)
    BY <2>5
  <2>7. Whole(k) \in Rational /\ Whole(k).num = k /\ Whole(k).num = k * Whole(k).den
    BY WholeFraction DEF Whole, Frac
  <2> QED
    BY <2>4, <2>6, <2>7, SameWhole
<1>5. ASSUME t \in Floating, Held(t, value) PROVE SameNumber(answer.num, q)
  <2>1. slot = [kind |-> "raw", num |-> FloatOf(t, q)] /\ value.kind \in {"num", "bigint"}
    BY <1>1, <1>5, FloatingSlot
  <2>2. answer.num = Round(FloatOf(t, q), Precision)
    BY <1>2, <1>5, <2>1, FloatingAnswer
  <2> QED
    BY <1>1, <1>5, <2>1, <2>2, FloatHeld
<1> QED
  BY <1>3, <1>4, <1>5

LEMMA CellsReadNulls == CellInv => NullsReadBack
<1> SUFFICES ASSUME CellInv, stage \in {"array", "read", "unreadable"} PROVE NullsReadBack
  BY DEF NullsReadBack
<1>1. field.type \in Types /\ field \in Fields
  BY DEF CellInv, CellStages, Fields
<1>2. SlotOf(field.type, slot) /\ (value.kind # "engine" => field.type # "Other")
  <2>1. CASE value.kind = "engine"
    BY <2>1 DEF CellInv, FromEngine
  <2>2. CASE value.kind # "engine"
    <3>1. value \in JsValues
      BY <2>2, EngineIsNoRow DEF CellInv, CellStages
    <3>2. slot = Written(field, value).item /\ Written(field, value).code = 0
      BY <2>2 DEF CellInv, WrittenFromRow
    <3> QED
      BY <1>1, <3>1, <3>2, WrittenFits DEF Writable
  <2> QED
    BY <2>1, <2>2
<1>3. /\ stage = "read" => Answer(field.type, slot).code = 0 /\ answer = Answer(field.type, slot).item
      /\ stage = "unreadable" => Answer(field.type, slot).code # 0
  BY DEF CellInv, ReadFromSlot
<1> QED
  BY <1>1, <1>2, <1>3, AnswerKind DEF NullsReadBack, Accepted

LEMMA CellsReadBack == CellInv => ReadBack
BY CellsReadNumbers, CellsReadNulls DEF ReadBack

-----------------------------------------------------------------------------
(* The rest of the seam: what arrives is what the crossing comes to, once.   *)
Arrivals ==
  /\ crossing \in Crossings
  /\ \/ arrived = Nothing
     \/ /\ crossing.what = "ident"
        /\ arrived \in {[as |-> "shown", q |-> Shown(crossing.n)],
                        [as |-> "u64", n |-> AsU64(AsInt64(Shown(crossing.n)))]}
     \/ crossing.what = "number" /\ arrived = [as |-> "u64", n |-> AsU64(AsInt64(crossing.q))]
     \/ crossing.what = "index" /\ arrived = BatchAt(crossing.q)
     \/ /\ crossing.what = "open"
        /\ arrived = OpenedBy(crossing.path, crossing.given, crossing.config)
     \/ crossing.what = "error" /\ arrived = Thrown(crossing.code, crossing.way)

SeamInv == CellInv /\ Arrivals

(* What each kind of crossing arrives as.                                    *)
LEMMA ArrivesAs ==
  /\ \A q : BatchAt(q).as \in {"batch", "error"}
  /\ \A path, given, config : OpenedBy(path, given, config).as \in {"config", "error"}
  /\ \A c, way : way \in Ways => Thrown(c, way).as = "thrown"
<1>1. \A q : BatchAt(q).as \in {"batch", "error"}
  BY DEF BatchAt
<1>2. \A path, given, config : OpenedBy(path, given, config).as \in {"config", "error"}
  BY DEF OpenedBy, IntoCore, Opened
<1>3. \A c, way : way \in Ways => Thrown(c, way).as = "thrown"
  BY DEF Ways, Thrown, ToLaminarError, EmitError, CodedError, Err
<1> QED
  BY <1>1, <1>2, <1>3

(* What crosses, and the fields that come with it.                           *)
LEMMA CrossingFields ==
  ASSUME NEW c \in Crossings
  PROVE  /\ c.what \in {"cell", "ident", "number", "index", "open", "error"}
         /\ c.what = "ident" => c.n \in Idents
         /\ c.what \in {"number", "index"} => c.q \in Numbers
         /\ c.what = "open" => c.path \in Places /\ c.given \in BOOLEAN /\ c.config \in Options
         /\ c.what = "error" => c.way \in Ways /\ (c.way # "bare" => c.code \in Codes \cup {Uncoded})
BY DEF Crossings, Cell, Ways

(* A number or batch that has arrived is not passed on as if it were shown.  *)
LEMMA OnlyIdentsAreShown == Arrivals /\ arrived.as = "shown" => crossing.what = "ident"
<1> SUFFICES ASSUME Arrivals, arrived.as = "shown", crossing.what # "ident" PROVE FALSE
  OBVIOUS
<1>1. crossing.what = "error" => crossing.way \in Ways
  BY CrossingFields DEF Arrivals
<1>2. arrived # Nothing
  BY DEF Nothing
<1>3. ~(crossing.what = "index" /\ arrived = BatchAt(crossing.q))
  BY ArrivesAs
<1>4. ~(crossing.what = "open" /\ arrived = OpenedBy(crossing.path, crossing.given, crossing.config))
  BY ArrivesAs
<1>5. ~(crossing.what = "error" /\ arrived = Thrown(crossing.code, crossing.way))
  BY <1>1, ArrivesAs
<1>6. ~(crossing.what = "number" /\ arrived = [as |-> "u64", n |-> AsU64(AsInt64(crossing.q))])
  OBVIOUS
<1> QED
  BY <1>2, <1>3, <1>4, <1>5, <1>6 DEF Arrivals

LEMMA SeamInitial == SeamInit => SeamInv
<1> SUFFICES ASSUME SeamInit PROVE SeamInv
  OBVIOUS
<1>1. CellInv
  <2>1. CASE Init
    BY <2>1, CellInit
  <2>2. CASE Resting
    <3>1. [type |-> "Null", nullable |-> TRUE] \in Fields /\ Plain("null") \in JsValues
      BY DEF Fields, Types, JsValues
    <3>2. Plain("null").kind = "null" /\ Plain("none").kind = "none"
      BY DEF Plain, Item
    <3> QED
      BY <2>2, <3>1, <3>2 DEF Resting, CellInv, CellStages, WrittenFromRow, FromEngine, ReadFromSlot
  <2> QED
    BY <2>1, <2>2 DEF SeamInit
<1>2. Arrivals
  BY DEF SeamInit, Arrivals, Crossings
<1> QED
  BY <1>1, <1>2 DEF SeamInv

LEMMA SeamStep == SeamInv /\ [SeamNext]_<<vars, seamVars>> => SeamInv'
<1> SUFFICES ASSUME SeamInv, [SeamNext]_<<vars, seamVars>> PROVE SeamInv'
  OBVIOUS
<1>1. CellInv'
  <2>1. [Next]_vars
    BY DEF SeamNext
  <2> QED
    BY <2>1, CellStep DEF SeamInv
<1>2. Arrivals'
  <2> USE DEF SeamInv
  <2>1. CASE UNCHANGED seamVars
    BY <2>1 DEF Arrivals, seamVars
  <2>2. CASE Report
    BY <2>2 DEF Report, Crosses, Arrivals
  <2>3. CASE PassBack
    <3>1. crossing.what = "ident"
      BY <2>3, OnlyIdentsAreShown DEF PassBack
    <3>2. arrived = [as |-> "shown", q |-> Shown(crossing.n)]
      BY <2>3, <3>1 DEF PassBack, Arrivals, Nothing
    <3>3. arrived'= [as |-> "u64", n |-> AsU64(AsInt64(Shown(crossing.n)))] /\ crossing' = crossing
      BY <2>3, <3>2 DEF PassBack
    <3> QED
      BY <3>1, <3>3 DEF Arrivals
  <2>4. CASE PassAny
    BY <2>4 DEF PassAny, Crosses, Arrivals
  <2>5. CASE Batch
    BY <2>5 DEF Batch, Crosses, Arrivals
  <2>6. CASE Open
    BY <2>6 DEF Open, Crosses, Arrivals
  <2>7. CASE Throw
    BY <2>7 DEF Throw, Crosses, Arrivals
  <2> QED
    BY <2>1, <2>2, <2>3, <2>4, <2>5, <2>6, <2>7 DEF SeamNext
<1> QED
  BY <1>1, <1>2 DEF SeamInv

LEMMA SeamAlways == SeamSpec => []SeamInv
<1> QED
  BY SeamInitial, SeamStep, PTL DEF SeamSpec

-----------------------------------------------------------------------------
(* The numbers of the seam. *)
LEMMA SeamConstants ==
  /\ I64Max \in Nat /\ U64Max \in Nat /\ U64Max = 2 * I64Max + 1
  /\ MaxSafe \in Int /\ MaxSafe <= I64Max
  /\ Precision \in Nat \ {0} /\ Precision <= ExpBelow + 1 /\ I64Max < Pow2[Precision + ExpAbove]
  /\ MaxOf("Int64") = I64Max
  /\ \A n \in Int : n \in Width("Int64") <=> -I64Max - 1 <= n /\ n <= I64Max
<1>1. Precision \in Nat \ {0} /\ I64Max \in Nat
  BY WidthAssumption
<1>2. Pow2[Precision] \in Nat
  BY <1>1, Pow2Pos
<1>3. MaxOf("Int64") = I64Max
  BY DEF MaxOf, Timestamp
<1>4. \A n \in Int : n \in Width("Int64") <=> -I64Max - 1 <= n /\ n <= I64Max
  BY <1>1, <1>3 DEF Width, Unsigned
<1> QED
  BY <1>1, <1>2, <1>3, <1>4, WidthAssumption DEF U64Max, MaxSafe

(* napi's i64 of any number lies within 64 bits, and is the number cut to a  *)
(* whole one where that fits.                                                *)
LEMMA AsInt64Type ==
  ASSUME NEW q, IsFinite(q) => q \in Rational
  PROVE  /\ AsInt64(q) \in Int /\ -I64Max - 1 <= AsInt64(q) /\ AsInt64(q) <= I64Max
         /\ IsFinite(q) => \/ AsInt64(q) = Trunc(q)
                           \/ AsInt64(q) = I64Max /\ Trunc(q) > I64Max
                           \/ AsInt64(q) = -I64Max - 1 /\ Trunc(q) < -I64Max - 1
<1>1. CASE ~IsFinite(q)
  BY <1>1, SeamConstants DEF AsInt64
<1>2. CASE IsFinite(q)
  <2>1. Trunc(q) \in Int
    BY <1>2, TruncType
  <2>2. CASE Trunc(q) \in Width("Int64")
    <3>1. ~(Trunc(q) > I64Max) /\ ~(Trunc(q) < -I64Max - 1)
      BY <2>1, <2>2, SeamConstants
    <3>2. AsInt64(q) = Trunc(q)
      BY <1>2, <2>2, <3>1 DEF AsInt64
    <3> QED
      BY <1>2, <2>1, <2>2, <3>2, SeamConstants
  <2>3. CASE Trunc(q) > I64Max
    <3>1. Trunc(q) \notin Width("Int64") /\ ~(Trunc(q) < -I64Max - 1)
      BY <2>1, <2>3, SeamConstants
    <3>2. AsInt64(q) = I64Max
      BY <1>2, <2>3, <3>1 DEF AsInt64
    <3> QED
      BY <1>2, <2>3, <3>2, SeamConstants
  <2>4. CASE Trunc(q) < -I64Max - 1
    <3>1. Trunc(q) \notin Width("Int64") /\ ~(Trunc(q) > I64Max)
      BY <2>1, <2>4, SeamConstants
    <3>2. AsInt64(q) = -I64Max - 1
      BY <1>2, <2>4, <3>1 DEF AsInt64
    <3> QED
      BY <1>2, <2>4, <3>2, SeamConstants
  <2> QED
    BY <2>1, <2>2, <2>3, <2>4, SeamConstants
<1> QED
  BY <1>1, <1>2

LEMMA AsU64Type ==
  \A i \in Int : -I64Max - 1 <= i /\ i <= I64Max => AsU64(i) \in 0..U64Max /\ (i >= 0 => AsU64(i) = i)
BY SeamConstants DEF AsU64

(* A counter, an id or an epoch as it is shown: in order, never negative,    *)
(* and itself up to what f64 holds exactly.                                  *)
LEMMA ShownInOrder ==
  ASSUME NEW m \in Nat, NEW n \in Nat, m <= n
  PROVE  /\ Shown(m) \in Rational /\ Shown(n) \in Rational /\ Shown(n).num >= 0
         /\ Shown(m).num * Shown(n).den <= Shown(n).num * Shown(m).den
<1> DEFINE a == Saturating(m)
           b == Saturating(n)
<1>1. a \in Nat /\ b \in Nat /\ a <= b /\ b <= I64Max
  BY SeamConstants DEF Saturating
<1>2. Pow2[Precision + ExpAbove] \in Nat
  <2>1. Precision + ExpAbove \in Nat
    BY SeamConstants, ExponentAssumption
  <2> QED
    BY <2>1, Pow2Pos
<1>3. b < Pow2[Precision + ExpAbove]
  BY <1>1, <1>2, SeamConstants
<1> HIDE DEF a, b
<1>4. LET r == Round(Whole(a), Precision)
          t == Round(Whole(b), Precision)
      IN  r \in Rational /\ t \in Rational /\ t.num >= 0 /\ r.num * t.den <= t.num * r.den
  BY <1>1, <1>3, SeamConstants, RoundOrder
<1> QED
  BY <1>4 DEF Shown, a, b

LEMMA ShownExactly ==
  ASSUME NEW n \in Nat, n <= MaxSafe
  PROVE  Trunc(Shown(n)) = n /\ IsFinite(Shown(n))
<1>1. Saturating(n) = n
  BY SeamConstants DEF Saturating
<1>2. Magnitude(n) <= MaxSafe /\ Whole(n) \in Rational /\ Whole(n).num = n * Whole(n).den
  BY WholeFraction DEF Magnitude
<1>3. Shown(n) \in Rational /\ Shown(n).num = n * Shown(n).den
  BY <1>1, <1>2, ExactF64 DEF Shown
<1>4. Trunc(Shown(n)) = n
  BY <1>3, TruncWhole
<1> QED
  BY <1>3, <1>4 DEF Rational, IsFinite

LEMMA NumbersArrive == SeamInv => NumbersCross
<1> SUFFICES ASSUME SeamInv PROVE NumbersCross
  OBVIOUS
<1> USE DEF SeamInv
<1>0. crossing \in Crossings
  BY DEF Arrivals
<1>1. Idents \subseteq Nat
  BY IdentAssumption, SeamConstants
<1>2. ASSUME arrived.as = "shown"
      PROVE  /\ arrived.q.num >= 0
             /\ \A m \in Idents : m <= crossing.n =>
                  Shown(m).num * arrived.q.den <= arrived.q.num * Shown(m).den
  <2>1. crossing.what = "ident"
    BY <1>2, OnlyIdentsAreShown
  <2>2. arrived.q = Shown(crossing.n)
    BY <1>2, <2>1 DEF Arrivals, Nothing
  <2>3. crossing.n \in Nat
    BY <1>0, <1>1, <2>1, CrossingFields
  <2>4. Shown(crossing.n).num >= 0
    BY <2>3, ShownInOrder
  <2>5. \A m \in Idents : m <= crossing.n =>
          Shown(m).num * Shown(crossing.n).den <= Shown(crossing.n).num * Shown(m).den
    BY <1>1, <2>3, ShownInOrder
  <2> QED
    BY <2>2, <2>4, <2>5
<1>3. ASSUME arrived.as = "u64"
      PROVE  IF crossing.what = "ident" THEN crossing.n <= MaxSafe => arrived.n = crossing.n
             ELSE IsFinite(crossing.q) /\ Trunc(crossing.q) < 0 => arrived.n = U64Max
  <2>1. \/ crossing.what = "ident" /\ arrived = [as |-> "u64", n |-> AsU64(AsInt64(Shown(crossing.n)))]
        \/ crossing.what = "number" /\ arrived = [as |-> "u64", n |-> AsU64(AsInt64(crossing.q))]
    <3>1. crossing.what = "error" => crossing.way \in Ways
      BY <1>0, CrossingFields
    <3>2. arrived # Nothing /\ arrived # [as |-> "shown", q |-> Shown(crossing.n)]
      BY <1>3 DEF Nothing
    <3>3. ~(crossing.what = "index" /\ arrived = BatchAt(crossing.q))
      BY <1>3, ArrivesAs
    <3>4. ~(crossing.what = "open" /\ arrived = OpenedBy(crossing.path, crossing.given, crossing.config))
      BY <1>3, ArrivesAs
    <3>5. ~(crossing.what = "error" /\ arrived = Thrown(crossing.code, crossing.way))
      BY <1>3, <3>1, ArrivesAs
    <3> QED
      BY <3>2, <3>3, <3>4, <3>5 DEF Arrivals
  <2>2. ASSUME crossing.what = "ident", crossing.n <= MaxSafe PROVE arrived.n = crossing.n
    <3>1. crossing.n \in Nat
      BY <1>0, <1>1, <2>2, CrossingFields
    <3>2. Trunc(Shown(crossing.n)) = crossing.n /\ IsFinite(Shown(crossing.n))
      BY <2>2, <3>1, ShownExactly
    <3>3. crossing.n <= I64Max
      BY <2>2, <3>1, SeamConstants
    <3>4. AsInt64(Shown(crossing.n)) = crossing.n
      <4>1. crossing.n \in Width("Int64") /\ ~(crossing.n > I64Max) /\ ~(crossing.n < -I64Max - 1)
        BY <3>1, <3>3, SeamConstants
      <4> QED
        BY <3>2, <4>1 DEF AsInt64
    <3>5. arrived.n = AsU64(crossing.n)
      BY <2>1, <2>2, <3>4
    <3> QED
      BY <3>1, <3>5 DEF AsU64
  <2>3. ASSUME crossing.what # "ident", IsFinite(crossing.q), Trunc(crossing.q) < 0
        PROVE  arrived.n = U64Max
    <3>1. crossing.what = "number" /\ arrived.n = AsU64(AsInt64(crossing.q))
      BY <2>1, <2>3
    <3>2. crossing.q \in Rational
      BY <1>0, <2>3, <3>1, CrossingFields, NumberIsRational
    <3>3. Trunc(crossing.q) \in Int
      BY <3>2, TruncType
    <3>4. AsInt64(crossing.q) < 0
      BY <2>3, <3>2, <3>3, AsInt64Type, SeamConstants
    <3> QED
      BY <3>1, <3>4 DEF AsU64
  <2> QED
    BY <2>2, <2>3
<1>4. ASSUME arrived.as = "batch", IsFinite(crossing.q) PROVE arrived.n = Trunc(crossing.q)
  <2>1. crossing.what = "index" /\ arrived = BatchAt(crossing.q)
    <3>1. crossing.what = "error" => crossing.way \in Ways
      BY <1>0, CrossingFields
    <3>2. /\ arrived # Nothing /\ arrived # [as |-> "shown", q |-> Shown(crossing.n)]
          /\ arrived # [as |-> "u64", n |-> AsU64(AsInt64(Shown(crossing.n)))]
          /\ arrived # [as |-> "u64", n |-> AsU64(AsInt64(crossing.q))]
      BY <1>4 DEF Nothing
    <3>4. ~(crossing.what = "open" /\ arrived = OpenedBy(crossing.path, crossing.given, crossing.config))
      BY <1>4, ArrivesAs
    <3>5. ~(crossing.what = "error" /\ arrived = Thrown(crossing.code, crossing.way))
      BY <1>4, <3>1, ArrivesAs
    <3> QED
      BY <3>2, <3>4, <3>5 DEF Arrivals
  <2>2. crossing.q \in Rational
    BY <1>0, <1>4, <2>1, CrossingFields, NumberIsRational
  <2>3. Trunc(crossing.q) \in Int
    BY <2>2, TruncType
  <2> DEFINE i == AsInt64(crossing.q)
  <2>4. /\ i \in Int /\ -I64Max - 1 <= i /\ i <= I64Max
        /\ \/ i = Trunc(crossing.q)
           \/ i = I64Max /\ Trunc(crossing.q) > I64Max
           \/ i = -I64Max - 1 /\ Trunc(crossing.q) < -I64Max - 1
    BY <1>4, <2>2, AsInt64Type
  <2>5. arrived.n = AsU64(i) /\ AsU64(i) < NumBatches
    BY <1>4, <2>1 DEF BatchAt
  <2> HIDE DEF i
  <2> QED
    BY <2>3, <2>4, <2>5, SeamConstants, BatchesAssumption DEF AsU64
<1> QED
  BY <1>2, <1>3, <1>4 DEF NumbersCross

-----------------------------------------------------------------------------
(* A number that is not negative is cut to one that is not.                  *)
LEMMA TruncNat == \A q \in Rational : q.num >= 0 => Trunc(q) \in Nat
<1> SUFFICES ASSUME NEW q \in Rational, q.num >= 0 PROVE Trunc(q) \in Nat
  OBVIOUS
<1>1. q.num \in Int /\ q.den \in Nat \ {0}
  BY DEF Rational
<1>2. Trunc(q) = q.num \div q.den /\ Trunc(q) \in Int
  BY <1>1, TruncType DEF Trunc
<1>3. q.num < (Trunc(q) + 1) * q.den
  BY <1>1, <1>2, DivisionSpan
<1>4. Trunc(q) + 1 <= 0 => (Trunc(q) + 1) * q.den <= 0 * q.den
  BY <1>1, <1>2, ProductOrder
<1> QED
  BY <1>1, <1>2, <1>3, <1>4

(* The sizes that open() hands the core fit a u64 and a u32.                 *)
LEMMA BytesFit ==
  ASSUME NEW b \in {Absent} \cup {Item("num", q) : q \in Numbers}, ~BytesRefused(b)
  PROVE  Bytes(b) = Absent \/ Bytes(b).num.num \in 0..U64Max
<1> SUFFICES ASSUME b # Absent PROVE Bytes(b).num.num \in 0..U64Max
  BY DEF Bytes
<1>1. b.num \in Numbers /\ IsFinite(b.num) /\ ~(b.num.num < 0)
  BY DEF BytesRefused, Item
<1>2. b.num \in Rational
  BY <1>1, NumberIsRational
<1>3. Trunc(b.num) \in Nat /\ U64Max \in Nat
  BY <1>1, <1>2, TruncNat, SeamConstants DEF Rational
<1>4. Bytes(b).num.num = IF Trunc(b.num) > U64Max THEN U64Max ELSE Trunc(b.num)
  BY DEF Bytes, Item, Whole, Frac
<1> QED
  BY <1>3, <1>4

LEMMA RowsFit ==
  ASSUME NEW b \in {Absent} \cup {Item("num", q) : q \in Numbers}
  PROVE  AsUint32(b) = Absent \/ AsUint32(b).num.num \in 0..U32Max
<1> SUFFICES ASSUME b # Absent PROVE AsUint32(b).num.num \in 0..U32Max
  BY DEF AsUint32
<1>1. AsUint32(b).num.num = IF IsFinite(b.num) THEN Trunc(b.num) % (U32Max + 1) ELSE 0
  BY DEF AsUint32, Item, Whole, Frac
<1>2. U32Max \in Nat /\ U32Max + 1 \in Nat \ {0}
  BY U32Assumption
<1>3. IsFinite(b.num) => Trunc(b.num) \in Int
  <2>1. b.num \in Numbers
    BY DEF Item
  <2> QED
    BY <2>1, NumberIsRational, TruncType
<1>4. ASSUME IsFinite(b.num) PROVE Trunc(b.num) % (U32Max + 1) \in 0..U32Max
  <2>1. /\ Trunc(b.num) % (U32Max + 1) \in Int /\ 0 <= Trunc(b.num) % (U32Max + 1)
        /\ Trunc(b.num) % (U32Max + 1) < U32Max + 1
    BY <1>2, <1>3, <1>4, Division
  <2> QED
    BY <1>2, <2>1
<1> QED
  BY <1>1, <1>2, <1>4

LEMMA SizesFit ==
  ASSUME NEW path, NEW given \in BOOLEAN, NEW c \in Options,
         OpenedBy(path, given, c).as = "config"
  PROVE  LET r == OpenedBy(path, given, c)
         IN  /\ r.maxNodeDataBytes = Absent \/ r.maxNodeDataBytes.num.num \in 0..U64Max
             /\ r.bufferSize = Absent \/ r.bufferSize.num.num \in 0..U32Max
<1>1. CASE ~given
  BY <1>1 DEF OpenedBy, Opened
<1>2. CASE given
  <2>1. ~BytesRefused(c.maxNodeDataBytes)
    BY <1>2 DEF OpenedBy, IntoCore
  <2>2. /\ OpenedBy(path, given, c).maxNodeDataBytes = Bytes(c.maxNodeDataBytes)
        /\ OpenedBy(path, given, c).bufferSize = AsUint32(c.bufferSize)
    BY <1>2, <2>1 DEF OpenedBy, IntoCore, Opened
  <2>3. {c.maxNodeDataBytes, c.bufferSize} \subseteq {Absent} \cup {Item("num", q) : q \in Numbers}
    BY DEF Options
  <2> QED
    BY <2>1, <2>2, <2>3, BytesFit, RowsFit
<1> QED
  BY <1>1, <1>2

(* The types of what arrives: a u64 is one, and so are the sizes of open().  *)
LEMMA SeamTypes == SeamInv => SeamTypeOK
<1> SUFFICES ASSUME SeamInv PROVE SeamTypeOK
  OBVIOUS
<1> USE DEF SeamInv
<1>0. crossing \in Crossings
  BY DEF Arrivals
<1>1. TypeOK
  BY CellTypes
<1>2. crossing.what = "ident" /\ IsFinite(Shown(crossing.n)) => Shown(crossing.n) \in Rational
  <2>0. Idents \subseteq Nat
    BY IdentAssumption, SeamConstants
  <2>1. crossing.what = "ident" => crossing.n \in Nat
    BY <1>0, <2>0, CrossingFields
  <2> QED
    BY <2>1, ShownInOrder
<1>3. crossing.what = "number" /\ IsFinite(crossing.q) => crossing.q \in Rational
  BY <1>0, CrossingFields, NumberIsRational
<1>4. crossing.what = "error" => crossing.way \in Ways
  BY <1>0, CrossingFields
<1>5. crossing.what = "ident" => AsU64(AsInt64(Shown(crossing.n))) \in 0..U64Max
  BY <1>2, AsInt64Type, AsU64Type
<1>6. crossing.what = "number" => AsU64(AsInt64(crossing.q)) \in 0..U64Max
  BY <1>3, AsInt64Type, AsU64Type
<1>7. /\ arrived.as \in {"nothing", "shown", "u64", "batch", "error", "config", "thrown"}
      /\ arrived.as = "u64" => arrived.n \in 0..U64Max
      /\ arrived.as = "config" =>
           crossing.what = "open" /\ arrived = OpenedBy(crossing.path, crossing.given, crossing.config)
  <2>1. CASE arrived = Nothing
    BY <2>1 DEF Nothing
  <2>2. CASE crossing.what = "ident" /\ arrived = [as |-> "shown", q |-> Shown(crossing.n)]
    BY <2>2
  <2>3. CASE crossing.what = "ident" /\ arrived = [as |-> "u64", n |-> AsU64(AsInt64(Shown(crossing.n)))]
    BY <1>5, <2>3
  <2>4. CASE crossing.what = "number" /\ arrived = [as |-> "u64", n |-> AsU64(AsInt64(crossing.q))]
    BY <1>6, <2>4
  <2>5. CASE crossing.what = "index" /\ arrived = BatchAt(crossing.q)
    BY <2>5, ArrivesAs
  <2>6. CASE /\ crossing.what = "open"
             /\ arrived = OpenedBy(crossing.path, crossing.given, crossing.config)
    BY <2>6, ArrivesAs
  <2>7. CASE crossing.what = "error" /\ arrived = Thrown(crossing.code, crossing.way)
    BY <1>4, <2>7, ArrivesAs
  <2> QED
    BY <2>1, <2>2, <2>3, <2>4, <2>5, <2>6, <2>7 DEF Arrivals
<1>8. crossing.what = "open" => crossing.given \in BOOLEAN /\ crossing.config \in Options
  BY <1>0, CrossingFields
<1>9. arrived.as = "config" =>
        /\ arrived.maxNodeDataBytes = Absent \/ arrived.maxNodeDataBytes.num.num \in 0..U64Max
        /\ arrived.bufferSize = Absent \/ arrived.bufferSize.num.num \in 0..U32Max
  BY <1>7, <1>8, SizesFit
<1> QED
  BY <1>1, <1>7, <1>9 DEF SeamTypeOK

(* open()'s rule for a path is into_core()'s. *)
LEMMA SameRule == \A path : StorageOfPath(path) = Storage(path)
BY DEF StorageOfPath, Storage

(* The database that a call of open() names, by its path, by its path beside *)
(* options or by storageDir.                                                 *)
LEMMA StorageNamed ==
  /\ \A path, config : OpenedBy(path, FALSE, config).storage = Storage(path)
  /\ \A path : OpenedBy(path, TRUE, NoOptions).storage = Storage(path)
  /\ \A dir : OpenedBy("absent", TRUE, [NoOptions EXCEPT !.storageDir = dir]).storage = Storage(dir)
<1>1. ~BytesRefused(Absent)
  BY DEF Absent, Plain, Item, BytesRefused
<1>2. \A path, config : OpenedBy(path, FALSE, config).storage = Storage(path)
  BY SameRule DEF OpenedBy, Opened
<1>3. \A path : OpenedBy(path, TRUE, NoOptions).storage = Storage(path)
  BY <1>1 DEF OpenedBy, IntoCore, NoOptions, Placed, Opened
<1>4. ASSUME NEW dir
      PROVE  OpenedBy("absent", TRUE, [NoOptions EXCEPT !.storageDir = dir]).storage = Storage(dir)
  <2> DEFINE c == [NoOptions EXCEPT !.storageDir = dir]
  <2>1. c.storageDir = dir /\ c.maxNodeDataBytes = Absent
    BY DEF NoOptions
  <2>2. Placed(dir, "absent") = dir
    BY DEF Placed
  <2> HIDE DEF c
  <2>3. OpenedBy("absent", TRUE, c).storage = Storage(dir)
    BY <1>1, <2>1, <2>2 DEF OpenedBy, IntoCore, Opened
  <2> QED
    BY <2>3 DEF c
<1> QED
  BY <1>2, <1>3, <1>4

LEMMA OptionsArrive == SeamInv => OptionsAgree
<1> SUFFICES ASSUME SeamInv, arrived.as = "config" PROVE OptionsAgree
  BY DEF OptionsAgree
<1> USE DEF SeamInv
<1> DEFINE c == crossing.config
           name == IF crossing.given /\ c.storageDir # "absent" THEN c.storageDir ELSE crossing.path
<1>0. crossing \in Crossings
  BY DEF Arrivals
<1>1. crossing.what = "open" /\ arrived = OpenedBy(crossing.path, crossing.given, c)
  <2>1. crossing.what = "error" => crossing.way \in Ways
    BY <1>0, CrossingFields
  <2>2. /\ arrived # Nothing /\ arrived # [as |-> "shown", q |-> Shown(crossing.n)]
        /\ arrived # [as |-> "u64", n |-> AsU64(AsInt64(Shown(crossing.n)))]
        /\ arrived # [as |-> "u64", n |-> AsU64(AsInt64(crossing.q))]
    BY DEF Nothing
  <2>3. ~(crossing.what = "index" /\ arrived = BatchAt(crossing.q))
    BY ArrivesAs
  <2>4. ~(crossing.what = "error" /\ arrived = Thrown(crossing.code, crossing.way))
    BY <2>1, ArrivesAs
  <2> QED
    BY <2>2, <2>3, <2>4 DEF Arrivals
<1>2. arrived.storage = Storage(name)
  <2>1. CASE crossing.given
    <3>1. Placed(c.storageDir, crossing.path) = name
      BY <2>1 DEF Placed
    <3>2. ~BytesRefused(c.maxNodeDataBytes)
      BY <1>1, <2>1 DEF OpenedBy, IntoCore
    <3> HIDE DEF c, name
    <3> QED
      BY <1>1, <2>1, <3>1, <3>2 DEF OpenedBy, IntoCore, Opened
  <2>2. CASE crossing.given = FALSE
    <3>1. name = crossing.path
      BY <2>2
    <3> QED
      BY <1>1, <2>2, <3>1, StorageNamed
  <2> QED
    BY <1>0, <1>1, <2>1, <2>2, CrossingFields
<1> HIDE DEF name
<1>3. /\ arrived.storage = OpenedBy(name, FALSE, NoOptions).storage
      /\ arrived.storage = OpenedBy(name, TRUE, NoOptions).storage
      /\ arrived.storage = OpenedBy("absent", TRUE, [NoOptions EXCEPT !.storageDir = name]).storage
  BY <1>2, StorageNamed
<1> QED
  BY <1>3 DEF OptionsAgree, name

(* The class of an error is the documented one of its hundred.               *)
LEMMA ClassAsDocumented == \A c \in 100..999 : ClassFor(c) = ClassOf(c)
<1> SUFFICES ASSUME NEW c \in 100..999 PROVE ClassFor(c) = ClassOf(c)
  OBVIOUS
<1>1. CASE c < 200
  <2>1. c \div 100 = 1
    BY <1>1
  <2> QED
    BY <1>1, <2>1 DEF ClassFor, ClassOf, Documented
<1>2. CASE 200 <= c /\ c < 300
  <2>1. c \div 100 = 2
    BY <1>2
  <2> QED
    BY <1>2, <2>1 DEF ClassFor, ClassOf, Documented
<1>3. CASE 300 <= c /\ c < 400
  <2>1. c \div 100 = 3
    BY <1>3
  <2> QED
    BY <1>3, <2>1 DEF ClassFor, ClassOf, Documented
<1>4. CASE 400 <= c /\ c < 500
  <2>1. c \div 100 = 4
    BY <1>4
  <2> QED
    BY <1>4, <2>1 DEF ClassFor, ClassOf, Documented
<1>5. CASE 500 <= c /\ c < 600
  <2>1. c \div 100 = 5
    BY <1>5
  <2> QED
    BY <1>5, <2>1 DEF ClassFor, ClassOf, Documented
<1>6. CASE 600 <= c
  BY <1>6 DEF ClassFor, ClassOf
<1> QED
  BY <1>1, <1>2, <1>3, <1>4, <1>5, <1>6

LEMMA CodesArrive == SeamInv => CodesSurvive
<1> SUFFICES ASSUME SeamInv, arrived.as = "thrown"
             PROVE  /\ crossing.way = "wrapped" =>
                         /\ arrived.prefix = Uncoded
                         /\ crossing.code # Uncoded =>
                              arrived.code = crossing.code /\ arrived.class = ClassOf(crossing.code)
                         /\ crossing.code = Uncoded => arrived.code = 900 /\ arrived.class = "Internal"
                    /\ crossing.way = "onError" =>
                         arrived.code = IF crossing.code = Uncoded THEN 500 ELSE crossing.code
  BY DEF CodesSurvive
<1> USE DEF SeamInv
<1>0. crossing \in Crossings
  BY DEF Arrivals
<1>1. crossing.what = "error" /\ arrived = Thrown(crossing.code, crossing.way)
  <2>1. /\ arrived # Nothing /\ arrived # [as |-> "shown", q |-> Shown(crossing.n)]
        /\ arrived # [as |-> "u64", n |-> AsU64(AsInt64(Shown(crossing.n)))]
        /\ arrived # [as |-> "u64", n |-> AsU64(AsInt64(crossing.q))]
    BY DEF Nothing
  <2>2. ~(crossing.what = "index" /\ arrived = BatchAt(crossing.q))
    BY ArrivesAs
  <2>3. ~(crossing.what = "open" /\ arrived = OpenedBy(crossing.path, crossing.given, crossing.config))
    BY ArrivesAs
  <2> QED
    BY <2>1, <2>2, <2>3 DEF Arrivals
<1>2. ASSUME crossing.way = "wrapped"
      PROVE  /\ arrived.prefix = Uncoded
             /\ crossing.code # Uncoded =>
                  arrived.code = crossing.code /\ arrived.class = ClassOf(crossing.code)
             /\ crossing.code = Uncoded => arrived.code = 900 /\ arrived.class = "Internal"
  <2>1. arrived = ToLaminarError(CodedError(crossing.code))
    BY <1>1, <1>2 DEF Thrown
  <2>2. CASE crossing.code = Uncoded
    <3>1. arrived = Err(ClassFor(900), 900, Uncoded)
      BY <2>1, <2>2 DEF ToLaminarError, CodedError, Err
    <3> QED
      BY <2>2, <3>1 DEF Err, ClassFor
  <2>3. CASE crossing.code # Uncoded
    <3>1. arrived = Err(ClassFor(crossing.code), crossing.code, Uncoded)
      BY <2>1, <2>3 DEF ToLaminarError, CodedError, Err
    <3>2. crossing.code \in 100..999
      BY <1>0, <1>1, <1>2, <2>3, CrossingFields, CodeAssumption
    <3> QED
      BY <2>3, <3>1, <3>2, ClassAsDocumented DEF Err
  <2> QED
    BY <2>2, <2>3
<1>3. ASSUME crossing.way = "onError"
      PROVE  arrived.code = IF crossing.code = Uncoded THEN 500 ELSE crossing.code
  BY <1>1, <1>3 DEF Thrown, EmitError, CodedError, Err
<1> QED
  BY <1>2, <1>3

-----------------------------------------------------------------------------
(* Every slot fits the primitive of its column, for all widths and units:    *)
(* no cast and no multiplication of conversion.rs wraps; a number given as   *)
(* an id or epoch arrives as a u64.                                          *)
THEOREM SeamTypeCorrect == SeamSpec => []SeamTypeOK
<1> QED
  BY SeamAlways, SeamTypes, PTL

(* conversion.rs stores a value as it is or not at all.                      *)
THEOREM NothingIsStoredOtherwise == SeamSpec => []StoredFaithfully
<1>1. SeamInv => StoredFaithfully
  BY CellsStored DEF SeamInv
<1> QED
  BY <1>1, SeamAlways, PTL

(* conversion.rs refuses a number only where the column has no slot for it.  *)
THEOREM RefusalsHaveCause == SeamSpec => []RejectedForCause
<1>1. SeamInv => RejectedForCause
  BY CellsRejected DEF SeamInv
<1> QED
  BY <1>1, SeamAlways, PTL

(* What rows_to_batch stores, batch_to_rows reads back, exactly for integers *)
(* and to the unit of the column for instants within what f64 holds.         *)
THEOREM RoundTrip == SeamSpec => []ReadBack
<1>1. SeamInv => ReadBack
  BY CellsReadBack DEF SeamInv
<1> QED
  BY <1>1, SeamAlways, PTL

(* Counters, ids and epochs keep their order and sign on their way out       *)
(* (telemetry.rs saturating), and come back as what they were up to 2^53 - 1. *)
THEOREM NumbersKeepTheirOrder == SeamSpec => []NumbersCross
<1> QED
  BY SeamAlways, NumbersArrive, PTL

(* The rule by which open() places a database that is named by a path alone  *)
(* (database.rs) and the one of into_core() (config.rs), each written out as *)
(* its file has it, give the same place, also beside options and when        *)
(* storageDir names it, whatever numbers the options hold.                   *)
THEOREM SameDatabaseHoweverNamed == SeamSpec => []OptionsAgree
<1> QED
  BY SeamAlways, OptionsArrive, PTL

(* The code that error.rs puts into a message is the code of the error that  *)
(* errors.ts makes of it, in the class that the README documents for its     *)
(* hundred, with the prefix gone; onError gets the same code.                *)
THEOREM CodesAreKept == SeamSpec => []CodesSurvive
<1> QED
  BY SeamAlways, CodesArrive, PTL
=============================================================================
