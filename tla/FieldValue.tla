----------------------------- MODULE FieldValue -----------------------------
(***************************************************************************)
(* CSVField: a text that is classified when first asked for, or with its   *)
(* row (EagerClassify), and remembers its type and number while a caller   *)
(* converts it, compares it, and tries decimal symbols.                    *)
(*   src/include/internal/csv_row.hpp, csv_row.cpp                         *)
(*                                                                         *)
(* Two fields of one text, one of each sort, get the same calls.           *)
(***************************************************************************)
EXTENDS NumberText

CONSTANTS Texts,    \* of fields in a file
          Numbers,  \* that were written, in thousandths
          Int64,    \* the widest integers,
          Types,    \* the integral types of get<T>(), and
          RangeOf   \* their values

(* A literal has digits around its symbol, and no part without one; a type  *)
(* is a range of integers.                                                  *)
ASSUME FieldAssumption ==
    /\ \A t \in Texts :
          \/ \E kind \in {"NULL", "STRING", "BOOL", "TIMESTAMP"} : t = Word(kind)
          \/ /\ t = Literal(t.negative, t.whole, t.symbol, t.part)
             /\ {t.whole, t.part} \subseteq Seq(0..9) /\ t.negative \in BOOLEAN
             /\ t.symbol \in {"", ".", ","} /\ Len(t.part) <= MostPlaces
             /\ t.symbol = "" => t.part = <<>>
    /\ \A x \in Numbers : x \in Int /\ Absolute(x) \div Unit < MostWhole
    /\ \A T \in Types :
          RangeOf[T] \subseteq Int /\ \E least, most \in RangeOf[T] : RangeOf[T] = least..most

VARIABLES text,
          number,     \* the number it was written for, or reads as
          csv_field,  \* "lazy" or "eager" -> type_ and value_
          separator,  \* the decimal symbol last tried
          asked,      \* the last call
          answers     \* of the two fields

fieldVars == <<text, number, csv_field, separator, asked, answers>>
Symbols == {".", ","}
Fails(reason) == <<"fails", reason>>
No == Fails("")
Got(value) == <<"got", value>>
Integral(type) == type = "INT"
Numeric(type) == type \in {"INT", "BIGINT", "DOUBLE"}

(* Parsed values; a BIGINT has none, what is kept of it is 0. *)
ParsedNumber(type) == IF type \in {"INT", "DOUBLE"} THEN NumberOf(text) ELSE 0

OfScalar(type, value) == [type |-> type, value |-> value]

Rounded(x, places) ==
    LET step == Unit \div pow10[places]
        up == ((2 * Absolute(x) + step) \div (2 * step)) * step
    IN  IF x < 0 THEN -up ELSE up

FieldInit ==
    /\ \/ text \in Texts /\ number = IF text.kind = "number" THEN NumberOf(text) ELSE 0
       \/ \E x \in Numbers :
             \/ \E places \in 0..MostPlaces :
                   text = FractionText(x, places) /\ number = Rounded(x, places)
             \/ text = IntegerText(x \div Unit) /\ number = Unit * (x \div Unit)
    /\ LET type == Classified(text, Int64)
       IN  csv_field = [lazy |-> [type |-> "UNKNOWN", value |-> 0],
                        eager |-> OfScalar(type, ParsedNumber(type))]
    /\ separator = "." /\ asked = <<>> /\ answers = <<>>

-----------------------------------------------------------------------------
(* A call's effect on a field and its answer. *)

Result(f, answer) == [field |-> f, answer |-> answer]

GetValue(f) ==
    LET type == Classified(text, Int64)
    IN  IF f.type = "UNKNOWN" THEN [type |-> type, value |-> ParsedNumber(type)] ELSE f

(* check_convert(), for an integral type and for a floating one. *)
GetIntegral(f, T) ==
    LET g == GetValue(f)
        n == g.value
        below == \A m \in RangeOf[T] : n < m * Unit
        above == \A m \in RangeOf[T] : n > m * Unit
        unsigned == \A m \in RangeOf[T] : m >= 0
    IN  Result(g, CASE ~Numeric(g.type)        -> Fails("NotANumber")
                    [] g.type = "BIGINT"       -> Fails("Overflow")
                    [] g.type = "DOUBLE"       -> Fails("FloatToInt")
                    [] g.type = "INT" /\ unsigned /\ n < 0 -> Fails("NegativeToUnsigned")
                    [] g.type = "INT" /\ ~(unsigned /\ n < 0) ->
                          IF below \/ above THEN Fails("Overflow") ELSE Got(n))

(* The same, for float and double, and for as<long double>(). *)
GetFloating(f) ==
    LET g == GetValue(f)
    IN  Result(g, CASE ~Numeric(g.type)  -> Fails("NotANumber")
                    [] g.type = "BIGINT" -> Fails("Overflow")
                    [] g.type \in {"INT", "DOUBLE"} -> Got(g.value))

(* get<long double>() and try_get<long double>(): any number, also one that *)
(* was too large to keep.                                                   *)
GetLongDouble(f) ==
    LET g == GetValue(f)
    IN  Result(g, IF Numeric(g.type) THEN Got(g.value) ELSE Fails("NotANumber"))

GetBool(f) ==
    LET g == GetValue(f)
    IN  Result(g, IF g.type = "BOOL" THEN Got(text) ELSE Fails("NotANumber"))

(* For durations and time points. *)
GetTime(f) ==
    LET g == GetValue(f)
    IN  Result(g, IF g.type = "TIMESTAMP" THEN Got(text) ELSE Fails("NotANumber"))

(* operator==: BIGINTs and what is no number equal nothing. *)
EqualTo(f, n) ==
    LET g == GetValue(f)
    IN  Result(g, IF Numeric(g.type) /\ g.type # "BIGINT" /\ g.value = n
                  THEN Got(n) ELSE No)

(* parse_float() with the symbol. *)
Parses(symbol) == text.kind = "number" /\ text.symbol \in {"", symbol}

(* Mutant: the type stays when the symbol does not fit. *)
MisfitKept(f) == f

(* A DOUBLE that cannot be read with the symbol is a STRING from now on. *)
Misfit(f) == [f EXCEPT !.type = IF @ = "DOUBLE" THEN "STRING" ELSE @]

TryParseDecimal(f, symbol) ==
    LET g == GetValue(f)
    IN  IF g.type \in {"STRING", "DOUBLE"} /\ ~Parses(symbol) THEN Result(Misfit(g), No)
        ELSE IF g.type \in {"STRING", "DOUBLE"}
        THEN Result([type |-> "DOUBLE", value |-> NumberOf(text)], Got(NumberOf(text)))
        ELSE Result(g, IF Numeric(g.type) THEN Got(g.value) ELSE No)

TryParseTimestamp(f) ==
    LET g == GetValue(f)
    IN  Result(g, IF g.type = "TIMESTAMP" THEN Got(text)
                  ELSE IF Integral(g.type) /\ g.value >= 0 THEN Got(g.value) ELSE No)

(* What a caller may ask: get<T>() and its relatives, and the rest. *)
Calls ==
    ({"integral"} \X Types)
    \cup {<<"floating">>, <<"long_double">>, <<"bool">>, <<"time">>, <<"timestamp">>}
    \cup ({"equals"} \X {number, number + 1}) \cup ({"decimal"} \X Symbols)

Do(call, f) ==
    CASE call[1] = "integral"  -> GetIntegral(f, call[2])
      [] call[1] = "floating"  -> GetFloating(f)
      [] call[1] = "long_double" -> GetLongDouble(f)
      [] call[1] = "bool"      -> GetBool(f)
      [] call[1] = "time"      -> GetTime(f)
      [] call[1] = "equals"    -> EqualTo(f, call[2])
      [] call[1] = "decimal"   -> TryParseDecimal(f, call[2])
      [] call[1] = "timestamp" -> TryParseTimestamp(f)

FieldNext ==
    \E call \in Calls :
        /\ csv_field' = [sort \in DOMAIN csv_field |-> Do(call, csv_field[sort]).field]
        /\ answers' = [sort \in DOMAIN csv_field |-> Do(call, csv_field[sort]).answer]
        /\ asked' = call
        /\ separator' = IF call[1] = "decimal" THEN call[2] ELSE separator
        /\ UNCHANGED <<text, number>>

FieldSpec == FieldInit /\ [][FieldNext]_fieldVars

-----------------------------------------------------------------------------
(* What a text promises, whatever was asked before: its number, if it has   *)
(* one under the decimal symbol last tried and the type asked for holds it. *)
Small == text.kind = "number" /\ (text.symbol # "" \/ number \div Unit \in Int64)
Reads(symbol) == Small /\ text.symbol \in {"", symbol}

Promised ==
    LET when(condition, value) == IF condition THEN Got(value) ELSE No
    IN  CASE asked[1] = "integral" ->
                when(Small /\ text.symbol = "" /\ number \div Unit \in RangeOf[asked[2]], number)
          [] asked[1] \in {"floating", "long_double"} -> when(Reads(separator), number)
          [] asked[1] = "bool" -> when(text.kind = "BOOL", text)
          [] asked[1] = "time" -> when(text.kind = "TIMESTAMP", text)
          [] asked[1] = "equals" -> when(Reads(separator) /\ number = asked[2], number)
          [] asked[1] = "decimal" -> when(Reads(asked[2]), number)
          [] asked[1] = "timestamp" ->
                IF text.kind = "TIMESTAMP" THEN Got(text)
                ELSE when(Small /\ text.symbol = "" /\ number >= 0, number)

(* An integer too large for Int64 is taken for 0, and the call succeeds. *)
AsZero ==
    /\ Classified(text, Int64) = "BIGINT" /\ asked[1] \in {"long_double", "decimal"}
    /\ answers["lazy"] = Got(0)

(* A field answers every conversion as its text promises, the same whether  *)
(* it was classified with its row or not and whatever was asked before; and *)
(* a number that was written reads as that number, rounded to the places    *)
(* asked for.  (Of an integer too large for int64_t, get<long double>(),    *)
(* try_get() of one and try_parse_decimal() answer 0: README, "Exceptions".)*)
FieldKeepsPromise ==
    asked # <<>> =>
        /\ answers["eager"] = answers["lazy"]
        /\ \/ answers["lazy"] = Promised
           \/ answers["lazy"][1] = "fails" /\ Promised = No
           \/ AsZero
=============================================================================
