----------------------------- MODULE NumberText -----------------------------
(***************************************************************************)
(* The texts numbers have: to_string() of csv_writer.hpp, digit by digit,  *)
(* and what a text is to the conversions of CSVField.                      *)
(*   src/include/internal/csv_writer.hpp, data_type.hpp                    *)
(*                                                                         *)
(* A number is an integer, or a fraction counted in thousandths.  Long     *)
(* doubles are taken to be exact, which they are for numbers this small,   *)
(* and an integer has an opposite: of the least int, to_string() multiplies*)
(* by -1 and overflows (README, "Exceptions").                             *)
(***************************************************************************)
EXTENDS Integers, Sequences

Unit == 1000
MostPlaces == 3   \* bound on DECIMAL_PLACES

(* A text is a word, or a literal: a sign and the digits on either side of  *)
(* a decimal symbol; without one it is "".                                  *)
Word(word) == [kind |-> word, negative |-> FALSE, whole |-> <<>>, symbol |-> "", part |-> <<>>]
Literal(negative, whole, symbol, part) ==
    [kind |-> "number", negative |-> negative, whole |-> whole, symbol |-> symbol, part |-> part]

pow10[n \in 0..9] == IF n = 0 THEN 1 ELSE 10 * pow10[n - 1]
MostWhole == pow10[9] - 1   \* bound on whole numbers
Absolute(x) == IF x < 0 THEN -x ELSE x

num_digits(x) ==
    IF x = 0 THEN 1 ELSE CHOOSE n \in 1..9 : pow10[n - 1] <= x /\ x < pow10[n]

(* The last n digits, the first of them first. *)
Digits(x, n) == [k \in 1..n |-> (x % pow10[n - k + 1]) \div pow10[n - k]]

IntegerText(x) == Literal(x < 0, Digits(Absolute(x), num_digits(Absolute(x))), "", <<>>)

Carry(integral, rounded, scale) ==
    IF rounded >= scale THEN <<integral + 1, 0>> ELSE <<integral, rounded>>

(* A number of thousandths with so many decimal places, halves away from 0. *)
FractionText(x, places) ==
    LET scale == pow10[places]
        fractional == Absolute(x) % Unit
        rounded == (2 * fractional * scale + Unit) \div (2 * Unit)
        parts == Carry(Absolute(x) \div Unit, rounded, scale)
    IN  Literal(x < 0, Digits(parts[1], num_digits(parts[1])), ".",
                IF parts[2] > 0 THEN Digits(parts[2], places) ELSE <<0>>)

-----------------------------------------------------------------------------
(* The number a literal stands for, in thousandths. *)
Value(digits) ==
    LET read[n \in 0..Len(digits)] == IF n = 0 THEN 0 ELSE 10 * read[n - 1] + digits[n]
    IN  read[Len(digits)]

NumberOf(text) ==
    LET size == Unit * Value(text.whole) + Value(text.part) * pow10[MostPlaces - Len(text.part)]
    IN  IF text.negative THEN -size ELSE size

(* classify_field_scalar(): integers by the least width they fit, up to     *)
(* Int64; a fraction has a point.  A type is the set of what it may be.     *)
Classified(text, Int64) ==
    IF text.kind # "number" THEN text.kind
    ELSE IF text.symbol = "." THEN "DOUBLE"
    ELSE IF text.symbol # "" THEN "STRING"
    ELSE IF NumberOf(text) \div Unit \in Int64 THEN "INT" ELSE "BIGINT"
=============================================================================
