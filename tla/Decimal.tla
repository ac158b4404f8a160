------------------------------- MODULE Decimal -------------------------------
(***************************************************************************)
(* The exact decimals of src/decimal.cpp: reading a literal, writing it,   *)
(* ordering, and the integer a decimal stands for.  A behaviour writes a   *)
(* literal one character after the other, and every literal is checked     *)
(* against the number it spells.                                           *)
(***************************************************************************)
EXTENDS Integers, Sequences, SequencesExt, FiniteSetsExt

CONSTANTS
  Digits,      \* digits that occur, of 0..9
  MaxLength,   \* characters of a literal
  max_digits,
  Bits,        \* width of the integers, 64 in the code
  Others       \* literals a decimal is compared with

VARIABLE literal

\* A digit is its value; the other characters are numbered past the digits.
Minus == 10
Plus == 11
Dot == 12
Letter == 13
Signs == {Minus, Plus}
Characters == Digits \cup Signs \cup {Dot, Letter}

Failed == [ok |-> FALSE]

\* One character of from_literal()'s loop; the characters are read up to the first
\* that it refuses.
ReadChar(d, c) ==
  CASE ~d.ok -> d
    [] d.ok /\ c = Dot -> IF d.after_point THEN Failed ELSE [d EXCEPT !.after_point = TRUE]
    [] d.ok /\ c \in Signs \cup {Letter} -> Failed
    [] d.ok /\ c \in Digits ->
         IF Len(d.digits) = max_digits THEN Failed
         ELSE [d EXCEPT !.digits = Append(@, c), !.scale = @ + (IF d.after_point THEN 1 ELSE 0)]

\* Mutant: the digit put in front may be one too many.
WithIntegerPartPast(d) ==
  IF d.ok /\ Len(d.digits) = d.scale
  THEN IF d.digits = <<>> THEN Failed ELSE [d EXCEPT !.digits = <<0>> \o @]
  ELSE d

\* ".5" means 0.5.
WithIntegerPart(d) ==
  CASE ~d.ok -> d
    [] d.ok /\ Len(d.digits) > d.scale -> d
    [] d.ok /\ Len(d.digits) = d.scale ->
         IF Len(d.digits) \in {0, max_digits} THEN Failed ELSE [d EXCEPT !.digits = <<0>> \o @]

\* Without the leading zeros of the integer part, which keeps a digit.
Stripped(d) ==
  LET kept == {i \in 1..Len(d.digits) : i >= Len(d.digits) - d.scale \/ d.digits[i] # 0}
  IN  SubSeq(d.digits, Min(kept), Len(d.digits))

\* Mutant: a negated zero stays negative.
SignKept(negative, digits) == negative

\* A negated zero would order itself below every positive scale of zero.
Sign(negative, digits) == negative /\ \E i \in DOMAIN digits : digits[i] # 0

from_literal(text) ==
  LET signed == text # <<>> /\ Head(text) \in Signs
      read == FoldLeft(ReadChar, [ok |-> TRUE, after_point |-> FALSE, digits |-> <<>>, scale |-> 0],
                       IF signed THEN Tail(text) ELSE text)
      d == WithIntegerPart(read)
  IN  IF ~d.ok THEN Failed
      ELSE LET digits == Stripped(d) IN
           [ok |-> TRUE, digits |-> digits, scale |-> d.scale,
            negative |-> Sign(signed /\ Head(text) = Minus, digits)]

integer_len(d) == Len(d.digits) - d.scale
integer_first(d) == Min({i \in 1..integer_len(d) : d.digits[i] # 0} \cup {integer_len(d)})

to_literal(d) ==
  (IF d.negative THEN <<Minus>> ELSE <<>>) \o SubSeq(d.digits, 1, integer_len(d))
    \o (IF d.scale > 0 THEN <<Dot>> \o SubSeq(d.digits, integer_len(d) + 1, Len(d.digits)) ELSE <<>>)

\* Mutant: one limit for both signs.
LimitOfEither(negative) == 2^(Bits - 1)

\* The largest magnitude of either sign.
Limit(negative) == IF negative THEN 2^(Bits - 1) ELSE 2^(Bits - 1) - 1

\* One digit of the sum in unsigned arithmetic, refused before it would wrap.
AddDigit(sum, digit) ==
  IF sum < 0 \/ sum > (2^Bits - 1 - digit) \div 10 THEN -1 ELSE sum * 10 + digit

\* The two's complement of the magnitude, read as signed.
Negated(magnitude) ==
  LET unsigned == (2^Bits - 1 - magnitude + 1) % 2^Bits
  IN  IF unsigned >= 2^(Bits - 1) THEN unsigned - 2^Bits ELSE unsigned

to_int64(d) ==
  LET sum == FoldLeft(AddDigit, 0, SubSeq(d.digits, 1, integer_len(d)))
  IN  IF \/ \E i \in integer_len(d) + 1..Len(d.digits) : d.digits[i] # 0
         \/ sum < 0 \/ sum > Limit(d.negative)
      THEN Failed
      ELSE [ok |-> TRUE, value |-> IF d.negative THEN Negated(sum) ELSE sum]

\* -1, 0 or 1 at the first place two runs of digits differ.
FirstDifference(a, b) ==
  LET differ == {i \in DOMAIN a : a[i] # b[i]}
  IN  IF differ = {} THEN 0 ELSE IF a[Min(differ)] < b[Min(differ)] THEN -1 ELSE 1

compare_magnitude(a, b) ==
  LET whole(d) == SubSeq(d.digits, integer_first(d), integer_len(d))
      Digit(d, i) == IF i <= d.scale THEN d.digits[integer_len(d) + i] ELSE 0
      places == 1..Max({a.scale, b.scale})
  IN  CASE Len(whole(a)) < Len(whole(b)) -> -1
        [] Len(whole(a)) > Len(whole(b)) -> 1
        [] OTHER ->
             LET first == FirstDifference(whole(a), whole(b))
             IN  IF first # 0 THEN first
                 ELSE FirstDifference([i \in places |-> Digit(a, i)], [i \in places |-> Digit(b, i)])

\* operator<=>
order(a, b) ==
  IF a.negative # b.negative THEN IF a.negative THEN -1 ELSE 1
  ELSE IF a.negative THEN -compare_magnitude(a, b) ELSE compare_magnitude(a, b)
-----------------------------------------------------------------------------
DecimalInit == literal = <<>>
WriteChar(c) == Len(literal) < MaxLength /\ literal' = Append(literal, c)
DecimalNext == \E c \in Characters : WriteChar(c)
DecimalSpec == DecimalInit /\ [][DecimalNext]_literal
-----------------------------------------------------------------------------
(* What a literal spells, by the places of its digits *)

Body(text) == IF text # <<>> /\ Head(text) \in Signs THEN Tail(text) ELSE text
Point(body) == Min({i \in 1..Len(body) : body[i] = Dot} \cup {Len(body) + 1})
Figures(body) == {i \in 1..Len(body) : body[i] \in Digits}

Spells(text) ==
  LET body == Body(text) IN
  /\ Figures(body) # {} /\ \A i \in 1..Len(body) : i \in Figures(body) \cup {Point(body)}
  /\ Cardinality(Figures(body)) + (IF Point(body) = 1 THEN 1 ELSE 0) <= max_digits

\* The number, times 10^max_digits.
Number(text) ==
  LET body == Body(text)
      Weight(i) == 10^(max_digits + Point(body) - i - (IF i < Point(body) THEN 1 ELSE 0))
      size == FoldSet(LAMBDA i, sum : sum + body[i] * Weight(i), 0, Figures(body))
  IN  IF Head(text) = Minus THEN -size ELSE size

\* A literal is read exactly when it is a run of digits with at most one point
\* within max_digits, and written back it is read as the same decimal, scale and all,
\* with a digit before the point (decimal.hpp:24-32, 57-58, decimal.cpp:12-118).
LiteralsKept ==
  LET d == from_literal(literal) IN
  /\ d.ok <=> Spells(literal)
  /\ d.ok => /\ integer_len(d) > 0
             /\ from_literal(to_literal(d)) = d
             /\ Number(to_literal(d)) = Number(literal)

\* A decimal that is an integer within 64 bits is given as that integer, the
\* least one included, and every other is refused (decimal.cpp:138-161).
IntegersFit ==
  LET d == from_literal(literal) IN
  d.ok =>
    LET i == to_int64(d) IN
    /\ i.ok <=> /\ Number(literal) % 10^max_digits = 0
                /\ Number(literal) \div 10^max_digits \in -(2^(Bits - 1))..(2^(Bits - 1) - 1)
    /\ i.ok => i.value * 10^max_digits = Number(literal)

\* Decimals are ordered as the numbers they are, whatever their scales, signs and
\* zeros (decimal.cpp:163-203).
OrderedAsNumbers ==
  LET d == from_literal(literal) IN
  d.ok => \A text \in Others :
    order(d, from_literal(text)) =
      (IF Number(literal) < Number(text) THEN -1 ELSE IF Number(literal) > Number(text) THEN 1 ELSE 0)
=============================================================================
