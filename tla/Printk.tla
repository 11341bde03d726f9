------------------------------- MODULE Printk -------------------------------
(***************************************************************************)
(* The formatting of kernel/printk.c: vsprintf reads a format a character  *)
(* at a time and number lays out an integer.  A format is a sequence of    *)
(* characters rendered from pieces, texts and conversions, which the       *)
(* property compares the result with; the arguments are those of the       *)
(* pieces.  Integers have Bits bits.                                       *)
(*                                                                         *)
(* A definition marked FAULT is a plausible slip in the one after it, kept *)
(* to show that a property would notice it.                                *)
(***************************************************************************)
EXTENDS Integers, Sequences, SequencesExt

CONSTANTS
    Formats,  \* the formats: sequences of pieces
    Bits      \* the width of an int: 32 in the code

VARIABLES
    pieces,   \* history: what the format was rendered from
    format,   \* the format, without its terminating zero
    pos,      \* where the pointer format is in it
    args,     \* what va_arg has not returned yet
    buff,     \* the characters written
    stored,   \* what %n conversions have stored
    pc,       \* the part of vsprintf under way
    flags, field_width, precision

vars == <<pieces, format, pos, args, buff, stored, pc, flags, field_width, precision>>

DigitChars == <<"0", "1", "2", "3", "4", "5", "6", "7", "8", "9">>
Value(c) == (CHOOSE i \in DOMAIN DigitChars : DigitChars[i] = c) - 1
IsDigit(c) == c \in ToSet(DigitChars)

FlagOf == [c \in {"-", "+", " ", "#", "0"} |->
            CASE c = "-" -> "LEFT" [] c = "+" -> "PLUS" [] c = " " -> "SPACE"
              [] c = "#" -> "SPECIAL" [] c = "0" -> "ZEROPAD"]

Larger(a, b) == IF a < b THEN b ELSE a
Repeat(c, n) == [i \in 1 .. n |-> c]

(***************************************************************************)
(* Pieces: [text |-> c], or a conversion with its flags, width and         *)
(* precision (-1 when there is none, in star when an argument gives them), *)
(* letter, after a qualifier if any, and argument; an open conversion is   *)
(* one the format ends in.                                                 *)
(***************************************************************************)
IsText(p) == "text" \in DOMAIN p
Decimal(n) == IF n > 9 THEN <<DigitChars[n \div 10 + 1], DigitChars[(n % 10) + 1]>>
              ELSE <<DigitChars[n + 1]>>
Render(p) ==
    IF IsText(p) THEN IF p.text = "%" THEN <<"%", "%">> ELSE <<p.text>>
    ELSE <<"%">> \o p.flags
         \o (IF "width" \in p.star THEN <<"*">>
             ELSE IF p.width = -1 THEN <<>> ELSE Decimal(p.width))
         \o (IF "precision" \in p.star THEN <<".", "*">>
             ELSE IF p.precision = -1 THEN <<>> ELSE <<".">> \o Decimal(p.precision))
         \o p.letter
ArgsOf(p) == IF IsText(p) THEN <<>>
             ELSE (IF "width" \in p.star THEN <<p.width>> ELSE <<>>)
                  \o (IF "precision" \in p.star THEN <<p.precision>> ELSE <<>>) \o p.args
Joined(f(_), s) == FoldLeft(LAMBDA acc, p : acc \o f(p), <<>>, s)

(***************************************************************************)
(* number                                                                  *)
(***************************************************************************)
DigitsOf(small) == DigitChars \o (IF small THEN <<"a", "b", "c", "d", "e", "f">>
                                  ELSE <<"A", "B", "C", "D", "E", "F">>)

\* FAULT: the magnitude of a negative number is taken as a signed number.
MagnitudeSigned(num, negative) == IF negative THEN (-num) % 2^(Bits - 1) ELSE num % 2^Bits

\* num = -num wraps around for the least number, and do_div divides it as an
\* unsigned one.
Magnitude(num, negative) == (IF negative THEN -num ELSE num) % 2^Bits

Number(num, base, size, prec, type) ==
    LET negative == "SIGN" \in type /\ num < 0
        sign == IF negative THEN <<"-">>
                ELSE IF "PLUS" \in type THEN <<"+">>
                ELSE IF "SPACE" \in type THEN <<" ">> ELSE <<>>
        special == IF "SPECIAL" \notin type \/ base \notin {8, 16} THEN <<>>
                   ELSE IF base = 8 THEN <<"0">>
                   ELSE <<"0", IF "SMALL" \in type THEN "x" ELSE "X">>
        Digits[n \in Nat] ==
            LET d == <<DigitsOf("SMALL" \in type)[(n % base) + 1]>>
            IN  IF n < base THEN d ELSE Digits[n \div base] \o d
        tmp == Digits[Magnitude(num, negative)]
        least == Larger(Len(tmp), prec)
        rest == size - Len(sign) - Len(special) - least
        left == "LEFT" \in type
        zero == "ZEROPAD" \in type /\ ~left
    IN  Repeat(" ", IF left \/ zero THEN 0 ELSE rest) \o sign \o special
        \o Repeat("0", IF zero THEN rest ELSE 0) \o Repeat("0", least - Len(tmp)) \o tmp
        \o Repeat(" ", IF left THEN rest ELSE 0)

(***************************************************************************)
(* vsprintf                                                                *)
(***************************************************************************)
Init ==
    /\ pieces \in Formats
    /\ format = Joined(Render, pieces)
    /\ args = Joined(ArgsOf, pieces)
    /\ pos = 1 /\ buff = <<>> /\ stored = <<>> /\ pc = "scan"
    /\ flags = {} /\ field_width = -1 /\ precision = -1

End == Len(format) + 1
Char == IF pos = End THEN "NUL" ELSE format[pos]

Literal ==
    /\ pc = "scan" /\ pos < End /\ Char # "%"
    /\ buff' = Append(buff, Char)
    /\ pos' = pos + 1
    /\ UNCHANGED <<pieces, format, args, stored, pc, flags, field_width, precision>>

Percent ==
    /\ pc = "scan" /\ pos < End /\ Char = "%"
    /\ flags' = {}
    /\ pos' = pos + 1
    /\ pc' = "flags"
    /\ UNCHANGED <<pieces, format, args, buff, stored, field_width, precision>>

Flag ==
    /\ pc = "flags" /\ Char \in DOMAIN FlagOf
    /\ flags' = flags \cup {FlagOf[Char]}
    /\ pos' = pos + 1
    /\ UNCHANGED <<pieces, format, args, buff, stored, pc, field_width, precision>>

\* FAULT: the first digit only.
SkipAtoiOne(from) == [value |-> Value(format[from]), pos |-> from + 1]

\* skip_atoi, called at a digit.
SkipAtoi(from) ==
    LET last == CHOOSE l \in from .. Len(format) :
                    /\ \A i \in from .. l : IsDigit(format[i])
                    /\ l + 1 = End \/ ~IsDigit(format[l + 1])
    IN  [value |-> FoldLeft(LAMBDA acc, c : 10 * acc + Value(c), 0, SubSeq(format, from, last)),
         pos |-> last + 1]

\* The width is a number, or an argument at a star, which is not skipped.
Width ==
    /\ pc = "flags" /\ Char \notin DOMAIN FlagOf
    /\ pc' = "precision"
    /\ IF IsDigit(Char)
       THEN /\ field_width' = SkipAtoi(pos).value
            /\ pos' = SkipAtoi(pos).pos
            /\ UNCHANGED <<args, flags>>
       ELSE IF Char = "*"
       THEN /\ field_width' = IF args[1] < 0 THEN -args[1] ELSE args[1]
            /\ flags' = IF args[1] < 0 THEN flags \cup {"LEFT"} ELSE flags
            /\ args' = Tail(args)
            /\ UNCHANGED pos
       ELSE field_width' = -1 /\ UNCHANGED <<args, flags, pos>>
    /\ UNCHANGED <<pieces, format, buff, stored, precision>>

\* So is the precision; a point alone counts as precision 0.
Precision ==
    /\ pc = "precision"
    /\ pc' = "convert"
    /\ LET after == IF pos + 1 < End THEN format[pos + 1] ELSE "NUL"
       IN  IF Char # "."
           THEN precision' = -1 /\ UNCHANGED <<pos, args>>
           ELSE IF IsDigit(after)
           THEN /\ precision' = SkipAtoi(pos + 1).value
                /\ pos' = SkipAtoi(pos + 1).pos
                /\ UNCHANGED args
           ELSE /\ precision' = IF after = "*" THEN Larger(args[1], 0) ELSE 0
                /\ args' = IF after = "*" THEN Tail(args) ELSE args
                /\ pos' = pos + 1
    /\ UNCHANGED <<pieces, format, buff, stored, flags, field_width>>

Qualifier ==
    /\ pc = "convert" /\ Char \in {"h", "l", "L"}
    /\ pos' = pos + 1
    /\ pc' = "letter"
    /\ UNCHANGED <<pieces, format, args, buff, stored, flags, field_width, precision>>

\* The letter is reached, with or without a qualifier.
AtLetter == pc = "letter" \/ (pc = "convert" /\ Char \notin {"h", "l", "L"})

Converted(text) ==
    /\ buff' = buff \o text
    /\ args' = Tail(args)
    /\ pos' = pos + 1
    /\ pc' = "scan"
    /\ UNCHANGED <<pieces, format, stored, flags, field_width, precision>>

Padded(text) ==
    LET pad == Repeat(" ", field_width - Len(text))
    IN  IF "LEFT" \in flags THEN text \o pad ELSE pad \o text

ConvertChar == AtLetter /\ Char = "c" /\ Converted(Padded(<<args[1]>>))

ConvertString ==
    /\ AtLetter /\ Char = "s"
    /\ LET s == args[1]
       IN  Converted(Padded(IF precision < 0 \/ Len(s) <= precision THEN s
                            ELSE SubSeq(s, 1, precision)))

Base(c) == CASE c = "o" -> 8 [] c \in {"p", "x", "X"} -> 16
             [] c \in {"d", "i", "u"} -> 10 [] c = "b" -> 2

ConvertNumber ==
    /\ AtLetter /\ Char \in {"o", "p", "x", "X", "d", "i", "u", "b"}
    /\ LET wide == Char = "p" /\ field_width = -1
           type == flags \cup (IF wide THEN {"ZEROPAD"} ELSE {})
                         \cup (IF Char = "x" THEN {"SMALL"} ELSE {})
                         \cup (IF Char \in {"d", "i"} THEN {"SIGN"} ELSE {})
       IN  Converted(Number(args[1], Base(Char), IF wide THEN 8 ELSE field_width, precision, type))

ConvertCount ==
    /\ AtLetter /\ Char = "n"
    /\ stored' = Append(stored, Len(buff))
    /\ args' = Tail(args)
    /\ pos' = pos + 1
    /\ pc' = "scan"
    /\ UNCHANGED <<pieces, format, buff, flags, field_width, precision>>

\* FAULT: the pointer is not taken back at the end of the format.
ConvertOtherBeyond ==
    /\ AtLetter /\ Char \notin {"c", "s", "o", "p", "x", "X", "d", "i", "u", "b", "n"}
    /\ buff' = buff \o (IF Char # "%" THEN <<"%">> ELSE <<>>)
                    \o (IF Char # "NUL" THEN <<Char>> ELSE <<>>)
    /\ pos' = pos + 1
    /\ pc' = "scan"
    /\ UNCHANGED <<pieces, format, args, stored, flags, field_width, precision>>

\* Any other letter is written after a percent sign; at the end of the format
\* the pointer is taken back for the increment of the loop.
ConvertOther ==
    /\ AtLetter /\ Char \notin {"c", "s", "o", "p", "x", "X", "d", "i", "u", "b", "n"}
    /\ buff' = buff \o (IF Char # "%" THEN <<"%">> ELSE <<>>)
                    \o (IF Char # "NUL" THEN <<Char>> ELSE <<>>)
    /\ pos' = IF Char = "NUL" THEN pos ELSE pos + 1
    /\ pc' = "scan"
    /\ UNCHANGED <<pieces, format, args, stored, flags, field_width, precision>>

Finish ==
    /\ pc = "scan" /\ pos = End
    /\ pc' = "done"
    /\ UNCHANGED <<pieces, format, pos, args, buff, stored, flags, field_width, precision>>

Next == \/ Literal \/ Percent \/ Flag \/ Width \/ Precision \/ Qualifier
        \/ ConvertChar \/ ConvertString \/ ConvertNumber \/ ConvertCount \/ ConvertOther
        \/ Finish

Spec == Init /\ [][Next]_vars

-----------------------------------------------------------------------------
(***************************************************************************)
(* What a conversion means: C's rules, but for four of them.  A sign asked *)
(* for is written for unsigned numbers as well, a prefix for zero and      *)
(* before the zeros of a precision as well; the zero flag pads with zeros  *)
(* in spite of a precision; and zero with precision 0 is one digit.        *)
(***************************************************************************)
Has(p, c) == c \in ToSet(p.flags)
Letter(p) == Last(p.letter)
Open(p) == ~IsText(p) /\ p.letter \in {<<>>, <<"l">>}
Counts(p) == ~IsText(p) /\ ~Open(p) /\ Letter(p) = "n"
IsNumber(p) == Letter(p) \in {"o", "x", "X", "d", "i", "u", "b"}

HasStar(p) == ~IsText(p) /\ p.star # {}

\* The digits of m, from their places.
Places(m, base, chars) ==
    LET k == CHOOSE k \in 1 .. Bits : base^k > m /\ (k = 1 \/ base^(k - 1) <= m)
    IN  [i \in 1 .. k |-> chars[((m \div base^(k - i)) % base) + 1]]

Meaning(p) ==
    LET n == p.args[1]
        signed == Letter(p) \in {"d", "i"}
        m == IF ~signed THEN n % 2^Bits ELSE IF n < 0 THEN -n ELSE n
        sign == IF signed /\ n < 0 THEN <<"-">>
                ELSE IF Has(p, "+") THEN <<"+">> ELSE IF Has(p, " ") THEN <<" ">> ELSE <<>>
        prefix == IF ~Has(p, "#") THEN <<>>
                  ELSE CASE Letter(p) = "o" -> <<"0">> [] Letter(p) = "x" -> <<"0", "x">>
                         [] Letter(p) = "X" -> <<"0", "X">> [] OTHER -> <<>>
        digits == Places(m, Base(Letter(p)), DigitsOf(Letter(p) = "x"))
        zeros == Repeat("0", p.precision - Len(digits))
        text == CASE Letter(p) = "c" -> <<n>>
                  [] Letter(p) = "s" -> IF p.precision = -1 THEN n
                                        ELSE SubSeq(n, 1, IF Len(n) < p.precision THEN Len(n) ELSE p.precision)
                  [] OTHER -> sign \o prefix \o zeros \o digits
        short == p.width - Len(text)
    IN  CASE IsText(p) -> <<p.text>>
          [] Open(p) -> <<"%">>
          [] Letter(p) = "n" -> <<>>
          [] Letter(p) = "p" -> Repeat("0", 8 - Len(Places(n % 2^Bits, 16, DigitsOf(FALSE))))
                                \o Places(n % 2^Bits, 16, DigitsOf(FALSE))
          [] OTHER -> IF Has(p, "-") THEN text \o Repeat(" ", short)
                      ELSE IF Has(p, "0") /\ IsNumber(p)
                           THEN sign \o prefix \o Repeat("0", short) \o zeros \o digits
                      ELSE Repeat(" ", short) \o text

\* Whatever conversions a format strings together, without stars, vsprintf writes
\* what they mean one by one: no width, precision, flag or argument of one reaches
\* another, and %n stores the length so far.  The end of any format is found, also
\* within a conversion, and nothing beyond it is read (printk.c:310-314).
PrintsAsMeant ==
    /\ pos <= End
    /\ pc = "done" /\ (\A i \in DOMAIN pieces : ~HasStar(pieces[i]))
        => /\ buff = Joined(Meaning, pieces)
           /\ args = <<>>
           /\ stored = FoldLeftDomain(LAMBDA acc, i :
                            IF Counts(pieces[i])
                            THEN Append(acc, Len(Joined(Meaning, SubSeq(pieces, 1, i)))) ELSE acc,
                            <<>>, pieces)

\* What printk.c:204 and 219 say of a star in the place of a width or a precision
\* ("it's the next argument"): the number is laid out in the field that argument
\* gives.
StarsGiveTheField ==
    pc = "done" /\ (\E i \in DOMAIN pieces : HasStar(pieces[i])) => buff = Joined(Meaning, pieces)
=============================================================================
