------------------------------- MODULE Printf -------------------------------
(***************************************************************************)
(* Formatted output: printf and the functions that print numbers, and      *)
(* atoi, of src/lib/stdio.c.  printf reads its format one character ahead  *)
(* or two; `at' is where it is, and one step is one turn of its loop.      *)
(* Words are scaled down, and the sizes of the buffers that depend on them *)
(* with them.  Of what is printed the last number is kept, as the sequence *)
(* of its characters.                                                      *)
(***************************************************************************)
EXTENDS Integers, Sequences

CONSTANTS
    IntBits, LongBits,  \* the sizes of int and long: 32 and 64
    Formats,            \* sequences of characters
    Args                \* the words passed for the arguments

NUL == "nul"

\* Two to the power of n.
TwoTo(n) ==
    LET power[k \in 0..n] == IF k = 0 THEN 1 ELSE 2 * power[k - 1]
    IN  power[n]

Ints == 0..(TwoTo(IntBits) - 1)
Longs == 0..(TwoTo(LongBits) - 1)

ASSUME WordsWhole ==
    /\ IntBits \in Nat \ {0} /\ IntBits % 4 = 0
    /\ LongBits \in Nat /\ LongBits % 8 = 0 /\ IntBits < LongBits
ASSUME ArgsAreWords == Args \subseteq Longs
ASSUME FormatsAreStrings == \A f \in Formats : f \in Seq(STRING)

VARIABLES
    format, at,     \* the format, and the position printf looks at
    last            \* the last number printed: who printed it, the number, the digits

vars == <<format, at, last>>

-----------------------------------------------------------------------------
(* The numbers.                                                             *)

DigitChars == <<"0", "1", "2", "3", "4", "5", "6", "7", "8", "9", "A", "B", "C", "D", "E", "F">>
ToChar(d) == DigitChars[d + 1]
DigitOf(c) == CHOOSE d \in 0..15 : ToChar(d) = c

\* What is left of n when i digits have been divided off.
Left(n, base, i) ==
    LET rest[k \in 0..i] == IF k = 0 THEN n ELSE rest[k - 1] \div base
    IN  rest[i]

\* The digits that a loop writes, while the number is not 0 and there are fewer
\* than limit.
Count(n, base, limit) ==
    CHOOSE i \in 0..limit : /\ Left(n, base, i) = 0 \/ i = limit
                            /\ \A j \in 0..(i - 1) : Left(n, base, j) # 0

\* The lowest digit is the first in the buffer.
Loop(n, base, limit) ==
    [i \in 1..Count(n, base, limit) |-> ToChar(Left(n, base, i - 1) % base)]

\* mutated: the digits are printed as they were written
Printed_Unreversed(n, base, limit) == IF n = 0 THEN <<"0">> ELSE Loop(n, base, limit)

\* The buffer is printed from its end.
Printed(n, base, limit) ==
    LET buf == Loop(n, base, limit)
    IN  IF n = 0 THEN <<"0">> ELSE [i \in 1..Len(buf) |-> buf[Len(buf) - i + 1]]

\* A fixed number of hexadecimal digits.
Fixed(n, digits) == [k \in 1..digits |-> ToChar(Left(n, 16, digits - k) % 16)]

\* Where the loops of print_uint and its like stop: 31.
DigitLimit == LongBits \div 2 - 1

print_uint(n) == Printed(n, 10, DigitLimit)
print_hex_upper(n) == Printed(n, 16, DigitLimit)
print_octal(n) == Printed(n, 8, DigitLimit)
print_binary(n) == Printed(n, 2, LongBits - 1)

\* The buffer is filled from its end, for as long as there are digits: its 20
\* places are enough for 64 bits.
print_int(n) == Printed(n, 10, LongBits)
print_hex(n) == Fixed(n, LongBits \div 4 + 2)

serial_write_int(n) == print_int(n)
serial_write_hex(n) == Fixed(n, IntBits \div 4)

Text(p, n) ==
    CASE p = "print_uint" -> print_uint(n)
      [] p = "print_int" -> print_int(n)
      [] p = "print_hex" -> print_hex(n)
      [] p = "print_hex_upper" -> print_hex_upper(n)
      [] p = "print_octal" -> print_octal(n)
      [] p = "print_binary" -> print_binary(n)
      [] p = "serial_write_int" -> serial_write_int(n)
      [] p = "serial_write_hex" -> serial_write_hex(n)

Printers == {"print_uint", "print_int", "print_hex", "print_hex_upper", "print_octal",
             "print_binary", "serial_write_int", "serial_write_hex"}

\* The printers take a uint64_t: a negative number becomes a large one.
ToWord(n) == IF n < 0 THEN n + TwoTo(LongBits) ELSE n

PrintNumber(p, n) == last' = [by |-> p, number |-> n, text |-> Text(p, ToWord(n))]

\* An int keeps the low bits of a result that does not fit.
ToInt(r) ==
    LET low == r % TwoTo(IntBits)
    IN  IF low < TwoTo(IntBits - 1) THEN low ELSE low - TwoTo(IntBits)

\* atoi: blanks, a sign and digits, up to the first other character.
Decimal == {ToChar(d) : d \in 0..9}
Whitespace == {" ", "\t", "\n"}
SkipWhile(s, S) ==
    CHOOSE i \in 1..(Len(s) + 1) : /\ i <= Len(s) => s[i] \notin S
                                   /\ \A j \in 1..(i - 1) : s[j] \in S
ReadDigits(s) ==
    LET result[k \in 0..Len(s)] ==
            IF k = 0 THEN 0 ELSE ToInt(result[k - 1] * 10 + DigitOf(s[k]))
    IN  result[Len(s)]
atoi(s) ==
    LET t == SubSeq(s, SkipWhile(s, Whitespace), Len(s))
        signed == t # <<>> /\ Head(t) \in {"-", "+"}
        u == IF signed THEN Tail(t) ELSE t
        result == ReadDigits(SubSeq(u, 1, SkipWhile(u, Decimal) - 1))
    IN  IF signed /\ Head(t) = "-" THEN ToInt(-result) ELSE result

-----------------------------------------------------------------------------
(* printf.                                                                  *)

Char(i) == IF i <= Len(format) THEN format[i] ELSE NUL

Init ==
    /\ format \in Formats /\ at = 1
    /\ last = [by |-> "none", number |-> 0, text |-> <<>>]

\* va_arg, of the words passed: an unsigned int is the low half, an int the
\* low half with its sign, a long long the word with its sign.
AsUnsigned == {w % TwoTo(IntBits) : w \in Args}
AsInt == {ToInt(w) : w \in Args}
AsLongLong == {IF w < TwoTo(LongBits - 1) THEN w ELSE w - TwoTo(LongBits) : w \in Args}

Number(p, numbers, length) ==
    /\ \E n \in numbers : PrintNumber(p, n)
    /\ at' = at + length

\* mutated: a conversion is looked for behind the last character
HasConversion_AtEnd == Char(at) = "%"

HasConversion == Char(at) = "%" /\ Char(at + 1) # NUL

\* %ll and a letter, or the hexadecimal number that any other %l is.
LongNumber ==
    CASE Char(at + 2) = "l" /\ Char(at + 3) = "u" -> Number("print_uint", Args, 4)
      [] Char(at + 2) = "l" /\ Char(at + 3) = "d" -> Number("print_int", AsLongLong, 4)
      [] Char(at + 2) = "l" /\ Char(at + 3) = "x" -> Number("print_hex", Args, 4)
      [] Char(at + 2) = "l" /\ Char(at + 3) = "X" -> Number("print_hex_upper", Args, 4)
      [] Char(at + 2) = "l" /\ Char(at + 3) \notin {"u", "d", "x", "X"} -> Number("print_hex", Args, 3)
      [] OTHER -> Number("print_hex", Args, 2)

\* %s, %c, %%, and the characters behind a % that mean nothing.
NoNumber == at' = at + 2 /\ UNCHANGED last

\* "d" stands for %i as well.
Conversion ==
    /\ HasConversion
    /\ CASE Char(at + 1) = "d" -> Number("print_int", AsInt, 2)
         [] Char(at + 1) = "u" -> Number("print_uint", AsUnsigned, 2)
         [] Char(at + 1) = "l" -> LongNumber
         [] Char(at + 1) = "x" -> Number("print_hex", AsUnsigned, 2)
         [] Char(at + 1) = "X" -> Number("print_hex_upper", AsUnsigned, 2)
         [] Char(at + 1) = "o" -> Number("print_octal", AsUnsigned, 2)
         [] Char(at + 1) = "b" -> Number("print_binary", AsUnsigned, 2)
         [] Char(at + 1) = "p" -> Number("print_hex_upper", Args, 2)
         [] OTHER -> NoNumber
    /\ UNCHANGED format

Literal ==
    /\ Char(at) # NUL /\ ~HasConversion
    /\ at' = at + 1
    /\ UNCHANGED <<format, last>>

\* Other code calls the printers as well, with any number of the type of their
\* parameter; here that is instead of a printf.
Direct ==
    /\ format = <<>> /\ last.by = "none"
    /\ \E p \in Printers, n \in Longs :
          /\ p = "serial_write_hex" => n \in Ints
          /\ PrintNumber(p, n)
    /\ UNCHANGED <<format, at>>

Next == Conversion \/ Literal \/ Direct

Spec == Init /\ [][Next]_vars

-----------------------------------------------------------------------------
Base(p) ==
    CASE p \in {"print_uint", "print_int", "serial_write_int"} -> 10
      [] p = "print_octal" -> 8 [] p = "print_binary" -> 2 [] OTHER -> 16

\* What a sequence of digits means.
Value(text, base) ==
    LET value[k \in 0..Len(text)] == IF k = 0 THEN 0 ELSE value[k - 1] * base + DigitOf(text[k])
    IN  value[Len(text)]

\* What is printed reads back as the number the caller has passed, with two
\* exceptions: a negative %d or %lld is printed without a sign, as the number
\* 2^64 larger, and print_binary, whose loop stops at 63 digits, leaves out the
\* highest bit of a number that has it.
ReadsBackAs(p, n) ==
    CASE n < 0 -> n + TwoTo(LongBits)
      [] p = "print_binary" /\ n >= TwoTo(LongBits - 1) -> n - TwoTo(LongBits - 1)
      [] OTHER -> n

\* The digits of every number that is printed mean what ReadsBackAs says, and
\* atoi reads back a decimal number that fits an int: apart from print_binary's,
\* no limit of a loop cuts off a digit.
NumbersReadBack ==
    last.by # "none" =>
        /\ Value(last.text, Base(last.by)) = ReadsBackAs(last.by, last.number)
        /\ Base(last.by) = 10 /\ last.number \in 0..(TwoTo(IntBits - 1) - 1) =>
              atoi(last.text) = last.number

\* Looking ahead for %ll and stepping over what it has seen, printf never
\* steps over the end of its format.
StaysInFormat == at <= Len(format) + 1
=============================================================================
