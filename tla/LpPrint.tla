------------------------------- MODULE LpPrint ------------------------------
(***************************************************************************)
(* lib/print.c.  lp_Print walks a format character by character: one step  *)
(* outputs the text up to the next "%", the next one handles a directive.  *)
(* Apart from it, a number, string or character is laid out in its field.  *)
(*                                                                         *)
(* The formats of the kernel are constants, and no width in them is near   *)
(* LP_MAX_BUF.  Machine words are narrow here: an int has IntBits bits, a  *)
(* long and an argument register LongBits.                                 *)
(***************************************************************************)
EXTENDS Integers, Sequences

CONSTANTS
    Format,            \* the formats printed
    IntBits, LongBits, \* sizes of the C types
    MaxWidth           \* bound: field widths

\* A format is a string of C: the terminator is not in it.
ASSUME FormatAssumption == Format \subseteq Seq(STRING \ {"\\0"})
ASSUME WordAssumption == IntBits \in Nat \ {0} /\ LongBits \in Nat /\ LongBits >= IntBits

Conversion == {"d", "x", "s"}  \* the letters with a case in the switch, by kind
Digit == {"0", "5"}
Prefix == Digit \union {"l", "-", "."}

VARIABLES
    fmt, at,   \* the format, and the position fmt points to
    printPc,   \* "text", "directive" or "end"
    shown,     \* the parts of the format output so far, in order
    field      \* a field laid out: its input and its characters
printVars == <<fmt, at, printPc, shown, field>>

End == Len(fmt) + 1  \* the position of the terminator
Char(k) == IF k = End THEN "\\0" ELSE fmt[k]

\* The loops that skip characters: the first position from k on not in S.
Skip(k, S) ==
    CHOOSE j \in k..End : Char(j) \notin S /\ \A m \in k..(j - 1) : Char(m) \in S
SkipOne(k, c) == IF Char(k) = c THEN k + 1 ELSE k

Part(kind, from, to) == [kind |-> kind, from |-> from, to |-> to]

-----------------------------------------------------------------------------
\* Scan for the next "%" and flush; the terminator ends the loop.
Text ==
    LET j == Skip(at, {fmt[k] : k \in DOMAIN fmt} \ {"%"})
    IN  /\ printPc = "text"
        /\ shown' = Append(shown, Part("text", at, j - 1))
        /\ IF j = End THEN printPc' = "end" /\ at' = End ELSE printPc' = "directive" /\ at' = j + 1
        /\ UNCHANGED <<fmt, field>>

\* The prefixes, in the only order in which they are recognised: where they end.
PrefixEnd(k) ==
    LET width == Skip(SkipOne(SkipOne(SkipOne(k, "l"), "-"), "0"), Digit)
    IN  IF Char(width) = "." THEN Skip(width + 1, Digit) ELSE width

\* Mutant: without fmt-- the position moves past the terminator.
DirectivePastEnd ==
    LET c == PrefixEnd(at)
    IN  /\ printPc = "directive"
        /\ shown' = IF Char(c) = "\\0" THEN shown
                    ELSE Append(shown, IF Char(c) \in Conversion THEN Part("field", at - 1, c)
                                       ELSE Part("char", c, c))
        /\ at' = c + 1
        /\ printPc' = "text"
        /\ UNCHANGED <<fmt, field>>

\* The switch: a conversion takes an argument, any other character is output as it is.
Directive ==
    LET c == PrefixEnd(at)
    IN  /\ printPc = "directive"
        /\ \/ /\ Char(c) = "\\0"
              /\ at' = c /\ UNCHANGED shown
           \/ /\ Char(c) \in Conversion
              /\ at' = c + 1 /\ shown' = Append(shown, Part("field", at - 1, c))
           \/ /\ Char(c) \notin Conversion \union {"\\0"}
              /\ at' = c + 1 /\ shown' = Append(shown, Part("char", c, c))
        /\ printPc' = "text"
        /\ UNCHANGED <<fmt, field>>

-----------------------------------------------------------------------------
\* Characters of a field: 0..15 the digits, then the sign, the blank, and text.
Minus == 16
Blank == 17
Letter(k) == 17 + k

Larger(a, b) == IF a < b THEN b ELSE a
Power(b) == LET p[n \in Nat] == IF n = 0 THEN 1 ELSE b * p[n - 1] IN p

\* The loop over the digits: what u is after k divisions, and when it has become zero.
Rest(u, base) == LET r[k \in Nat] == IF k = 0 THEN u ELSE r[k - 1] \div base IN r
DigitCount(u, base) ==
    CHOOSE n \in 1..LongBits :
        Rest(u, base)[n] = 0 /\ \A k \in 1..(n - 1) : Rest(u, base)[k] /= 0

\* Mutant: the whole field is reversed in either case.
PrintNumReversesAll(u, base, neg, width, ladjust, zero) ==
    LET n == DigitCount(u, base)
        actual == IF neg THEN n + 1 ELSE n
        length == Larger(width, actual)
        padc == IF zero /\ ~ladjust THEN 0 ELSE Blank
        sign == IF neg /\ padc = 0 THEN length ELSE n + 1
        buf == [k \in 1..length |->
                 CASE k <= n -> Rest(u, base)[k - 1] % base
                   [] neg /\ k = sign -> Minus
                   [] OTHER -> padc]
    IN  [k \in 1..length |-> buf[length + 1 - k]]

\* PrintNum: digits, sign and padding from right to left, then reversed; a left-adjusted
\* field keeps its padding where it is.  With zeros the sign goes behind the padding.
PrintNum(u, base, neg, width, ladjust, zero) ==
    LET n == DigitCount(u, base)
        actual == IF neg THEN n + 1 ELSE n
        length == Larger(width, actual)
        padc == IF zero /\ ~ladjust THEN 0 ELSE Blank
        sign == IF neg /\ padc = 0 THEN length ELSE n + 1
        buf == [k \in 1..length |->
                 CASE k <= n -> Rest(u, base)[k - 1] % base
                   [] neg /\ k = sign -> Minus
                   [] OTHER -> padc]
        end == IF ladjust THEN actual ELSE length
    IN  [k \in 1..length |-> IF k <= end THEN buf[end + 1 - k] ELSE buf[k]]

\* PrintString, and PrintChar for len = 1.
PrintText(len, width, ladjust) ==
    LET length == Larger(width, len)
        first == IF ladjust THEN 0 ELSE length - len
    IN  [k \in 1..length |-> IF k - first \in 1..len THEN Letter(k - first) ELSE Blank]

\* va_arg: an argument without "l" is an int, sign-extended to long.
Signed(x, bits) ==
    LET y == x % Power(2)[bits]
    IN  IF y >= Power(2)[bits - 1] THEN y - Power(2)[bits] ELSE y
VaArg(x, long) == Signed(x, IF long THEN LongBits ELSE IntBits)

\* The cases of the switch; num = -num in a long, which leaves the smallest one as it is.
Layout(in) ==
    LET num == VaArg(in.arg, in.long)
        neg == in.conv = "d" /\ num < 0
        u == (IF neg THEN Signed(0 - num, LongBits) ELSE num) % Power(2)[LongBits]
    IN  IF in.conv = "s" THEN PrintText(in.arg, in.width, in.ladjust)
        ELSE PrintNum(u, in.base, neg, in.width, in.ladjust, in.zero)

NoField == [in |-> <<>>, chars |-> <<>>]
Fields ==
    [conv : {"d"}, base : {10}, arg : 0..(Power(2)[LongBits] - 1), long : BOOLEAN,
     width : 0..MaxWidth, ladjust : BOOLEAN, zero : BOOLEAN]
    \union
    [conv : {"x"}, base : {2, 8, 10, 16}, arg : 0..(Power(2)[LongBits] - 1), long : BOOLEAN,
     width : 0..MaxWidth, ladjust : BOOLEAN, zero : BOOLEAN]
    \union
    [conv : {"s"}, base : {1}, arg : 0..MaxWidth, long : {FALSE},
     width : 0..MaxWidth, ladjust : BOOLEAN, zero : BOOLEAN]

PrintField ==
    /\ printPc = "text" /\ fmt = <<>> /\ field = NoField
    /\ \E in \in Fields : field' = [in |-> in, chars |-> Layout(in)]
    /\ UNCHANGED <<fmt, at, printPc, shown>>

PrintInit == fmt \in Format /\ at = 1 /\ printPc = "text" /\ shown = <<>> /\ field = NoField

PrintNext == Text \/ Directive \/ PrintField

PrintSpec == PrintInit /\ [][PrintNext]_printVars

-----------------------------------------------------------------------------
\* A directive without its last character: "%" and prefixes.
Opens(from, to) == from <= to /\ fmt[from] = "%" /\ \A k \in (from + 1)..to : fmt[k] \in Prefix

\* Where the first n parts end: the next position is not accounted for yet.
Behind(n) == IF n = 0 THEN 1 ELSE shown[n].to + 1

\* Part p starts where position k is next.  Nothing is left out but the opening of a directive,
\* when its last character is no conversion or is missing.
Continues(p, k) ==
    \/ /\ p.kind = "text" /\ p.from <= p.to + 1
       /\ p.from = k \/ (p.from = End /\ Opens(k, End - 1))
       /\ \A h \in p.from..p.to : fmt[h] /= "%"
    \/ /\ p.kind = "field" /\ p.from = k
       /\ Opens(k, p.to - 1) /\ fmt[p.to] \in Conversion
    \/ /\ p.kind = "char" /\ p.from = p.to
       /\ Opens(k, p.to - 1) /\ fmt[p.to] \notin Conversion

\* lp_Print stays inside the format, also one that ends within a directive ("%", "%-0",
\* "%5."), and goes through all of it in order: every character up to its position is
\* output once, as text or as the unknown last character of a directive, or stands for
\* a field, or belongs to the "%" and the prefixes of a directive that shows no field.
FormatAccounted ==
    /\ at <= End
    /\ \A n \in DOMAIN shown : Continues(shown[n], Behind(n - 1))
    /\ LET k == Behind(Len(shown))
       IN  at = k \/ (Opens(k, at - 1) /\ (printPc = "directive" \/ at = End))
    /\ printPc = "end" => at = End

\* The characters of a field from left to right, for the value as a mathematical integer.
Repeat(c, n) == [k \in 1..n |-> c]
PlacesOf(value, base) ==
    CHOOSE n \in 1..LongBits :
        value < Power(base)[n] /\ (n = 1 \/ value >= Power(base)[n - 1])
Body(in) ==
    LET num == VaArg(in.arg, in.long)
        value == IF in.conv = "d" THEN (IF num < 0 THEN 0 - num ELSE num) ELSE num % Power(2)[LongBits]
        n == PlacesOf(value, in.base)
    IN  IF in.conv = "s" THEN [k \in 1..in.arg |-> Letter(k)]
        ELSE [k \in 1..n |-> (value \div Power(in.base)[n - k]) % in.base]
Sign(in) == IF in.conv = "d" /\ VaArg(in.arg, in.long) < 0 THEN <<Minus>> ELSE <<>>

\* A field shows the whole number, the smallest int and long included, most significant
\* digit first, filled up to its width with blanks on the side the directive asks for, or
\* with zeros between sign and digits.
FieldsReadable ==
    field /= NoField =>
        LET in == field.in
            used == Len(Sign(in) \o Body(in))
            fill(c) == Repeat(c, Larger(in.width, used) - used)
        IN  field.chars =
              IF in.ladjust THEN Sign(in) \o Body(in) \o fill(Blank)
              ELSE IF in.zero /\ in.conv /= "s" THEN Sign(in) \o fill(0) \o Body(in)
              ELSE fill(Blank) \o Sign(in) \o Body(in)
=============================================================================
