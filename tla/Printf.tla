--------------------------------- MODULE Printf ---------------------------------
(***************************************************************************)
(* vsprintf and number, which the installer and the kernel have in two     *)
(* equal copies (src/installer/src/std/printf.c, src/kernel/src/libc/      *)
(* printf.c).  The format is read as the code reads it, a character at a   *)
(* time, and each character is chosen when it is read; so is an argument.  *)
(* What a conversion writes is a record of the parts of the field, from    *)
(* left to right: how many blanks, the sign, the size of the prefix, how   *)
(* many zeros or blanks fill it, the zeros of the precision, the digits    *)
(* (the least first) or the size of the text, and the blanks after it.     *)
(*                                                                         *)
(* As in ChunkList, a definition named for what it gets wrong is a faulty  *)
(* variant of the one after it, there to test the properties.              *)
(***************************************************************************)
EXTENDS Integers, Sequences

CONSTANTS
  WORD,       \* 2 to the width of int and of long, 2^32 in the code
  HALF,       \* of short
  CHARS,      \* the characters of formats
  ARGUMENTS,  \* the words passed as arguments
  LENGTHS,    \* the lengths of the strings passed as arguments
  MAX_FIELD   \* bounds the numbers skip_atoi reads

ASSUME WidthAssumption ==
  /\ WORD \in Nat \ {0} /\ WORD % 2 = 0
  /\ HALF \in 1 .. WORD /\ HALF % 2 = 0
ASSUME ArgumentAssumption ==
  /\ ARGUMENTS \subseteq -(WORD \div 2) .. (WORD \div 2) - 1
  /\ LENGTHS \subseteq Nat

VARIABLES
  place,        \* where vsprintf is in a format, "idle" outside of a call
  fmt,          \* *fmt
  flags, field_width, precision, qualifier,
  field         \* what the conversion just over was given and has written

options == <<flags, field_width, precision, qualifier>>
printfVars == <<place, fmt, options, field>>

NUL == "NUL"
Digit == [c \in {"0", "3"} |-> IF c = "0" THEN 0 ELSE 3]   \* isdigit
Flag == [c \in {"-", "+", " ", "#", "0"} |->
           CASE c = "-" -> "LEFT" [] c = "+" -> "PLUS" [] c = " " -> "SPACE"
             [] c = "#" -> "SPECIAL" [] c = "0" -> "ZEROPAD"]
Qualifiers == {"h", "l", "L"}
NoField == [kind |-> "none"]

Larger(a, b) == IF a > b THEN a ELSE b
Signed(n) == IF n % WORD >= WORD \div 2 THEN (n % WORD) - WORD ELSE n % WORD
SignedHalf(n) == IF n % HALF >= HALF \div 2 THEN (n % HALF) - HALF ELSE n % HALF
Negated(n) == Signed(-n)  \* the least number is its own

PrintfInit ==
  /\ place = "idle" /\ fmt = NUL /\ field = NoField
  /\ flags = {} /\ field_width = -1 /\ precision = -1 /\ qualifier = "none"

(***************************************************************************)
(* number                                                                  *)
(***************************************************************************)
Digits(n, base) ==
  LET from[m \in Nat] == IF m < base THEN <<m>> ELSE <<m % base>> \o from[m \div base]
  IN from[n % WORD]

SignOf(num, type) ==
  CASE "SIGN" \notin type -> "" [] "SIGN" \in type /\ num < 0 -> "-"
    [] "SIGN" \in type /\ num >= 0 /\ "PLUS" \in type -> "+"
    [] "SIGN" \in type /\ num >= 0 /\ "PLUS" \notin type -> IF "SPACE" \in type THEN " " ELSE ""

SignSize(sign) == IF sign = "" THEN 0 ELSE 1
PrefixSize(base, type) ==
  IF "SPECIAL" \notin type THEN 0 ELSE IF base = 16 THEN 2 ELSE IF base = 8 THEN 1 ELSE 0

numberSignIsFree(num, base, size, prec, type) ==
  LET digits == Digits(IF SignOf(num, type) = "-" THEN Negated(num) ELSE num, base)
      shown  == Larger(prec, Len(digits))
      rest   == Larger(size - PrefixSize(base, type) - shown, 0)
      left   == "LEFT" \in type
      zeros  == "ZEROPAD" \in type /\ ~left
  IN [lead |-> IF left \/ zeros THEN 0 ELSE rest, sign |-> SignOf(num, type),
      prefix |-> PrefixSize(base, type), fill |-> IF zeros THEN rest ELSE 0,
      zeros |-> shown - Len(digits), digits |-> digits, trail |-> IF left THEN rest ELSE 0]

number(num, base, size, prec, type) ==
  LET sign   == SignOf(num, type)
      digits == Digits(IF sign = "-" THEN Negated(num) ELSE num, base)
      shown  == Larger(prec, Len(digits))
      rest   == Larger(size - SignSize(sign) - PrefixSize(base, type) - shown, 0)
      left   == "LEFT" \in type
      zeros  == "ZEROPAD" \in type /\ ~left
  IN [lead |-> IF left \/ zeros THEN 0 ELSE rest, sign |-> sign,
      prefix |-> PrefixSize(base, type), fill |-> IF zeros THEN rest ELSE 0,
      zeros |-> shown - Len(digits), digits |-> digits, trail |-> IF left THEN rest ELSE 0]

(***************************************************************************)
(* The reading of a conversion.  NextChar is ++fmt.                        *)
(***************************************************************************)
NextChar == fmt' \in CHARS
Stay == UNCHANGED fmt
GoTo(there) == place' = there /\ UNCHANGED field

CallVsprintf == place = "idle" /\ GoTo("text") /\ NextChar /\ UNCHANGED options

ClearOptions == flags' = {} /\ field_width' = -1 /\ precision' = -1 /\ qualifier' = "none"

(* The locals end with the call.                                            *)
Return == place = "text" /\ fmt = NUL /\ GoTo("idle") /\ Stay /\ ClearOptions

CopyChar == place = "text" /\ fmt \notin {NUL, "%"} /\ GoTo("text") /\ NextChar /\ UNCHANGED options

Percent ==
  /\ place = "text" /\ fmt = "%"
  /\ GoTo("flags") /\ NextChar
  /\ ClearOptions

ReadFlag ==
  /\ place = "flags" /\ fmt \in DOMAIN Flag
  /\ flags' = flags \cup {Flag[fmt]}
  /\ GoTo("flags") /\ NextChar
  /\ UNCHANGED <<field_width, precision, qualifier>>

FlagsEnd == place = "flags" /\ fmt \notin DOMAIN Flag
SkipAtoi(i, c) == (IF i < 0 THEN 0 ELSE i) * 10 + Digit[c]
NextCharAfter(i) == NextChar /\ (fmt' \in DOMAIN Digit => SkipAtoi(i, fmt') <= MAX_FIELD)

NoWidth == FlagsEnd /\ fmt \notin DOMAIN Digit \cup {"*"} /\ GoTo("precision") /\ Stay /\ UNCHANGED options

ReadWidth ==
  /\ FlagsEnd \/ place = "width"
  /\ fmt \in DOMAIN Digit
  /\ field_width' = SkipAtoi(field_width, fmt)
  /\ GoTo("width") /\ NextCharAfter(field_width')
  /\ UNCHANGED <<flags, precision, qualifier>>

WidthEnds == place = "width" /\ fmt \notin DOMAIN Digit /\ GoTo("precision") /\ Stay /\ UNCHANGED options

(* A negative width is a width, and a flag.  The least int, which has no    *)
(* opposite, is not followed.                                               *)
WidthArgument ==
  /\ FlagsEnd /\ fmt = "*"
  /\ \E a \in ARGUMENTS \ {-(WORD \div 2)} :
       /\ field_width' = IF a < 0 THEN -a ELSE a
       /\ flags' = IF a < 0 THEN flags \cup {"LEFT"} ELSE flags
  /\ GoTo("precision") /\ NextChar
  /\ UNCHANGED <<precision, qualifier>>

NoPrecision == place = "precision" /\ fmt # "." /\ GoTo("qualifier") /\ Stay /\ UNCHANGED options

Point ==
  /\ place = "precision" /\ fmt = "."
  /\ precision' = 0
  /\ GoTo("point") /\ NextChar
  /\ UNCHANGED <<flags, field_width, qualifier>>

ReadPrecision ==
  /\ place \in {"point", "digits"} /\ fmt \in DOMAIN Digit
  /\ precision' = SkipAtoi(precision, fmt)
  /\ GoTo("digits") /\ NextCharAfter(precision')
  /\ UNCHANGED <<flags, field_width, qualifier>>

PrecisionArgument ==
  /\ place = "point" /\ fmt = "*"
  /\ \E a \in ARGUMENTS : precision' = Larger(a, 0)
  /\ GoTo("qualifier") /\ NextChar
  /\ UNCHANGED <<flags, field_width, qualifier>>

PrecisionEnds ==
  /\ place \in {"point", "digits"} /\ fmt \notin DOMAIN Digit /\ ~(place = "point" /\ fmt = "*")
  /\ GoTo("qualifier") /\ Stay /\ UNCHANGED options

ReadQualifier ==
  /\ place = "qualifier" /\ fmt \in Qualifiers
  /\ qualifier' = fmt
  /\ GoTo("conversion") /\ NextChar
  /\ UNCHANGED <<flags, field_width, precision>>

NoQualifier ==
  place = "qualifier" /\ fmt \notin Qualifiers /\ GoTo("conversion") /\ Stay /\ UNCHANGED options

(***************************************************************************)
(* The conversions.                                                        *)
(***************************************************************************)
Converts(c) == place = "conversion" /\ fmt \in c
Write(f) == place' = "written" /\ field' = f /\ Stay /\ UNCHANGED options
Left == "LEFT" \in flags

(* The text of %c and %s in its field.                                      *)
Text(size) ==
  LET rest == Larger(field_width - size, 0)
  IN [kind |-> "text", size |-> size, lead |-> IF Left THEN 0 ELSE rest,
      trail |-> IF Left THEN rest ELSE 0]

ConvertChar == Converts({"c"}) /\ Write(Text(1))

strnlen(length, maxlen) == IF maxlen >= 0 /\ maxlen < length THEN maxlen ELSE length
ConvertString == Converts({"s"}) /\ \E length \in LENGTHS : Write(Text(strnlen(length, precision)))

(* %n stores how much was written; %% writes itself.                        *)
ConvertNothing == Converts({"n", "%"}) /\ Write(NoField)

Number(arg, num, base, size, type) ==
  [kind |-> "number", arg |-> arg, base |-> base, type |-> type,
   width |-> size, out |-> number(num, base, size, precision, type)]

(* Two digits for each byte of a pointer.                                   *)
PointerDigits == Len(Digits(WORD - 1, 16))
ConvertPointer ==
  /\ Converts({"p"})
  /\ \E a \in ARGUMENTS :
       IF field_width = -1 THEN Write(Number(a, a, 16, PointerDigits, flags \cup {"ZEROPAD"}))
                           ELSE Write(Number(a, a, 16, field_width, flags))

IntegerBase == CASE fmt = "o" -> 8 [] fmt \in {"x", "X"} -> 16 [] OTHER -> 10
IntegerFlags == flags \cup (IF fmt = "x" THEN {"SMALL"} ELSE {})
                      \cup (IF fmt \in {"d", "i"} THEN {"SIGN"} ELSE {})

(* The argument as a long: a short for h, with its sign for a signed one.   *)
AsLong(a) ==
  CASE qualifier = "h" /\ "SIGN" \in IntegerFlags -> SignedHalf(a)
    [] qualifier = "h" /\ "SIGN" \notin IntegerFlags -> a % HALF
    [] OTHER -> a

ConvertInteger ==
  /\ Converts({"o", "x", "X", "d", "i", "u"})
  /\ \E a \in ARGUMENTS : Write(Number(a, AsLong(a), IntegerBase, field_width, IntegerFlags))

Conversions == {"c", "s", "p", "n", "%", "o", "x", "X", "d", "i", "u"}

(* A character that is no conversion is written after a '%'.                *)
ConvertUnknown == place = "conversion" /\ fmt \notin Conversions \cup {NUL} /\ Write(NoField)

(* At the end of the format fmt goes one back, and the loop one forward.    *)
ConvertEndGoesOn == place = "conversion" /\ fmt = NUL /\ GoTo("text") /\ NextChar /\ UNCHANGED options
ConvertEnd == place = "conversion" /\ fmt = NUL /\ GoTo("text") /\ Stay /\ UNCHANGED options

Continue ==
  /\ place = "written"
  /\ place' = "text" /\ field' = NoField /\ NextChar
  /\ UNCHANGED options

FlagsAndWidth == Percent \/ ReadFlag \/ NoWidth \/ ReadWidth \/ WidthEnds \/ WidthArgument
PrecisionAndQualifier ==
  NoPrecision \/ Point \/ ReadPrecision \/ PrecisionArgument \/ PrecisionEnds
    \/ ReadQualifier \/ NoQualifier
Conversion ==
  ConvertChar \/ ConvertString \/ ConvertNothing \/ ConvertPointer \/ ConvertInteger
    \/ ConvertUnknown \/ ConvertEnd \/ Continue

vsprintf == Return \/ CopyChar \/ FlagsAndWidth \/ PrecisionAndQualifier \/ Conversion

(***************************************************************************)
(* Properties.                                                             *)
(***************************************************************************)

(* However a format ends, in the middle of a conversion or of its options,  *)
(* vsprintf reads nothing behind the NUL: it stays there until it returns.  *)
StopsAtTerminator == [][place # "idle" /\ fmt = NUL => fmt' = NUL]_printfVars

(* The value of the digits, from the last, which counts most, on.            *)
ValueOf(digits, base) ==
  LET ofLast[k \in Nat] ==
        IF k \in 1 .. Len(digits) THEN digits[Len(digits) - k + 1] + base * ofLast[k - 1] ELSE 0
  IN ofLast[Len(digits)]

Magnitude(n) == IF n < 0 THEN -n ELSE n

(* What the conversion of a number means: the value of the argument in the  *)
(* type the format names.                                                   *)
Meant ==
  IF "SIGN" \in field.type
  THEN IF qualifier = "h" THEN SignedHalf(field.arg) ELSE field.arg
  ELSE IF qualifier = "h" /\ fmt # "p" THEN field.arg % HALF ELSE field.arg % WORD

(* A number is written with its own digits, the least long included, with a *)
(* minus if and only if it is negative, with at least as many digits as the *)
(* precision asks for ("min. # of digits for integers", printf.c:128), and  *)
(* in a field that is as wide as was asked and no wider than it must be,    *)
(* padded on one side only.                                                 *)
NumberIsRight ==
  LET o == field.out
      body == SignSize(o.sign) + o.prefix + o.zeros + Len(o.digits)
  IN /\ ValueOf(o.digits, field.base) = Magnitude(Meant)
     /\ o.sign = "-" <=> "SIGN" \in field.type /\ Meant < 0
     /\ Len(o.digits) = 1 \/ o.digits[Len(o.digits)] # 0
     /\ o.zeros + Len(o.digits) = Larger(precision, Len(o.digits))
     /\ o.lead + o.fill + o.trail + body = Larger(field.width, body)
     /\ IF Left THEN o.lead + o.fill = 0 ELSE o.trail = 0

(* A text is cut at the precision ("max number of chars for from string",   *)
(* printf.c:128-129) and padded on one side to the width.                   *)
TextIsRight ==
  /\ field.size <= (IF fmt = "c" \/ precision < 0 THEN field.size ELSE precision)
  /\ field.lead + field.size + field.trail = Larger(field_width, field.size)
  /\ IF Left THEN field.lead = 0 ELSE field.trail = 0

FieldsAreRight ==
  place = "written" => /\ field.kind = "number" => NumberIsRight
                       /\ field.kind = "text" => TextIsRight
=============================================================================
