-------------------------------- MODULE CLibrary --------------------------------
(***************************************************************************)
(* The string and number functions of the C libraries: string.c, stdlib.c  *)
(* and ctype.c, in src/installer/src/std and, most of them a second time,  *)
(* in src/kernel/src/libc.  A C string is the sequence of its characters   *)
(* before the NUL, a pointer into it is an index, and a character is a     *)
(* signed number, counted from '0', as the code counts digits.             *)
(*                                                                         *)
(* As in ChunkList, a definition named for what it gets wrong is a faulty  *)
(* variant of the one after it, there to test the properties.              *)
(***************************************************************************)
EXTENDS Integers, SequencesExt

CONSTANT INT_MIN   \* the least int, -2^31 in the code

ASSUME IntAssumption == INT_MIN \in Int /\ INT_MIN < 0

NULL_POINTER == 0
END_OF_STRING == -48  \* NUL
BLANK == -16
TAB == -39
CARRIAGE == -35
MINUS == -3
UPPER_A == 17
LOWER_A == 49
LOWER_Z == 74

At(s, i) == IF i <= Len(s) THEN s[i] ELSE END_OF_STRING

(***************************************************************************)
(* string.c                                                                *)
(***************************************************************************)

(* The signed characters are compared from the first on, until s1 ends.     *)
strcmpOfPrefix(s1, s2) ==
  LET differ == {i \in DOMAIN s1 : s1[i] # At(s2, i)}
      first  == CHOOSE i \in differ : \A j \in differ : i <= j
  IN IF differ # {} THEN IF s1[first] < At(s2, first) THEN -1 ELSE 1 ELSE 0

strcmp(s1, s2) ==
  LET differ == {i \in DOMAIN s1 : s1[i] # At(s2, i)}
      first  == CHOOSE i \in differ : \A j \in differ : i <= j
  IN IF differ # {} THEN IF s1[first] < At(s2, first) THEN -1 ELSE 1
     ELSE IF Len(s2) = Len(s1) THEN 0 ELSE -1

(* The first place of c, that of the NUL included.                          *)
strchr(s, c) ==
  LET places == {i \in 1 .. Len(s) + 1 : At(s, i) = c}
  IN IF places = {} THEN NULL_POINTER ELSE CHOOSE i \in places : \A j \in places : i <= j

(* Byte after byte, from the first on, in a memory that is a function.  No  *)
(* caller leaves the destination to memcpy, which would allocate it.        *)
memcpy(memory, dest, src, count) ==
  LET after[n \in 0 .. count] ==
        IF n = 0 THEN memory
        ELSE [after[n - 1] EXCEPT ![dest + n - 1] = after[n - 1][src + n - 1]]
  IN after[count]

(* Characters over those of dest, and no NUL after them.                    *)
strcpy(dest, src) == [i \in DOMAIN dest |-> IF i <= Len(src) THEN src[i] ELSE dest[i]]

(***************************************************************************)
(* stdlib.c and ctype.c                                                    *)
(***************************************************************************)
reverse(s) == Reverse(s)

(* Division of C goes towards 0.                                            *)
Quotient(a, b) == IF a >= 0 THEN a \div b ELSE -((-a) \div b)
Remainder(a, b) == a - b * Quotient(a, b)

(* What the loop of itoa writes, the least digit first.                     *)
DigitOf(rem) == IF rem > 9 THEN rem - 10 + UPPER_A ELSE rem
Written(num, base) ==
  LET from[n \in Int] == IF n = 0 THEN <<>>
                         ELSE <<DigitOf(Remainder(n, base))>> \o from[Quotient(n, base)]
  IN from[num]

itoa(num, base) ==
  LET isNegative == num < 0 /\ base = 10
      n == IF isNegative /\ num # INT_MIN THEN -num ELSE num
  IN IF num = 0 THEN <<0>>
     ELSE reverse(Written(n, base) \o (IF isNegative THEN <<MINUS>> ELSE <<>>))

(* ' ', and '\t', '\n', '\v', '\f' and '\r'.                                *)
isspace(c) == c \in {BLANK} \cup TAB .. CARRIAGE
toupper(c) == IF LOWER_A <= c /\ c <= LOWER_Z THEN c - 32 ELSE c

(* What digits stand for, of which the first counts most.                   *)
NumberOf(digits, base) ==
  LET res[n \in 0 .. Len(digits)] == IF n = 0 THEN 0 ELSE res[n - 1] * base + digits[n]
  IN res[Len(digits)]

(* Every character after the blanks is taken for a digit.                   *)
atoi(s) ==
  LET digits == SelectInSeq(s, LAMBDA c : ~isspace(c))
  IN IF digits = 0 THEN 0 ELSE NumberOf(SubSeq(s, digits, Len(s)), 10)

(***************************************************************************)
(* Properties, of one call each.                                           *)
(***************************************************************************)

(* strcmp tells equal strings from all others, as the search for a name     *)
(* needs, and gives an order on strings of 7-bit characters: only one of    *)
(* two strings is before the other.  (Of a character with its eighth bit    *)
(* set this is not so: it is less than the NUL, and the NUL less than it.)  *)
SevenBit(s) == \A i \in DOMAIN s : s[i] > END_OF_STRING
StrcmpIsRight(s1, s2, result) ==
  /\ result = 0 <=> s1 = s2
  /\ SevenBit(s1) /\ SevenBit(s2) => result = -strcmp(s2, s1)

(* Where the two areas do not overlap, or the destination is the lower one, *)
(* memcpy leaves in it what the source held, and touches nothing else.      *)
MemcpyIsRight(memory, dest, src, count, result) ==
  dest <= src \/ src + count <= dest =>
    \A a \in DOMAIN memory :
      result[a] = IF a \in dest .. dest + count - 1 THEN memory[a - dest + src] ELSE memory[a]

(* itoa and atoi are inverse for numbers that are not negative; a number that *)
(* is not negative is written in its own digits, none of them for nothing, in *)
(* every base; and a negative one in base 10 is its opposite behind a minus, *)
(* but for the least int.  Of a negative one in another base nothing is said. *)
DigitValue(c) == IF c >= UPPER_A THEN c - UPPER_A + 10 ELSE c
ItoaIsRight(num, base, result) ==
  /\ num >= 0 =>
       /\ NumberOf([i \in DOMAIN result |-> DigitValue(result[i])], base) = num
       /\ \A i \in DOMAIN result : DigitValue(result[i]) \in 0 .. base - 1
       /\ result[1] = 0 => num = 0
       /\ base = 10 => atoi(<<BLANK, BLANK>> \o result) = num
  /\ num < 0 /\ base = 10 /\ num # INT_MIN => result = <<MINUS>> \o itoa(-num, 10)

(***************************************************************************)
(* What the comments say, and the code does not.                           *)
(***************************************************************************)

(* "negative numbers are only handled if base is 10 otherwise considered    *)
(* unsigned number" (stdlib.c:30-31): in another base a negative number is  *)
(* written as the unsigned one of the same bits.                            *)
NegativeIsUnsigned(num, base, result) ==
  num < 0 /\ base # 10 => result = itoa(num - 2 * INT_MIN, base)
=============================================================================
