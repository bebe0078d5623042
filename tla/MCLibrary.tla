------------------------------- MODULE MCLibrary -------------------------------
(***************************************************************************)
(* Library for TLC.  A word is 8 bits wide, half a word 4, and numbers are *)
(* all of them; the screen has the size of the code's.  Names are made of  *)
(* two letters, directories of up to two entries; texts are as long as a   *)
(* line of the screen or a glyph away from it, on the first lines and the  *)
(* last.                                                                   *)
(***************************************************************************)
EXTENDS Library

mcChars == {"a", "%", "-", "+", " ", "#", "0", "3", ".", "*", "h", "l", "c", "s", "p", "n",
            "o", "x", "d", "u", NUL}
mcArguments == {-128, -3, 0, 9, 127}

mcIntMin == -128
mcNumbers == -128 .. 127
mcStrings == UNION {[1 .. n -> {UPPER_A, LOWER_A, DELETED}] : n \in 0 .. 3}
mcMemory == [a \in 0 .. 5 |-> a]

(* Directories of the root and of cluster 2.                                *)
Padded(s, n) == s \o [i \in 1 .. n - Len(s) |-> BLANK]
Entry(name, extension, kind, cluster) ==
  [name |-> Padded(name, 8), extension |-> Padded(extension, 3), kind |-> kind, cluster |-> cluster]
A == UPPER_A
B == UPPER_A + 1
mcEntries ==
  {Entry(<<A>>, <<>>, "file", 3), Entry(<<A>>, <<>>, "dir", 2), Entry(<<A>>, <<B>>, "file", 4),
   Entry(<<A, B>>, <<>>, "dir", 2), Entry(<<A, B>>, <<>>, "label", 0),
   Entry(<<DELETED, B>>, <<>>, "file", 5)}
Directories(n) == UNION {[1 .. m -> mcEntries] : m \in 0 .. n}
mcTrees == {(ROOT :> root) @@ (2 :> sub) : root \in Directories(2), sub \in Directories(1)}
a == LOWER_A
b == LOWER_A + 1
mcNames == {<<>>, <<A>>, <<a>>, <<a, B>>, <<A, DOT, b>>, <<B>>}

mcBitmaps == [1 .. 4 -> {0, 165, 252}]
mcPlaces == {<<0, 0>>, <<317, 199>>, <<3, 198>>}

(* Lines as long as the screen is wide, or one glyph shorter or longer, and *)
(* more lines than it has.                                                  *)
LineOf(n) == [i \in 1 .. n |-> IF i % 2 = 0 THEN 65 ELSE 255]
Lines(n) == [i \in 1 .. n |-> LINE_FEED]
mcTexts ==
  {Lines(n) \o LineOf(m) \o ending \o LineOf(k) :
     n \in {0, 1, 23, 24, 25, 26}, m \in {0, 1, 52, 53, 54, 107}, k \in {1, 53, 54},
     ending \in {<<>>, <<LINE_FEED>>, <<CARRIAGE_RETURN>>}}

mcRegisters == [eax : {0, 1, 2, HALF_EAX, HALF_EAX + 1, HALF_EAX + 2}, ebx : {0, 5}]

(* A letter, and the two shift keys going down and up.                      *)
mcKeys == {30, 42, 54, 170, 182}
Layer(letter) == [k \in mcKeys |-> CASE k = 30 -> letter [] k \in {42, 54} -> SHI [] OTHER -> NSHI]
mcLayouts == {<<Layer(97), Layer(65)>>}
=============================================================================
