-------------------------------- MODULE Library --------------------------------
(***************************************************************************)
(* The functions of the system that keep nothing from one call to the      *)
(* next, each called with every argument of small sets: the C library,     *)
(* the names of the FAT12 driver, the drawing on the screen, the services  *)
(* of the kernel and vsprintf, which runs through its format step by step. *)
(* One call is followed at a time.                                         *)
(***************************************************************************)
EXTENDS Printf, DirectoryNames, Screen, KernelServices

CONSTANTS
  STRINGS,    \* arguments of the string functions
  MEMORY,     \* a memory for memcpy: a function on 0 .. n
  NUMBERS, BASES,  \* arguments of itoa
  TREES,      \* what lies on a disk
  NAMES,      \* names that paths are made of
  MAX_DEPTH,  \* bounds the names of a path
  BITMAPS,    \* drawn at PLACES, WIDTHS wide and HEIGHT high
  PLACES, WIDTHS, HEIGHT,
  TEXTS,      \* printed by puts
  REGISTERS,  \* at a system call
  LAYOUTS, KEYS, MAX_KEYS  \* a keyboard, and how many keys are hit

(* No character of a C string is its NUL; addresses count from 0 on.        *)
ASSUME StringAssumption ==
  /\ STRINGS \subseteq Seq(Int \ {END_OF_STRING})
  /\ MEMORY = [a \in DOMAIN MEMORY |-> MEMORY[a]] /\ DOMAIN MEMORY \subseteq Nat
  /\ \A a \in DOMAIN MEMORY : 0 .. a \subseteq DOMAIN MEMORY
  /\ NUMBERS \subseteq Int /\ BASES \subseteq Nat \ {0, 1}

(* Names are padded at their ends only, and what a directory has the number *)
(* of is on the disk.  The names of a path lie between its slashes.         *)
IsPadded(s) ==
  /\ s \in Seq(Int \ {END_OF_STRING})
  /\ \A i, j \in DOMAIN s : i <= j /\ s[i] = BLANK => s[j] = BLANK
ASSUME TreeAssumption ==
  \A files \in TREES :
    /\ ROOT \in DOMAIN files
    /\ \A c \in DOMAIN files :
         /\ files[c] \in Seq(ToSet(files[c]))
         /\ \A e \in ToSet(files[c]) :
              /\ IsPadded(e.name) /\ e.name # <<>> /\ Head(e.name) # BLANK
              /\ IsPadded(e.extension) /\ e.extension # <<>>
              /\ e.kind = "dir" => e.cluster \in DOMAIN files
ASSUME PathAssumption ==
  NAMES \subseteq Seq(Int \ {END_OF_STRING, SLASH}) /\ MAX_DEPTH \in Nat

(* Places are unsigned; the characters of a text are counted from 0 on.     *)
ASSUME DrawingAssumption ==
  /\ PLACES \subseteq Nat \X Nat /\ WIDTHS \subseteq Nat \ {0} /\ HEIGHT \in Nat
  /\ TEXTS \subseteq Seq(Nat)
ASSUME ServiceAssumption == \A regs \in REGISTERS : regs.eax \in Nat

VARIABLE call  \* the function called last, its arguments and its result

libraryVars == <<printfVars, call>>

NoCall == [fn |-> "none"]
LibraryInit == PrintfInit /\ call = NoCall

Idle == call = NoCall /\ place = "idle"
Call(record) == call' = record /\ UNCHANGED printfVars

CallStrcmp ==
  /\ Idle
  /\ \E s1, s2 \in STRINGS :
       Call([fn |-> "strcmp", s1 |-> s1, s2 |-> s2, result |-> strcmp(s1, s2)])

CallMemcpy ==
  /\ Idle
  /\ \E dest, src, count \in DOMAIN MEMORY :
       /\ dest + count \in DOMAIN MEMORY /\ src + count \in DOMAIN MEMORY
       /\ Call([fn |-> "memcpy", dest |-> dest, src |-> src, count |-> count,
                result |-> memcpy(MEMORY, dest, src, count)])

CallItoa ==
  /\ Idle
  /\ \E num \in NUMBERS, base \in BASES :
       Call([fn |-> "itoa", num |-> num, base |-> base, result |-> itoa(num, base)])

(* The names of a path; an empty first one would be the leading '/'.        *)
Paths == {names \in UNION {[1 .. n -> NAMES] : n \in 1 .. MAX_DEPTH} : Head(names) # <<>>}

CallLookup ==
  /\ Idle
  /\ \E files \in TREES, names \in Paths :
       \E path \in {PathOf(names), <<SLASH>> \o PathOf(names)} :
         Call([fn |-> "file_read", files |-> files, names |-> names,
               result |-> file_lookup(files, path)])

CallDirOpen ==
  /\ Idle
  /\ \E files \in TREES, names \in Paths :
       Call([fn |-> "dir_open", files |-> files, names |-> names,
             result |-> dir_open(files, PathOf(names))])

CallDrawBitmap ==
  /\ Idle
  /\ \E p \in PLACES, w \in WIDTHS, bitmap \in BITMAPS :
       Call([fn |-> "vga_draw_bitmap", x |-> p[1], y |-> p[2], w |-> w, bitmap |-> bitmap,
             result |-> vga_draw_bitmap(p[1], p[2], w, HEIGHT, bitmap, "bg", "fg")])

CallDrawRect ==
  /\ Idle
  /\ \E p \in PLACES, w \in WIDTHS :
       Call([fn |-> "vga_draw_rect", x |-> p[1], y |-> p[2], w |-> w,
             result |-> vga_draw_rect(p[1], p[2], w, HEIGHT, "bg")])

CallPuts ==
  /\ Idle
  /\ \E s \in TEXTS :
       Call([fn |-> "puts", s |-> s, result |-> puts([x |-> 0, y |-> 0, glyph |-> <<>>], s)])

CallPciRead ==
  /\ Idle
  /\ \E bus, slot, function \in {0, 1}, name \in DOMAIN offsets :
       LET space == [f \in {0, 1} \X {0, 1} \X {0, 1} |-> [o \in 1 .. 64 |-> <<f, o - 1>>]]
           dev   == [bus |-> bus, slot |-> slot, function |-> function]
       IN Call([fn |-> "pci_read", space |-> space, dev |-> dev, name |-> name,
                result |-> pci_read(space, dev, offsets[name])])

CallService ==
  /\ Idle
  /\ \E regs \in REGISTERS :
       Call([fn |-> "dispatch", regs |-> regs, result |-> syscall(dispatch(regs))])

(* One key after the other.                                                 *)
CallUpdate ==
  /\ Idle
  /\ \E keys \in LAYOUTS, n \in 1 .. MAX_KEYS : \E keycodes \in [1 .. n -> KEYS] :
       Call([fn |-> "kb_update", keys |-> keys, keycodes |-> keycodes,
             result |-> kb_updates(keys, keycodes)])

CallEnds == call # NoCall /\ call' = NoCall /\ UNCHANGED printfVars

Format == call = NoCall /\ (CallVsprintf \/ vsprintf) /\ UNCHANGED call

LibraryNext ==
  \/ CallStrcmp \/ CallMemcpy \/ CallItoa \/ CallLookup \/ CallDirOpen \/ CallDrawBitmap
  \/ CallDrawRect \/ CallPuts \/ CallPciRead \/ CallService \/ CallUpdate \/ CallEnds \/ Format

LibrarySpec == LibraryInit /\ [][LibraryNext]_libraryVars

(* What each function answers is what it is for.                            *)
StringsAreRight ==
  CASE call.fn = "strcmp" -> StrcmpIsRight(call.s1, call.s2, call.result)
    [] call.fn = "memcpy" -> MemcpyIsRight(MEMORY, call.dest, call.src, call.count, call.result)
    [] call.fn = "itoa" -> ItoaIsRight(call.num, call.base, call.result)
    [] OTHER -> TRUE

(* A path leads to the entry it names, in whatever case it is written, and  *)
(* nowhere else; a directory is listed under the names its files are found  *)
(* by.  Of deleted entries nothing is said.                                 *)
NamesAreRight ==
  CASE call.fn = "file_read" -> LookupIsRight(call.files, call.names, call.result)
    [] call.fn = "dir_open" -> ListingIsRight(call.files, call.names, call.result)
    [] OTHER -> TRUE

(* Bitmaps and rectangles are drawn pixel by pixel as they are; the glyphs of *)
(* a text are whole and inside the screen, and those of seven-bit characters *)
(* come from the font.                                                      *)
DrawingIsRight ==
  CASE call.fn = "vga_draw_bitmap" ->
         BitmapIsRight(call.x, call.y, call.w, HEIGHT, call.bitmap, call.result)
    [] call.fn = "vga_draw_rect" ->
         RectIsRight(call.x, call.y, call.w, HEIGHT, "bg", call.result)
    [] call.fn = "puts" -> TextIsOnScreen(call.s, call.result)
    [] OTHER -> TRUE

(* A field of a PCI function, a system call whose number is in the table, and *)
(* a key answer with what they stand for.                                   *)
ServicesAreRight ==
  CASE call.fn = "pci_read" -> FieldIsRight(call.space, call.dev, call.name, call.result)
    [] call.fn = "dispatch" -> SyscallIsRight(call.regs, call.result)
    [] call.fn = "kb_update" -> KeysAreRight(call.keys, call.keycodes, call.result)
    [] OTHER -> TRUE

CallsAreRight == StringsAreRight /\ DrawingIsRight /\ ServicesAreRight

(***************************************************************************)
(* What the comments and checks of the code say, and it does not do.       *)
(***************************************************************************)

(* "If filename = 0xE5, this one is free" (fat12.c:622): no listing shows a *)
(* deleted file (DirectoryNames).                                           *)
DeletedAreNotListed == call.fn = "dir_open" => DeletedAreFree(call.result)

(* "otherwise considered unsigned number" (stdlib.c:31): in a base other than *)
(* 10 a negative number is written as one that is not (CLibrary).           *)
NegativesAreUnsigned == call.fn = "itoa" => NegativeIsUnsigned(call.num, call.base, call.result)

(* "if (chr > pFont->charCount)" (font.c:13): every glyph of a text is one of *)
(* the font (Screen).                                                       *)
GlyphsComeFromFont == call.fn = "puts" => GlyphsAreInTable(call.result)
=============================================================================
