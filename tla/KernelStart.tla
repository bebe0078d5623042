------------------------------ MODULE KernelStart ------------------------------
(***************************************************************************)
(* _start of the kernel (src/kernel/src/start.c) around the set-up of      *)
(* KernelInterrupts: the screen and the font before it, the scan of the    *)
(* PCI buses (kernel/pci.c) and the list of what was found after it; and   *)
(* the console (libc/stdio.c, kernel/vga.c) that _start and the handlers   *)
(* of kernel/isr.c share.  putchar finds a place for a character and then  *)
(* draws it there: an NMI or an exception may come in between, and its     *)
(* handler prints from where the cursor is.                                *)
(*                                                                         *)
(* A text is a sequence of GLYPH and NEWLINE: what the glyphs look like,   *)
(* the colours and what was on the screen before are left out.  What the   *)
(* configuration space says is the choice of the machine.                  *)
(***************************************************************************)
EXTENDS KernelInterrupts, SequencesExt

CONSTANTS
  _VGA_WIDTH, _VGA_HEIGHT,   \* the screen, 320 x 200 pixels
  FONT_WIDTH, FONT_HEIGHT,   \* a glyph, 6 x 8 pixels
  MESSAGE,                   \* the glyphs a handler prints after its newline
  PCI_BUS_COUNT, PCI_DEV_PER_BUS, PCI_FUNC_PER_DEV,  \* 256, 32, 8
  MAX_DEVICES                \* bounds how many functions the machine has

ASSUME ScreenAssumption ==
  /\ {FONT_WIDTH, FONT_HEIGHT} \subseteq Nat \ {0}
  /\ _VGA_WIDTH \in Nat /\ _VGA_WIDTH >= FONT_WIDTH
  /\ _VGA_HEIGHT \in Nat /\ _VGA_HEIGHT >= FONT_HEIGHT
ASSUME MessageAssumption == MESSAGE \in [isr_list -> Nat]

(* The message of a handler that returns has a glyph, and is, behind that   *)
(* of an NMI, shorter than a line.                                          *)
ASSUME MessagesAreShort ==
  \A v \in InfoHandlers \ WithErrorCode :
    MESSAGE[v] > 0 /\ (MESSAGE[NMI] + MESSAGE[v] + 1) * FONT_WIDTH <= _VGA_WIDTH
ASSUME PciAssumption == {PCI_BUS_COUNT, PCI_DEV_PER_BUS, PCI_FUNC_PER_DEV} \subseteq Nat \ {0}

VARIABLES
  phase,       \* "clear", "font", "interrupts", "heap", "scan", "say",
               \* "list" or "loop"
  at,          \* the function pci_scan looks at, counted over all buses
  vendor,      \* what pci_read has returned for it: "unread", "none" (0xFFFF), "id"
  disturbed,   \* as a history, the functions a handler came back to the scan at
  answers,     \* what each function that was asked for has answered: is it there
  pciDevices,  \* the table pci_scan fills
  listed,      \* how many of it _start has printed
  _curX, _curY, font,  \* the state of the console; font: one is set
  prints       \* what _start and each handler still print: the text, whether
               \* putchar has a place for its first character, and, as a
               \* history, the glyphs that were drawn

console == <<_curX, _curY, font, prints>>
pci == <<at, vendor, disturbed, answers, pciDevices, listed>>
kernelVars == <<vars, phase, pci, console>>

GLYPH == "glyph"
NEWLINE == "newline"
Glyphs(n) == [i \in 1 .. n |-> GLYPH]
Job(text) == [text |-> text, placed |-> FALSE, drawn |-> 0]

(* The texts, shortened as the screen is: a glyph stands for some twenty.   *)
Greeting == Glyphs(1) \o <<NEWLINE>>
VendorAndDevice == Glyphs(1)
Rest(kind) == CASE kind = "EHCI" -> Glyphs(1) \o <<NEWLINE>>
                [] kind = "XHCI" -> Glyphs(2) \o <<NEWLINE>>
                [] kind = "other USB" -> <<>>
                [] kind = "not USB" -> Glyphs(1) \o <<NEWLINE>>
DeviceLine(kind) == VendorAndDevice \o Rest(kind)
Kinds == {"EHCI", "XHCI", "other USB", "not USB"}

KernelInit ==
  /\ Init
  /\ phase = "clear"
  /\ at = 0 /\ vendor = "unread" /\ disturbed = {}
  /\ answers = <<>> /\ pciDevices = <<>> /\ listed = 0
  /\ _curX = 0 /\ _curY = 0 /\ font = FALSE
  /\ prints = <<Job(<<>>)>>

(***************************************************************************)
(* putchar.  The activation that runs is the last one.                     *)
(***************************************************************************)
Running == Last(prints)
WithRunning(job) == ReplaceAt(prints, Len(prints), job)
CPrints == cpu = "runs" /\ Running.text # <<>>

WrapX == (_curX + 1) * FONT_WIDTH > _VGA_WIDTH
Line == IF WrapX THEN _curY + 1 ELSE _curY

(* Without a font the character is passed over.                             *)
Place ==
  /\ CPrints /\ ~Running.placed
  /\ _curX' = IF font /\ WrapX THEN 0 ELSE _curX
  /\ _curY' = IF ~font THEN _curY ELSE IF (Line + 1) * FONT_HEIGHT > _VGA_HEIGHT THEN 0 ELSE Line
  /\ prints' = WithRunning(IF font THEN [Running EXCEPT !.placed = TRUE]
                                   ELSE [Running EXCEPT !.text = Tail(@)])
  /\ UNCHANGED <<vars, phase, pci, font>>

Printed(glyphs) ==
  prints' = WithRunning([text |-> Tail(Running.text), placed |-> FALSE,
                         drawn |-> Running.drawn + glyphs])

PutNewline ==
  /\ CPrints /\ Running.placed /\ Head(Running.text) = NEWLINE
  /\ _curX' = 0 /\ _curY' = _curY + 1
  /\ Printed(0)
  /\ UNCHANGED <<vars, phase, pci, font>>

(* vga_draw_bitmap draws at the cursor as it is now, and clips.             *)
PutGlyph ==
  /\ CPrints /\ Running.placed /\ Head(Running.text) = GLYPH
  /\ _curX' = _curX + 1
  /\ Printed(1)
  /\ UNCHANGED <<vars, phase, pci, _curY, font>>

Putchar == Place \/ PutNewline \/ PutGlyph

(***************************************************************************)
(* _start                                                                  *)
(***************************************************************************)
InPhase(p) == phase = p /\ cpu = "runs" /\ frames = <<>> /\ Running.text = <<>>

Clear ==
  /\ InPhase("clear")
  /\ phase' = "font"
  /\ UNCHANGED <<vars, pci, console>>

SetFontNever ==
  /\ InPhase("font")
  /\ phase' = "interrupts"
  /\ UNCHANGED <<vars, pci, console>>

SetFont ==
  /\ InPhase("font")
  /\ font' = TRUE
  /\ phase' = "interrupts"
  /\ UNCHANGED <<vars, pci, _curX, _curY, prints>>

SetUpInterrupts ==
  /\ InPhase("interrupts")
  /\ Start
  /\ phase' = IF pc' = "idle" THEN "heap" ELSE phase
  /\ UNCHANGED <<pci, console>>

(* alloc_init; nothing uses the heap.                                       *)
InitHeap ==
  /\ InPhase("heap")
  /\ phase' = "scan"
  /\ UNCHANGED <<vars, pci, console>>

(* pci_scan: bus by bus, slot by slot, function by function.                *)
Functions == 0 .. PCI_BUS_COUNT * PCI_DEV_PER_BUS * PCI_FUNC_PER_DEV - 1
Device(i) == [bus |-> i \div (PCI_DEV_PER_BUS * PCI_FUNC_PER_DEV),
              slot |-> (i \div PCI_FUNC_PER_DEV) % PCI_DEV_PER_BUS,
              function |-> i % PCI_FUNC_PER_DEV]

NextFunctionOfSlot == at' = at + PCI_FUNC_PER_DEV - (at % PCI_FUNC_PER_DEV)
NextFunction == at' = at + 1

(* pci_read asks the machine whether it has the function.  The machine has  *)
(* at most MAX_DEVICES; the table has room for every function.              *)
Present == {d \in DOMAIN answers : answers[d]}
Asked(there) ==
  answers' = [d \in DOMAIN answers \cup {Device(at)} |-> IF d = Device(at) THEN there ELSE answers[d]]

(* The address it writes is in a register, and so is the answer until it is *)
(* compared: a handler that came back to either may have changed it.        *)
ReadVendor ==
  /\ InPhase("scan") /\ at \in Functions /\ vendor = "unread"
  /\ \E there \in BOOLEAN :
       /\ there => Cardinality(Present) < MAX_DEVICES
       /\ Asked(there)
       /\ vendor' \in IF Device(at) \in disturbed THEN {"none", "id"}
                      ELSE {IF there THEN "id" ELSE "none"}
  /\ UNCHANGED <<vars, phase, at, disturbed, pciDevices, listed, console>>

ScanNone ==
  /\ InPhase("scan") /\ vendor = "none"
  /\ NextFunction
  /\ vendor' = "unread"
  /\ UNCHANGED <<vars, phase, disturbed, answers, pciDevices, listed, console>>

ScanFound ==
  /\ InPhase("scan") /\ vendor = "id"
  /\ pciDevices' = Append(pciDevices, Device(at))
  /\ NextFunction
  /\ vendor' = "unread"
  /\ UNCHANGED <<vars, phase, disturbed, answers, listed, console>>

ScanEnds ==
  /\ InPhase("scan") /\ at \notin Functions
  /\ phase' = "say"
  /\ prints' = WithRunning(Job(Greeting))
  /\ UNCHANGED <<vars, pci, _curX, _curY, font>>

StartList ==
  /\ InPhase("say")
  /\ phase' = "list"
  /\ UNCHANGED <<vars, pci, console>>

ListDevice ==
  /\ InPhase("list") /\ listed < Len(pciDevices)
  /\ \E kind \in Kinds : prints' = WithRunning(Job(DeviceLine(kind)))
  /\ listed' = listed + 1
  /\ UNCHANGED <<vars, phase, at, vendor, disturbed, answers, pciDevices, _curX, _curY, font>>

ListEnds ==
  /\ InPhase("list") /\ listed = Len(pciDevices)
  /\ phase' = "loop"
  /\ UNCHANGED <<vars, pci, console>>

_start ==
  \/ Clear \/ SetFont \/ SetUpInterrupts \/ InitHeap
  \/ ReadVendor \/ ScanNone \/ ScanFound \/ ScanEnds \/ StartList \/ ListDevice \/ ListEnds

(***************************************************************************)
(* Exceptions and NMIs come as in KernelInterrupts.  A handler prints its  *)
(* message and then halts or returns.                                      *)
(***************************************************************************)
MessageOnSameLine(v) == Job(Glyphs(MESSAGE[v]))
Message(v) == Job(<<NEWLINE>> \o Glyphs(MESSAGE[v]))

FollowPrints ==
  prints' = CASE Len(frames') > Len(frames) -> Append(prints, Message(Last(frames').vector))
              [] Len(frames') < Len(frames) -> Front(prints)
              [] OTHER -> prints

(* A handler that goes back to the scan has lost the answer it waits for.   *)
BackToScan == phase = "scan" /\ at \in Functions /\ frames # <<>> /\ frames' = <<>>
Disturb ==
  /\ disturbed' = disturbed \cup {Device(at)}
  /\ vendor' \in IF vendor = "unread" THEN {"unread"} ELSE {"none", "id"}

FollowFrames ==
  /\ FollowPrints
  /\ IF BackToScan THEN Disturb ELSE UNCHANGED <<vendor, disturbed>>
  /\ UNCHANGED <<phase, at, answers, pciDevices, listed, _curX, _curY, font>>

Event == ((\E v \in EXCEPTIONS : Exception(v)) \/ Nmi) /\ FollowFrames

HandlerEnds == Running.text = <<>> /\ Handler /\ FollowFrames

KernelNext == _start \/ Putchar \/ Event \/ HandlerEnds

KernelSpec ==
  /\ KernelInit /\ [][KernelNext]_kernelVars
  /\ WF_kernelVars(_start) /\ WF_kernelVars(Putchar) /\ WF_kernelVars(HandlerEnds)

KernelTypeOK ==
  /\ TypeOK
  /\ phase \in {"clear", "font", "interrupts", "heap", "scan", "say", "list", "loop"}
  /\ at \in 0 .. PCI_BUS_COUNT * PCI_DEV_PER_BUS * PCI_FUNC_PER_DEV
  /\ vendor \in {"unread", "none", "id"} /\ _curX \in Nat /\ _curY \in Nat /\ font \in BOOLEAN
  /\ Len(prints) = Len(frames) + 1

(***************************************************************************)
(* Properties.                                                             *)
(***************************************************************************)

(* Whatever handlers have printed between the two halves of putchar, a      *)
(* glyph is drawn inside the screen: no part of it is clipped.  It holds    *)
(* because every message begins with a newline and, with what an NMI puts   *)
(* before the rest of it, is shorter than a line.                           *)
GlyphsAreWhole ==
  CPrints /\ Running.placed /\ Head(Running.text) = GLYPH =>
    /\ (_curX + 1) * FONT_WIDTH <= _VGA_WIDTH
    /\ (_curY + 1) * FONT_HEIGHT <= _VGA_HEIGHT

(* When a fatal handler has halted the processor, its whole message was     *)
(* drawn, even if the exception came at the first moment it could.          *)
FatalIsSeen ==
  \A i \in DOMAIN frames : frames[i].halted => prints[i + 1].drawn = MESSAGE[frames[i].vector]

(* After the scan every function of every bus was asked for, and the table  *)
(* has those that are there, in the order of the buses and none twice.  Of a *)
(* function the scan was at when a handler came back to it nothing is said: *)
(* it may be missed, or listed without being there.  It is the only one: the *)
(* table and the rest of the scan are as if nothing had come.               *)
Index(d) == (d.bus * PCI_DEV_PER_BUS + d.slot) * PCI_FUNC_PER_DEV + d.function
ScanFindsAll ==
  /\ phase \in {"say", "list", "loop"} =>
       /\ DOMAIN answers = [bus : 0 .. PCI_BUS_COUNT - 1, slot : 0 .. PCI_DEV_PER_BUS - 1,
                            function : 0 .. PCI_FUNC_PER_DEV - 1]
       /\ ToSet(pciDevices) \subseteq DOMAIN answers
       /\ \A d \in DOMAIN answers \ disturbed : d \in ToSet(pciDevices) <=> d \in Present
  /\ \A i, j \in DOMAIN pciDevices : i < j => Index(pciDevices[i]) < Index(pciDevices[j])

(* If no exception comes, the kernel has every gate set, interrupts on, and *)
(* every device listed in the end.                                          *)
KernelComesUp ==
  <>(\/ events > 0
     \/ /\ phase = "loop" /\ IF_flag /\ listed = Cardinality(Present)
        /\ \A v \in 0 .. 255 : Valid(v) <=> v \in isr_list \cup {SYSCALL})

(***************************************************************************)
(* What _start expects, and the code does not keep.                        *)
(***************************************************************************)

(* "Searching all the devices" (pci.c:101): whatever comes during the scan, *)
(* the table has the functions that are there.                              *)
InterruptedScanFindsAll == phase \in {"say", "list", "loop"} => ToSet(pciDevices) = Present
=============================================================================
