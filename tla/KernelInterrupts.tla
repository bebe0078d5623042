---------------------------- MODULE KernelInterrupts ----------------------------
(***************************************************************************)
(* How the kernel sets up its interrupts (src/kernel/src/start.c,          *)
(* kernel/pic.c, kernel/idt.c) and what its exception handlers do          *)
(* (kernel/isr.c, libc/sys/io.asm).  idt_init enables interrupts before it *)
(* fills the IDT, a descriptor is written in five stores, and an NMI or    *)
(* another exception may come between any two steps.  The 8259 and the way *)
(* the processor delivers an exception are external.                       *)
(*                                                                         *)
(* A handler is a C function that ends with halt() or return_interrupt().  *)
(* Both leave its frame on the stack, under a return address: the iret of  *)
(* return_interrupt, and the one that follows the hlt of halt, pop that    *)
(* address and two words the handler never wrote.  What these make of CS   *)
(* is chosen freely: a general protection fault, or the end of the         *)
(* handler, whose ret takes the word above its frame for an address.       *)
(*                                                                         *)
(* As in ChunkList, a definition named for what it gets wrong is a faulty  *)
(* variant of the one after it, there to test the properties.              *)
(***************************************************************************)
EXTENDS Integers, Sequences

CONSTANTS
  EXCEPTIONS,  \* the exceptions the kernel's code may raise
  MAX_EVENTS   \* bounds how many exceptions and NMIs come

ASSUME ExceptionsAssumption == EXCEPTIONS \subseteq 0 .. 31
ASSUME EventsAssumption == MAX_EVENTS \in Nat

VARIABLES
  pc,        \* where _start is: "pic", "lidt", "fill", "syscall", or "idle" when
             \* the interrupts are set up
  writes,    \* the writes to the PICs that are done
  pics,      \* what each 8259 expects, its first vector and its mask
  gates,     \* the fields of each descriptor that are stored
  vector,    \* the descriptor idt_set_descriptor is called for
  stores,    \* the fields it has stored
  cpu,       \* "runs", "halted", "reset" or "wild": it runs no code of ours, or
             \* ours with a lost address or counter, and may do anything
  IF_flag,   \* EFLAGS.IF
  frames,    \* the handlers that were entered and not left, innermost last
  nmiBlocked,
  events

control == <<pc, writes, pics, gates, vector, stores>>
vars == <<control, cpu, IF_flag, frames, nmiBlocked, events>>

(* Vectors.                                                                 *)
NMI == 2
DOUBLE_FAULT == 8
GENERAL_PROTECTION == 13
SYSCALL == 170
NullHandlersDoubleFault == {8, 15} \cup 22 .. 27 \cup {31}
NullHandlers == {15} \cup 22 .. 27 \cup {31}
isr_list == 0 .. 31 \ NullHandlers
InfoHandlers == {1, 2, 3, 6, 7, 17, 18}
FatalHandlers == isr_list \ InfoHandlers

(* The exceptions that push an error code.                                  *)
WithErrorCode == {8, 17, 21, 29, 30} \cup 10 .. 14

(***************************************************************************)
(* pic_remap_irq0: the bytes written to the two 8259.                      *)
(***************************************************************************)
PIC1_OFFSET == 32
PIC2_OFFSET == 40

ICW1(p) == [pic |-> p, port |-> "command", value |-> 17]
Data(p, value) == [pic |-> p, port |-> "data", value |-> value]
PicWritesNoIcw4 ==
  <<ICW1(1), ICW1(2), Data(1, PIC1_OFFSET), Data(2, PIC2_OFFSET), Data(1, 4), Data(2, 2),
    Data(1, 255), Data(2, 255)>>
PicWrites ==
  <<ICW1(1), ICW1(2), Data(1, PIC1_OFFSET), Data(2, PIC2_OFFSET), Data(1, 4), Data(2, 2),
    Data(1, 1), Data(2, 1), Data(1, 255), Data(2, 255)>>

(* An 8259 takes the bytes after ICW1 for ICW2, ICW3 and ICW4.              *)
Written(pic, w) ==
  CASE w.port = "command" -> [expects |-> "ICW2", offset |-> pic.offset, mask |-> 0]
    [] w.port = "data" /\ pic.expects = "ICW2" ->
         [expects |-> "ICW3", offset |-> w.value, mask |-> pic.mask]
    [] w.port = "data" /\ pic.expects = "ICW3" -> [pic EXCEPT !.expects = "ICW4"]
    [] w.port = "data" /\ pic.expects = "ICW4" -> [pic EXCEPT !.expects = "OCW1"]
    [] OTHER -> [pic EXCEPT !.mask = w.value]

(***************************************************************************)
(* The IDT.                                                                *)
(***************************************************************************)
FieldsAttributsFirst == <<"attributs", "addr_low", "addr_high", "segment", "reserved">>
Fields == <<"addr_low", "addr_high", "segment", "attributs", "reserved">>

(* A descriptor that was never written is no gate.                          *)
Valid(v) == "attributs" \in gates[v]
Complete(v) == {"addr_low", "addr_high", "segment", "attributs"} \subseteq gates[v]

(* The processor delivers v; if there is no gate for it, a general          *)
(* protection fault; if that is the second fault, or has no gate, a double  *)
(* fault; if that has none, it resets the machine.                          *)
Faults == {0} \cup 10 .. 14
Attempts(v) ==
  CASE v = DOUBLE_FAULT -> <<v>>
    [] v \in Faults     -> <<v, DOUBLE_FAULT>>
    [] OTHER            -> <<v, GENERAL_PROTECTION, DOUBLE_FAULT>>
Enter(v) ==
  /\ frames' = Append(frames, [vector |-> v, halted |-> FALSE])
  /\ cpu' = "runs" /\ IF_flag' = FALSE
Deliver(v) ==
  LET gatesFound == {i \in DOMAIN Attempts(v) : Valid(Attempts(v)[i])}
  IN IF gatesFound = {} THEN cpu' = "reset" /\ UNCHANGED <<IF_flag, frames>>
     ELSE \E i \in gatesFound :
            /\ \A j \in gatesFound : i <= j
            /\ IF Complete(Attempts(v)[i]) THEN Enter(Attempts(v)[i])
                                           ELSE cpu' = "wild" /\ UNCHANGED <<IF_flag, frames>>

(***************************************************************************)
(* _start.  The loader has left interrupts disabled and the PICs as the    *)
(* BIOS sets them.                                                         *)
(***************************************************************************)
Init ==
  /\ pc = "pic" /\ writes = 0
  /\ pics = [p \in 1 .. 2 |-> [expects |-> "OCW1", offset |-> IF p = 1 THEN 8 ELSE 112, mask |-> 0]]
  /\ gates = [v \in 0 .. 255 |-> {}] /\ vector = 0 /\ stores = 0
  /\ cpu = "runs" /\ IF_flag = FALSE /\ frames = <<>> /\ nmiBlocked = FALSE
  /\ events = 0

InStart(place) == pc = place /\ cpu = "runs" /\ frames = <<>>
machine == <<cpu, frames, nmiBlocked, events>>

PicWrite ==
  /\ InStart("pic") /\ writes < Len(PicWrites)
  /\ writes' = writes + 1
  /\ LET w == PicWrites[writes + 1]
     IN pics' = [pics EXCEPT ![w.pic] = Written(@, w)]
  /\ pc' = IF writes + 1 = Len(PicWrites) THEN "lidt" ELSE pc
  /\ UNCHANGED <<gates, vector, stores, IF_flag, machine>>

(* lidt; sti.                                                               *)
LoadIdt ==
  /\ InStart("lidt")
  /\ IF_flag' = TRUE
  /\ pc' = "fill"
  /\ UNCHANGED <<writes, pics, gates, vector, stores, machine>>

(* One store of idt_set_descriptor, and after the last one the next call.   *)
SetDescriptor ==
  /\ gates' = [gates EXCEPT ![vector] = @ \cup {Fields[stores + 1]}]
  /\ stores' = (stores + 1) % Len(Fields)

FillVector ==
  /\ InStart("fill") /\ vector \in isr_list
  /\ SetDescriptor
  /\ vector' = IF stores' = 0 THEN vector + 1 ELSE vector
  /\ UNCHANGED <<pc, writes, pics, IF_flag, machine>>

SkipVectorForever ==
  /\ InStart("fill") /\ vector \in NullHandlers
  /\ UNCHANGED <<control, IF_flag, machine>>
SkipVector ==
  /\ InStart("fill") /\ vector \in NullHandlers
  /\ vector' = vector + 1
  /\ UNCHANGED <<pc, writes, pics, gates, stores, IF_flag, machine>>

FillEnds ==
  /\ InStart("fill") /\ vector > 31
  /\ vector' = SYSCALL
  /\ pc' = "syscall"
  /\ UNCHANGED <<writes, pics, gates, stores, IF_flag, machine>>

SetSyscall ==
  /\ InStart("syscall")
  /\ SetDescriptor
  /\ pc' = IF stores' = 0 THEN "idle" ELSE pc
  /\ UNCHANGED <<writes, pics, vector, IF_flag, machine>>

(***************************************************************************)
(* Exceptions and NMIs.                                                    *)
(***************************************************************************)
IdtLoaded == pc \notin {"pic", "lidt"}

Exception(v) ==
  /\ IdtLoaded /\ cpu = "runs" /\ frames = <<>> /\ events < MAX_EVENTS
  /\ events' = events + 1
  /\ Deliver(v)
  /\ UNCHANGED <<control, nmiBlocked>>

(* An NMI wakes a processor that hlt has stopped.                           *)
Nmi ==
  /\ IdtLoaded /\ cpu \in {"runs", "halted"} /\ ~nmiBlocked /\ events < MAX_EVENTS
  /\ events' = events + 1
  /\ nmiBlocked' = TRUE
  /\ Deliver(NMI)
  /\ UNCHANGED control

Top == frames[Len(frames)]

FatalHalts ==
  /\ cpu = "runs" /\ frames # <<>>
  /\ Top.vector \in FatalHandlers /\ ~Top.halted
  /\ frames' = [frames EXCEPT ![Len(frames)].halted = TRUE]
  /\ cpu' = "halted" /\ IF_flag' = FALSE
  /\ UNCHANGED <<control, nmiBlocked, events>>

(* return_interrupt, called by an info handler, or run into by a halt that  *)
(* was woken up.                                                            *)
AtIret == cpu = "runs" /\ frames # <<>> /\ (Top.vector \in InfoHandlers \/ Top.halted)

IretFaults ==
  /\ AtIret
  /\ nmiBlocked' = FALSE
  /\ Deliver(GENERAL_PROTECTION)
  /\ UNCHANGED <<control, events>>

(* The ret of an info handler finds the interrupted address, or an error    *)
(* code.  It has saved no registers: the code it goes back to goes on with  *)
(* what was in memory, and what it had in a register may be lost (KernelStart *)
(* says so of the answer the scan waits for; with an address or a counter   *)
(* lost it may do anything).  A halt that was woken up finds what the NMI has *)
(* left: two words that are no address.                                     *)
IretGoesOn ==
  /\ AtIret
  /\ nmiBlocked' = FALSE
  /\ IF_flag' \in BOOLEAN
  /\ \/ cpu' = "wild" /\ UNCHANGED frames
     \/ /\ ~Top.halted /\ Top.vector \notin WithErrorCode
        /\ cpu' = "runs" /\ frames' = SubSeq(frames, 1, Len(frames) - 1)
  /\ UNCHANGED <<control, events>>

Start == PicWrite \/ LoadIdt \/ FillVector \/ SkipVector \/ FillEnds \/ SetSyscall
Handler == FatalHalts \/ IretFaults \/ IretGoesOn

Next ==
  \/ PicWrite \/ LoadIdt \/ FillVector \/ SkipVector \/ FillEnds \/ SetSyscall
  \/ \E v \in EXCEPTIONS : Exception(v)
  \/ Nmi \/ FatalHalts \/ IretFaults \/ IretGoesOn

(* The processor goes on; nothing makes an exception come.                  *)
Spec == Init /\ [][Next]_vars /\ WF_vars(Start) /\ WF_vars(Handler)

(***************************************************************************)
(* Properties.                                                             *)
(***************************************************************************)
TypeOK ==
  /\ pc \in {"pic", "lidt", "fill", "syscall", "idle"} /\ writes \in 0 .. Len(PicWrites)
  /\ pics \in [1 .. 2 -> [expects : {"ICW2", "ICW3", "ICW4", "OCW1"}, offset : 0 .. 255, mask : 0 .. 255]]
  /\ gates \in [0 .. 255 -> SUBSET {"addr_low", "addr_high", "segment", "attributs", "reserved"}]
  /\ vector \in 0 .. 32 \cup {SYSCALL} /\ stores \in 0 .. Len(Fields) - 1
  /\ cpu \in {"runs", "halted", "reset", "wild"}
  /\ frames \in Seq([vector : isr_list, halted : BOOLEAN])
  /\ {IF_flag, nmiBlocked} \subseteq BOOLEAN /\ events \in 0 .. MAX_EVENTS

(* Whenever an exception comes while idt_set_descriptor is at work, the     *)
(* processor finds no gate or a finished one: no handler is entered by half *)
(* an address.                                                              *)
NoTornGate == \A v \in 0 .. 255 : Valid(v) => Complete(v)

(* From sti on, the PICs are past their initialisation, send vectors no     *)
(* exception has, and all their lines are masked: no IRQ can come.          *)
IrqsAreOff ==
  IdtLoaded => \A p \in 1 .. 2 :
    /\ pics[p].expects = "OCW1" /\ pics[p].mask = 255
    /\ pics[p].offset \in 32 .. 248 /\ pics[p].offset % 8 = 0

(* Once idt_init has passed the double fault every exception ends in a      *)
(* handler: only the first moments after sti can reset the machine.         *)
ResetOnlyWhileFilling == [][cpu' = "reset" => pc = "fill" /\ vector <= DOUBLE_FAULT]_vars

(* If no exception comes, _start has every gate set in the end and idles    *)
(* with interrupts on.                                                      *)
StartEnds ==
  <>(\/ events > 0
     \/ pc = "idle" /\ IF_flag /\ \A v \in 0 .. 255 : Valid(v) <=> v \in isr_list \cup {SYSCALL})

(***************************************************************************)
(* What the messages say, and the code does not.                           *)
(***************************************************************************)

(* "Page fault, halt" (isr.c:165) and its like: after it the processor runs *)
(* nothing any more.                                                        *)
HaltIsFinal == [][cpu = "halted" => cpu' = "halted"]_vars
=============================================================================
